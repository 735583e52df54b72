------------------------------- MODULE Startup -------------------------------
(***************************************************************************)
(* main.ts from the imports to the first request, and what the environment  *)
(* that the process ends up with makes of deposits and of CORS.             *)
(*                                                                          *)
(* An environment is a record with a field for each variable that decides   *)
(* something; values that no code tells apart are one value.  Both JWT      *)
(* secrets are one field: "weak" is missing or shorter than 32 characters.  *)
(***************************************************************************)
EXTENDS FiniteSets

CONSTANT GateVars   \* variables that the guard asks of a SentinelGate merchant

ASSUME StartupAssumption ==
    {"API_KEY", "API_SECRET", "WEBHOOK_SECRET", "CALLBACK_URL"} \subseteq GateVars

VARIABLES
    given,          \* the environment the process was started with
    fromFile,       \* NODE_ENV and CORS_ORIGIN as a .env file has them
    env,            \* process.env
    stage,          \* "imports", "defaults", "guard", "serving" or "exited"
    socketOrigins   \* what the decorator of GameGateway was given

startupVars == <<given, fromFile, env, stage, socketOrigins>>

Unset == "unset"

Modes == {Unset, "production", "development"}

Origins == {Unset, "*", "listed"}

Environments ==
    [node : Modes, cors : Origins,
     profile : {Unset, "public-test", "other"},     \* DEPLOY_PROFILE
     demo : {Unset, "true", "false"},               \* DEMO_HARDCODED
     database : {Unset, "own"},
     secrets : {"weak", "strong"},
     instant : {Unset, "true", "false"},            \* PAYMENT_SIMULATION_INSTANT
     gate : SUBSET GateVars,
     render : BOOLEAN]                              \* RENDER_EXTERNAL_URL is set

Files == [node : Modes, cors : Origins]

StartupInit ==
    /\ given \in Environments
    /\ fromFile \in Files
    /\ env = given
    /\ stage = "imports"
    /\ socketOrigins = "undecided"

Or(value, default) == IF value = Unset THEN default ELSE value

\* getCorsOrigins.
CorsOrigins(e) ==
    CASE e.cors = "*" -> "any"
      [] e.cors = Unset -> IF e.node = "production" THEN "none" ELSE "any"
      [] OTHER -> e.cors

\* Importing AppModule evaluates the gateway's decorator, before ConfigModule and
\* dotenv.config add what a .env file says of variables that are not set.
LoadModules ==
    /\ stage = "imports"
    /\ socketOrigins' = CorsOrigins(env)
    /\ env' = [env EXCEPT !.node = Or(@, fromFile.node), !.cors = Or(@, fromFile.cors)]
    /\ stage' = "defaults"
    /\ UNCHANGED <<given, fromFile>>

\* isDemoHardcodedDeploy.
IsDemo(e) ==
    /\ e.demo # "false"
    /\ e.demo = "true" \/ e.profile = "public-test" \/ e.database = Unset

\* Mutation of DemoEnv: the demo's origins replace those that were set.
DemoEnvOwnOrigins(e) ==
    [e EXCEPT !.database = Or(@, "demo"), !.profile = Or(@, "public-test"),
              !.secrets = "strong", !.node = Or(@, "production"), !.cors = "demo",
              !.instant = IF @ = "false" THEN "false" ELSE "true",
              !.gate = @ \cup ({"SUCCESS_URL", "CANCEL_URL"} \cap GateVars)]

\* applyDemoHardcodedEnv, once the deployment is taken for a demo.
DemoEnv(e) ==
    [e EXCEPT !.database = Or(@, "demo"), !.profile = Or(@, "public-test"),
              !.secrets = "strong", !.node = Or(@, "production"), !.cors = Or(@, "demo"),
              !.instant = IF @ = "false" THEN "false" ELSE "true",
              !.gate = @ \cup ({"SUCCESS_URL", "CANCEL_URL"} \cap GateVars)]

\* bootstrapRuntimeEnv: Render's URL serves as API_PUBLIC_URL.
ApplyDefaults ==
    /\ stage = "defaults"
    /\ env' = LET e == IF IsDemo(env) THEN DemoEnv(env) ELSE env
              IN  [e EXCEPT !.gate = IF e.render THEN @ \cup {"CALLBACK_URL"} ELSE @]
    /\ stage' = "guard"
    /\ UNCHANGED <<given, fromFile, socketOrigins>>

Production(e) == e.node = "production"

PublicTest(e) == e.profile = "public-test"

\* Mutation of Passes: simulated payments are not asked about.
PassesSimulated(e) ==
    Production(e) =>
        /\ e.database # Unset /\ e.secrets = "strong"
        /\ PublicTest(e) \/ /\ e.cors \notin {Unset, "*"}
                            /\ e.gate = GateVars

\* assertProductionEnvironment finds no error.
Passes(e) ==
    Production(e) =>
        /\ e.database # Unset /\ e.secrets = "strong"
        /\ PublicTest(e) \/ /\ e.cors \notin {Unset, "*"}
                            /\ e.instant # "true"
                            /\ e.gate = GateVars

AssertProductionEnvironment ==
    /\ stage = "guard"
    /\ stage' = IF Passes(env) THEN "serving" ELSE "exited"
    /\ UNCHANGED <<given, fromFile, env, socketOrigins>>

StartupNext == LoadModules \/ ApplyDefaults \/ AssertProductionEnvironment

StartupSpec == StartupInit /\ [][StartupNext]_startupVars

-----------------------------------------------------------------------------
(* What the wallet makes of it *)

\* SentinelGateService.isEnabled.
GateEnabled(e) == {"API_KEY", "API_SECRET"} \subseteq e.gate

\* getCallbackUrl finds a URL to tell the provider.
HasCallback(e) == "CALLBACK_URL" \in e.gate

\* verifyWebhookSignature has a secret to verify with.
CanVerify(e) == "WEBHOOK_SECRET" \in e.gate

\* isPaymentSimulationAllowed.
SimulationAllowed(e) == ~Production(e) /\ e.instant = "true"

\* deposit refuses every method.
DepositsRefused(e) == Production(e) /\ e.instant = "true"

\* Mutation of CardDeposit: simulation leaves the checkout alone.
CardDepositAnyway(e) ==
    IF DepositsRefused(e) \/ ~GateEnabled(e) THEN "refused"
    ELSE IF ~HasCallback(e) \/ ~CanVerify(e) THEN "dead end"
    ELSE "checkout"

\* depositSentinelGate.  A dead end is a pending row without a checkout (no
\* callback URL) or one whose webhooks are refused (no webhook secret).
CardDeposit(e) ==
    IF DepositsRefused(e) \/ ~GateEnabled(e) \/ SimulationAllowed(e) THEN "refused"
    ELSE IF ~HasCallback(e) \/ ~CanVerify(e) THEN "dead end"
    ELSE "checkout"

\* depositLegacy, for any other method.
OtherDeposit(e) ==
    CASE DepositsRefused(e) -> "refused"
      [] SimulationAllowed(e) \/ /\ ~Production(e) /\ ~GateEnabled(e)
                                 /\ e.instant # "false" -> "instant"
      [] OTHER -> "pending"

-----------------------------------------------------------------------------

\* A process that credits deposits at once is not a production process, and does
\* not send anybody to a checkout either: simulated and paid money never mix.
SimulatedMoneyStaysApart ==
    stage = "serving" /\ OtherDeposit(env) = "instant" =>
        ~Production(env) /\ CardDeposit(env) = "refused"

\* "Fail fast when required secrets or unsafe flags are missing": a production
\* process that serves, and is no public test, takes card deposits and can be
\* told what became of them, whichever defaults it was started with.
GuardedDeploymentTakesCards ==
    stage = "serving" /\ Production(env) /\ ~PublicTest(env) => CardDeposit(env) = "checkout"

\* The game's sockets accept the origins that the HTTP API accepts whenever the
\* origins were in the environment from the start.  (Those of a .env file or of
\* the demo come too late for the decorator.)
SocketsFollowHttp ==
    stage = "serving" /\ given.cors # Unset => socketOrigins = CorsOrigins(env)

=============================================================================
