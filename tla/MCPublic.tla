------------------------------ MODULE MCPublic ------------------------------
(***************************************************************************)
(* Four small components that share nothing: what players are shown, how    *)
(* often a socket may speak, what a round is drawn from, and how the        *)
(* process starts.  One run explores each on its own, the others at rest.   *)
(***************************************************************************)
EXTENDS Boards, RateLimit, CrashPoint, Startup, TLC

VARIABLE part   \* the component that this behaviour is about

Symmetry == Permutations(Players)

publicVars == <<boardsVars, limitVars, outcome, startupVars, part>>

TwoPayouts == {[winnings |-> 1, cashoutMultiplier |-> 3],
               [winnings |-> 2, cashoutMultiplier |-> 2]}

Merchant == {"API_KEY", "API_SECRET", "WEBHOOK_SECRET", "CALLBACK_URL", "SUCCESS_URL"}

\* The start of a process that this behaviour is not about.
SomeStart ==
    /\ given = CHOOSE e \in Environments : TRUE
    /\ fromFile = CHOOSE f \in Files : TRUE
    /\ env = given
    /\ stage = "imports"
    /\ socketOrigins = "undecided"

PublicInit ==
    /\ Init /\ LimitInit /\ CrashPointInit
    /\ \/ part \in {"boards", "limit", "crash point"} /\ SomeStart
       \/ part = "start-up" /\ StartupInit

PublicNext ==
    \/ part = "boards" /\ Next /\ UNCHANGED <<limitVars, outcome, startupVars, part>>
    \/ part = "limit" /\ LimitNext /\ UNCHANGED <<boardsVars, outcome, startupVars, part>>
    \/ part = "crash point" /\ GenerateCrashPoint
                            /\ UNCHANGED <<boardsVars, limitVars, startupVars, part>>
    \/ part = "start-up" /\ StartupNext /\ UNCHANGED <<boardsVars, limitVars, outcome, part>>

PublicSpec == PublicInit /\ [][PublicNext]_publicVars

=============================================================================
