----------------------------- MODULE CrashPoint -----------------------------
(***************************************************************************)
(* RoundsService.generateCrashPoint: the first 32 bits of an HMAC become a  *)
(* crash point and a crash type, and startWaiting stores them with a round. *)
(* The HMAC is a uniform draw here, so a set of prefixes stands for its     *)
(* share of all rounds.  Crash points are counted in cents (1.00 is 100);   *)
(* the double arithmetic of the code is taken to be exact.                  *)
(***************************************************************************)
EXTENDS Integers, FiniteSets

CONSTANTS
    MaxPrefix,  \* 0xffffffff
    MaxStored   \* the largest rounds.crash_point, a Decimal(10,2), in cents

ASSUME CrashPointAssumption ==
    /\ MaxPrefix \in Nat \ {0}
    /\ MaxStored \in Nat /\ MaxStored > 100

VARIABLE outcome    \* of the latest startWaiting: NoOutcome, or what was drawn

HashPrefixes == 0 .. MaxPrefix

CrashTypes == <<"post", "miss", "save">>

NoOutcome == [prefix |-> -1, created |-> FALSE, crashPoint |-> 0, crashType |-> "none"]

\* a / b rounded half up, as toFixed does.
Rounded(a, b) == (2 * a + b) \div (2 * b)

\* Mutation of Cents: the ratio is taken of the draw itself, not of what is left.
CentsInverse(prefix) ==
    LET ratio == IF prefix = 0 THEN 100 ELSE Rounded(97 * MaxPrefix, prefix)
    IN  IF ratio < 100 THEN 100 ELSE ratio

\* Mutation of Cents: no share is kept from the players.
CentsFair(prefix) ==
    LET ratio == Rounded(100 * MaxPrefix, MaxPrefix - prefix)
    IN  IF ratio < 100 THEN 100 ELSE ratio

\* 0.97 / (1 - probability), of a probability less than 1.
Cents(prefix) ==
    LET ratio == Rounded(97 * MaxPrefix, MaxPrefix - prefix)
    IN  IF ratio < 100 THEN 100 ELSE ratio

\* The last prefix divides by zero, and the column takes no Infinity.
Storable(prefix) == prefix # MaxPrefix /\ Cents(prefix) <= MaxStored

\* generateCrashPoint, and the round that startWaiting creates from it; a crash
\* point that cannot be stored makes the create throw.
GenerateCrashPoint ==
    \E prefix \in HashPrefixes :
        outcome' = IF Storable(prefix)
                   THEN [prefix |-> prefix, created |-> TRUE, crashPoint |-> Cents(prefix),
                         crashType |-> CrashTypes[(prefix % 3) + 1]]
                   ELSE [NoOutcome EXCEPT !.prefix = prefix]

CrashPointInit == outcome = NoOutcome

CrashPointSpec == CrashPointInit /\ [][GenerateCrashPoint]_outcome

-----------------------------------------------------------------------------

\* Type invariant: a round that is created has a crash type, and does not crash
\* below the level at which every round takes off.
OutcomeOK ==
    outcome.created => /\ outcome.crashPoint \in 100 .. MaxStored
                       /\ \E i \in 1 .. 3 : outcome.crashType = CrashTypes[i]

\* The prefixes whose round lets a bet be cashed out at a level.
Reaching(level) == {prefix \in HashPrefixes : Storable(prefix) /\ Cents(prefix) >= level}

\* "0.97": a bet cashed out at any crash point above 1.00 returns, over all
\* draws, at most 97.5 percent of the stake.  Neither the rounding to cents nor
\* the ends of the prefix range give the edge away.
HouseEdge ==
    outcome.crashPoint > 100 =>
        2 * outcome.crashPoint * Cardinality(Reaching(outcome.crashPoint)) <= 195 * MaxPrefix

\* A round that cannot be created, whose rejection nobody handles, was drawn from
\* the last few prefixes: about one for every hundred million.
RejectedOnlyAtTop ==
    outcome.prefix >= 0 /\ ~outcome.created =>
        (MaxPrefix - outcome.prefix) * (2 * MaxStored + 1) <= 194 * MaxPrefix

=============================================================================
