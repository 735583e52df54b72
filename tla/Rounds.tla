------------------------------- MODULE Rounds -------------------------------
(***************************************************************************)
(* RoundsService and the rows of `rounds`.  Rounds are known by their       *)
(* round_number.  A server seed is known by how often the process rotated   *)
(* it, and its hash by the seed, which it commits to.                       *)
(*                                                                          *)
(* Multipliers are levels: 1 is 1.00, and the growth of e^(0.06 t) from one *)
(* tick to the next is a step to any level that is not lower.               *)
(***************************************************************************)
EXTENDS Integers

CONSTANTS
    MaxRounds,      \* bound: rounds that are created
    TopLevel        \* highest multiplier and crash point

ASSUME RoundsAssumption ==
    /\ MaxRounds \in Nat
    /\ TopLevel \in Nat \ {0, 1}

VARIABLES
    round,              \* rows of rounds, by number
    serverSeed,         \* RoundsService.serverSeed
    currentMultiplier   \* RoundsService.currentMultiplier, what REST cashouts pay

roundsVars == <<round, serverSeed, currentMultiplier>>

RoundNumbers == 1 .. MaxRounds

Levels == 1 .. TopLevel

NoRound == [status |-> "absent"]

NotRevealed == 0                    \* rounds.server_seed is null

RoundRows == [status : {"waiting", "flying", "crashed"},
              serverSeedHash : Nat, serverSeed : Nat]

RoundsTypeOK ==
    /\ round \in [RoundNumbers -> RoundRows \cup {NoRound}]
    /\ serverSeed \in Nat \ {NotRevealed}
    /\ currentMultiplier \in Levels

RoundsInit ==
    /\ round = [n \in RoundNumbers |-> NoRound]
    /\ serverSeed = 1
    /\ currentMultiplier = 1

RotateServerSeed == serverSeed' = serverSeed + 1

Created == {n \in RoundNumbers : round[n] # NoRound}

\* round.create under the number after the last one.  The hash commits to the
\* seed before anyone may bet.  The crash point is drawn from the seed, which is
\* what the fairness check recomputes, so the row's copy of it is left out.
CreateRound(n) ==
    /\ Created = 1 .. n - 1
    /\ round' = [round EXCEPT ![n] =
           [status |-> "waiting", serverSeedHash |-> serverSeed,
            serverSeed |-> NotRevealed]]

\* Mutation of MarkFlying: the seed is revealed when betting closes.
MarkFlyingRevealed(n) ==
    round' = [round EXCEPT ![n].status = "flying", ![n].serverSeed = serverSeed]

\* Mutation of MarkFlying: every round that waits takes off.
MarkWaitingFlying(n) ==
    round' = [m \in RoundNumbers |-> IF round[m].status = "waiting"
                                     THEN [round[m] EXCEPT !.status = "flying"]
                                     ELSE round[m]]

\* round.update at take-off, and at the crash, which reveals the present seed.
MarkFlying(n) == round' = [round EXCEPT ![n].status = "flying"]

MarkCrashed(n) == round' = [round EXCEPT ![n].status = "crashed",
                                         ![n].serverSeed = serverSeed]

\* verifyRoundOutcome on what getFairnessProof publishes.
Verifies(row) == row.serverSeed = row.serverSeedHash

=============================================================================
