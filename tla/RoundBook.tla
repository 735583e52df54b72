----------------------------- MODULE RoundBook -----------------------------
(***************************************************************************)
(* What a provably fair round promises, whatever the process that runs the  *)
(* game goes through: rounds are numbered one after the other, each commits *)
(* to a seed of its own before it takes off, only the latest one takes off  *)
(* and crashes, and only the crash publishes a seed, the one committed to.  *)
(***************************************************************************)
EXTENDS Integers

CONSTANT MaxRounds

VARIABLES
    stage,          \* per round: absent, waiting, flying, crashed
    commitment,     \* the seed its hash commits to, 0 before
    published       \* the seed that anyone may check, 0 before

bookVars == <<stage, commitment, published>>

Numbers == 1 .. MaxRounds

Blank == [n \in Numbers |-> 0]

Init ==
    /\ stage = [n \in Numbers |-> "absent"]
    /\ commitment = Blank
    /\ published = Blank

Latest(n) == \A m \in Numbers : stage[m] # "absent" <=> m <= n

\* The seed is one that no round before has committed to.
Open(n) ==
    /\ stage[n] = "absent" /\ Latest(n - 1)
    /\ stage' = [stage EXCEPT ![n] = "waiting"]
    /\ commitment'[n] \in Nat \ {0}
    /\ \A m \in Numbers : commitment[m] # commitment'[n]
    /\ commitment' = [commitment EXCEPT ![n] = commitment'[n]]
    /\ UNCHANGED published

TakeOff(n) ==
    /\ stage[n] = "waiting" /\ Latest(n)
    /\ stage' = [stage EXCEPT ![n] = "flying"]
    /\ UNCHANGED <<commitment, published>>

Crash(n) ==
    /\ stage[n] = "flying" /\ Latest(n)
    /\ stage' = [stage EXCEPT ![n] = "crashed"]
    /\ published' = [published EXCEPT ![n] = commitment[n]]
    /\ UNCHANGED commitment

\* Every step takes one round to its next stage.
Next ==
    /\ stage' # stage
    /\ \E n \in Numbers : Open(n) \/ TakeOff(n) \/ Crash(n)

Spec == Init /\ [][Next]_bookVars

=============================================================================
