------------------------------- MODULE MCGame -------------------------------
(***************************************************************************)
(* Game on small instances.                                                 *)
(***************************************************************************)
EXTENDS Game, FiniteSets, TLC

Symmetry == Permutations(BetIds) \cup Permutations(Plays) \cup Permutations(Sweeps)

\* Bound: the seed is rotated MaxRounds + 1 times, by startWaiting and by
\* restarts together, so that a restart may cut any round short.
SeedBound == serverSeed <= MaxRounds + 2

\* Bound: any two calls race, a third one starts when one of them is over.
Pairwise == Cardinality({c \in Callers : play[c] # NoPlay}) <= 2

\* Bound: the last round crashes below the top.
LastRoundShort == currentRound = MaxRounds => crashPoint < TopLevel

\* Bound: a second bet is played out in the first round of the process, which
\* crashes at TopLevel - 1, with targets below the top.
TwoBets ==
    Cardinality({b \in BetIds : bet[b] # NoBet}) = 2 =>
        /\ Created = {1} /\ serverSeed = 2
        /\ crashPoint = TopLevel - 1
        /\ \A b \in BetIds : bet[b].autoCashout < TopLevel

=============================================================================
