----------------------------- MODULE GameEngine -----------------------------
(***************************************************************************)
(* GameEngineService: the one loop that opens a round, lets it fly, crashes *)
(* it and opens the next, with the auto-cashout sweep that every tick       *)
(* starts and nobody waits for.                                             *)
(*                                                                          *)
(* phase is the await or timer the loop stands at:                          *)
(*   idle       before startWaiting (start-up, or the 2 s pause)            *)
(*   creating   startWaiting at round.create                                *)
(*   countdown  the 1 s interval                                            *)
(*   launching  startFlying at round.update                                 *)
(*   ticking    the 66 ms interval                                          *)
(*   crashing   crash at round.update                                       *)
(*   listing    crash at bet.findMany                                       *)
(*   losing     crash in the loop over activeBets                           *)
(***************************************************************************)
EXTENDS Bets

VARIABLES
    phase,          \* see above
    currentRound,   \* number of currentRound, 0 before the first one
    crashPoint,     \* crash point of currentRound
    multiplier,     \* GameEngineService.multiplier, what socket cashouts pay
    activeBets,     \* the bets that crash still has to mark lost
    sweep           \* per sweep: NoSweep, or what checkAutoCashouts holds

loopVars == <<phase, currentRound, crashPoint, multiplier, activeBets>>

inMemory == <<currentRound, crashPoint, activeBets, sweep>>

engineVars == <<loopVars, sweep>>

NoSweep == [at |-> "idle"]

\* A sweep waits for its candidates (up to the multiplier of its tick), or
\* loops over those that are left, one cashout call at a time.
SweepStates == [at : {"find"}, round : RoundNumbers, upTo : Levels]
               \cup [at : {"loop"}, candidates : SUBSET BetIds]

EngineTypeOK ==
    /\ phase \in {"idle", "creating", "countdown", "launching", "ticking",
                  "crashing", "listing", "losing"}
    /\ currentRound \in 0 .. MaxRounds
    /\ crashPoint \in Levels
    /\ multiplier \in Levels
    /\ activeBets \subseteq BetIds
    /\ sweep \in [Sweeps -> SweepStates \cup {NoSweep}]

EngineInit ==
    /\ phase = "idle"
    /\ currentRound = 0
    /\ crashPoint = 1
    /\ multiplier = 1
    /\ activeBets = {}
    /\ sweep = [s \in Sweeps |-> NoSweep]

\* startWaiting up to its first await.
StartWaiting ==
    /\ phase = "idle"
    /\ Created # RoundNumbers               \* bound
    /\ RotateServerSeed
    /\ phase' = "creating"
    /\ UNCHANGED <<round, currentMultiplier, inMemory, multiplier>>

\* round.findFirst and round.create; nobody else creates rounds in between.
OpenRound ==
    /\ phase = "creating"
    /\ \E n \in RoundNumbers : CreateRound(n) /\ currentRound' = n
    /\ crashPoint' \in Levels
    /\ phase' = "countdown"
    /\ UNCHANGED <<serverSeed, currentMultiplier, multiplier, activeBets, sweep>>

\* Mutation of TakeOff: the multiplier starts at zero.
TakeOffAtZero ==
    /\ phase = "countdown"
    /\ phase' = "launching"
    /\ multiplier' = 0
    /\ UNCHANGED <<roundsVars, inMemory>>

\* The countdown reaches zero: startFlying up to its await.
TakeOff ==
    /\ phase = "countdown"
    /\ phase' = "launching"
    /\ multiplier' = 1
    /\ UNCHANGED <<roundsVars, inMemory>>

\* startFlying's round.update, then the tick interval.
Launch ==
    /\ phase = "launching"
    /\ MarkFlying(currentRound)
    /\ phase' = "ticking"
    /\ UNCHANGED <<serverSeed, currentMultiplier, inMemory, multiplier>>

\* One tick.  The clock runs since the round was opened, so that even the first
\* tick is above 1.00.  Bound: at most |Sweeps| sweeps are under way.
Tick ==
    /\ phase = "ticking"
    /\ \E m \in Levels, s \in Sweeps :
        /\ m >= multiplier /\ m > 1
        /\ sweep[s] = NoSweep
        /\ multiplier' = m
        /\ currentMultiplier' = m
        /\ sweep' = [sweep EXCEPT ![s] = [at |-> "find", round |-> currentRound, upTo |-> m]]
        /\ phase' = IF m >= crashPoint THEN "crashing" ELSE phase
    /\ UNCHANGED <<round, serverSeed, currentRound, crashPoint, activeBets>>

\* crash: the round is closed and its seed revealed before the bets are read.
RecordCrash ==
    /\ phase = "crashing"
    /\ MarkCrashed(currentRound)
    /\ phase' = "listing"
    /\ UNCHANGED <<serverSeed, currentMultiplier, inMemory, multiplier>>

\* Mutation of ActiveIn: the active bets of every round.
ActiveAnywhere(n) == {b \in BetIds : bet[b].status = "active"}

ActiveIn(n) == {b \in BetIds : bet[b].status = "active" /\ bet[b].round = n}

\* Mutation of ListActiveBets: bets with a target are left to the sweeps.
ListManualBets ==
    /\ phase = "listing"
    /\ activeBets' = {b \in ActiveIn(currentRound) : bet[b].autoCashout = NoAuto}
    /\ phase' = "losing"
    /\ UNCHANGED <<roundsVars, currentRound, crashPoint, multiplier, sweep>>

\* crash's bet.findMany.
ListActiveBets ==
    /\ phase = "listing"
    /\ activeBets' = ActiveIn(currentRound)
    /\ phase' = "losing"
    /\ UNCHANGED <<roundsVars, currentRound, crashPoint, multiplier, sweep>>

\* bet.update of one of them, whatever its status is by now.
MarkLost(b) ==
    /\ phase = "losing" /\ b \in activeBets
    /\ bet' = [bet EXCEPT ![b].status = "lost"]
    /\ activeBets' = activeBets \ {b}
    /\ UNCHANGED <<roundsVars, phase, currentRound, crashPoint, multiplier, sweep>>

\* Mutation of FinishRound: no pause is scheduled after a round without bets.
FinishPlayedRound ==
    /\ phase = "losing" /\ activeBets = {}
    /\ \E b \in BetIds : bet[b] # NoBet /\ bet[b].round = currentRound
    /\ phase' = "idle"
    /\ UNCHANGED <<roundsVars, inMemory, multiplier>>

\* The events, the leaderboard and the pause after the last of them.
FinishRound ==
    /\ phase = "losing" /\ activeBets = {}
    /\ phase' = "idle"
    /\ UNCHANGED <<roundsVars, inMemory, multiplier>>

\* Steps of the loop that leave the bets alone, and the one that does not.
LoopStep ==
    \/ StartWaiting
    \/ OpenRound
    \/ TakeOff
    \/ Launch
    \/ Tick
    \/ RecordCrash
    \/ ListActiveBets
    \/ FinishRound

-----------------------------------------------------------------------------
(* checkAutoCashouts *)

\* Mutation of FindCandidates: any bet with a target.
FindTargeted(s) ==
    /\ sweep[s].at = "find"
    /\ sweep' = [sweep EXCEPT ![s] =
           [at |-> "loop",
            candidates |-> {b \in ActiveIn(sweep[s].round) : bet[b].autoCashout # NoAuto}]]
    /\ UNCHANGED <<roundsVars, loopVars, betsVars>>

\* bet.findMany: active bets of the round whose target the tick had reached.
FindCandidates(s) ==
    /\ sweep[s].at = "find"
    /\ sweep' = [sweep EXCEPT ![s] =
           [at |-> "loop",
            candidates |-> {b \in ActiveIn(sweep[s].round) :
                                /\ bet[b].autoCashout # NoAuto
                                /\ bet[b].autoCashout <= sweep[s].upTo}]]
    /\ UNCHANGED <<roundsVars, loopVars, betsVars>>

\* The loop calls cashout at the multiplier of the moment, and comes back when
\* the call is over, however it ended.
CashOutNext(s) ==
    /\ sweep[s].at = "loop"
    /\ \E b \in sweep[s].candidates :
        /\ CallCashout(s, b, multiplier)
        /\ sweep' = [sweep EXCEPT ![s].candidates = @ \ {b}]
    /\ UNCHANGED <<roundsVars, loopVars, bet>>

EndSweep(s) ==
    /\ sweep[s].at = "loop" /\ sweep[s].candidates = {} /\ play[s] = NoPlay
    /\ sweep' = [sweep EXCEPT ![s] = NoSweep]
    /\ UNCHANGED <<roundsVars, loopVars, betsVars>>

SweepStep(s) == FindCandidates(s) \/ CashOutNext(s) \/ EndSweep(s)

=============================================================================
