----------------------------- MODULE Game_proofs -----------------------------
(***************************************************************************)
(* Proofs about Game, for any number of players, bets, calls, sweeps and    *)
(* rounds, and any levels and amounts.                                      *)
(***************************************************************************)
EXTENDS Game, TLAPS

\* The seed of the round that the loop is in is the one its hash commits to, and
\* the row has the status that the loop believes it has.
LoopInRound ==
    /\ phase \in {"countdown", "launching", "ticking", "crashing"} =>
           /\ currentRound \in RoundNumbers
           /\ round[currentRound].serverSeedHash = serverSeed
    /\ phase \in {"countdown", "launching"} => round[currentRound].status = "waiting"
    /\ phase \in {"ticking", "crashing"} => round[currentRound].status = "flying"
    /\ phase \in {"listing", "losing"} =>
           currentRound \in RoundNumbers /\ round[currentRound].status = "crashed"

Placed(b) == bet[b] # NoBet

\* What crash still has to mark lost are bets of its round.
LosingInRound ==
    phase = "losing" =>
        \A b \in activeBets : Placed(b) /\ bet[b].round = currentRound

\* A level that bets of round n may be paid at by a sweep: their round has
\* crashed, so that they are not, or it still flies at that level or above.
PayableAt(n, level) ==
    \/ round[n].status = "crashed"
    \/ n = currentRound /\ phase \in {"ticking", "crashing"} /\ level <= multiplier

\* A sweep looks for, and holds, bets whose target was reached in their round.
SweepsReachTargets ==
    \A s \in Sweeps :
        /\ sweep[s].at = "find" => PayableAt(sweep[s].round, sweep[s].upTo)
        /\ sweep[s].at = "loop" => \A b \in sweep[s].candidates :
               Placed(b) /\ PayableAt(bet[b].round, bet[b].autoCashout)

\* So does the cashout that a sweep has called, and once it has seen its round in
\* flight the multiplier is the target or more.
SweepCallsReachTargets ==
    \A s \in Sweeps :
        /\ play[s].at \in {"bet", "round"} =>
               \/ round[bet[play[s].bet].round].status = "crashed"
               \/ play[s].multiplier >= bet[play[s].bet].autoCashout
        /\ play[s].at \in {"winner", "payout"} =>
               play[s].multiplier >= bet[play[s].bet].autoCashout

\* A cashout is about a bet that exists.
CashoutsNameBets ==
    \A c \in Callers :
        play[c].at \in {"bet", "round", "winner", "payout"} => Placed(play[c].bet)

\* What a call has read of a balance covers its stake.
CallsFunded ==
    \A c \in Callers :
        /\ play[c].at \in {"existing", "stake"} => play[c].seen >= play[c].amount
        /\ play[c].at = "payout" => play[c].seen >= 0

\* The inductive invariant.
IInv ==
    /\ TypeOK
    /\ SeedRevealedAfterCrash
    /\ LoopInRound
    /\ LostOnlyInCrashedRound
    /\ LosingInRound
    /\ SweepsReachTargets
    /\ SweepCallsReachTargets
    /\ CashoutsNameBets
    /\ NoOverdraft
    /\ CallsFunded

-----------------------------------------------------------------------------
(* Shapes *)

\* A bet that is placed is a row, and no row is NoBet.
LEMMA BetShape ==
    ASSUME BetsTypeOK, NEW b \in BetIds
    PROVE  /\ Placed(b) => bet[b] \in BetRows
           /\ Placed(b) <=> bet[b].status # "absent"
<1>1. bet[b] \in BetRows \/ bet[b] = NoBet
    BY DEF BetsTypeOK
<1>2. \A row \in BetRows : row.status # "absent"
    BY DEF BetRows
<1>3. NoBet.status = "absent"
    BY DEF NoBet
<1>4. QED
    BY <1>1, <1>2, <1>3 DEF Placed

LEMMA NoBetIsNotLost == NoBet.status = "absent"
BY DEF NoBet

\* The same of rounds.
LEMMA RoundShape ==
    ASSUME RoundsTypeOK, NEW n \in RoundNumbers
    PROVE  /\ round[n] # NoRound => round[n] \in RoundRows
           /\ round[n] # NoRound <=> round[n].status # "absent"
<1>1. round[n] \in RoundRows \/ round[n] = NoRound
    BY DEF RoundsTypeOK
<1>2. \A row \in RoundRows : row.status # "absent"
    BY DEF RoundRows
<1>3. NoRound.status = "absent"
    BY DEF NoRound
<1>4. QED
    BY <1>1, <1>2, <1>3

\* What a call holds at each await.
LEMMA PlayShape ==
    ASSUME BetsTypeOK, NEW c \in Callers
    PROVE  /\ play[c].at \in {"player", "existing", "stake"} => play[c] \in Placing
           /\ play[c].at \in {"bet", "round", "winner", "payout"} => play[c] \in Cashing
           /\ play[c] = NoPlay <=> play[c].at = "idle"
BY DEF BetsTypeOK, Placing, Cashing, NoPlay

LEMMA SweepShape ==
    ASSUME EngineTypeOK, NEW s \in Sweeps
    PROVE  /\ sweep[s].at = "find" =>
                sweep[s] \in [at : {"find"}, round : RoundNumbers, upTo : Levels]
           /\ sweep[s].at = "loop" =>
                sweep[s] \in [at : {"loop"}, candidates : SUBSET BetIds]
BY DEF EngineTypeOK, SweepStates, NoSweep

\* One call moves, the others do not.
LEMMA EndMoves ==
    ASSUME BetsTypeOK, NEW c \in Callers, End(c)
    PROVE  play'[c] = NoPlay /\ \A d \in Callers : d # c => play'[d] = play[d]
BY DEF End, BetsTypeOK

\* A call moves to another await and keeps what it holds.
LEMMA AdvanceMoves ==
    ASSUME BetsTypeOK, NEW c \in Callers, NEW at, Advance(c, at)
    PROVE  /\ play'[c] = [play[c] EXCEPT !.at = at]
           /\ \A d \in Callers : d # c => play'[d] = play[d]
BY DEF Advance, BetsTypeOK

\* The same of one component of the record.
LEMMA PlacingAdvances ==
    ASSUME BetsTypeOK, NEW c \in Callers, play[c] \in Placing, NEW at, Advance(c, at)
    PROVE  /\ play'[c].at = at /\ play'[c].user = play[c].user
           /\ play'[c].round = play[c].round /\ play'[c].amount = play[c].amount
           /\ play'[c].seen = play[c].seen
<1>1. play'[c] = [play[c] EXCEPT !.at = at]
    BY AdvanceMoves
<1>2. QED
    BY <1>1 DEF Placing

LEMMA CashingAdvances ==
    ASSUME BetsTypeOK, NEW c \in Callers, play[c] \in Cashing, NEW at, Advance(c, at)
    PROVE  /\ play'[c].at = at /\ play'[c].bet = play[c].bet
           /\ play'[c].multiplier = play[c].multiplier /\ play'[c].seen = play[c].seen
<1>1. play'[c] = [play[c] EXCEPT !.at = at]
    BY AdvanceMoves
<1>2. QED
    BY <1>1 DEF Cashing

\* The fields of a call that has read a balance.
LEMMA SeenFields ==
    ASSUME NEW at, NEW v
    PROVE  /\ \A r \in Placing :
                LET q == [r EXCEPT !.at = at, !.seen = v]
                IN  /\ q.at = at /\ q.seen = v
                    /\ q.user = r.user /\ q.round = r.round /\ q.amount = r.amount
           /\ \A r \in Cashing :
                LET q == [r EXCEPT !.at = at, !.seen = v]
                IN  q.at = at /\ q.seen = v /\ q.bet = r.bet /\ q.multiplier = r.multiplier
BY DEF Placing, Cashing

\* What a step of placeBet leaves a call with.
LEMMA PlaceMoves ==
    ASSUME BetsTypeOK, NEW c \in Callers, PlaceStep(c)
    PROVE  \/ play'[c] = NoPlay
           \/ play'[c].at = "player"
           \/ /\ play[c] \in Placing /\ play[c].at = "player" /\ play'[c].at = "existing"
              /\ play'[c].user = play[c].user /\ play'[c].round = play[c].round
              /\ play'[c].amount = play[c].amount
              /\ play'[c].seen = balance[play[c].user]
              /\ ~(balance[play[c].user] < play[c].amount)
           \/ /\ play[c] \in Placing /\ play[c].at = "existing" /\ play'[c].at = "stake"
              /\ play'[c].user = play[c].user /\ play'[c].round = play[c].round
              /\ play'[c].amount = play[c].amount /\ play'[c].seen = play[c].seen
              /\ BetsOf(play[c].user, play[c].round) = {}
<1>1. CASE ReadRound(c)
    BY <1>1 DEF ReadRound, BetsTypeOK
<1>2. CASE End(c)
    BY <1>2, EndMoves
<1>3. CASE ReadPlayer(c) /\ ~End(c)
  <2>1. play[c] \in Placing /\ play[c].at = "player"
      BY <1>3, PlayShape DEF ReadPlayer
  <2>2. /\ play' = [play EXCEPT ![c].at = "existing", ![c].seen = balance[play[c].user]]
        /\ ~(balance[play[c].user] < play[c].amount)
      BY <1>3 DEF ReadPlayer
  <2>3. play'[c] = [play[c] EXCEPT !.at = "existing", !.seen = balance[play[c].user]]
      BY <2>2 DEF BetsTypeOK
  <2>4. /\ play'[c].at = "existing" /\ play'[c].seen = balance[play[c].user]
        /\ play'[c].user = play[c].user /\ play'[c].round = play[c].round
        /\ play'[c].amount = play[c].amount
      BY <2>1, <2>3, SeenFields
  <2>5. QED
      BY <2>1, <2>2, <2>4
<1>4. CASE FindExisting(c) /\ ~End(c)
  <2>1. play[c] \in Placing /\ play[c].at = "existing"
      BY <1>4, PlayShape DEF FindExisting
  <2>2. Advance(c, "stake") /\ BetsOf(play[c].user, play[c].round) = {}
      BY <1>4 DEF FindExisting
  <2>3. QED
      BY <2>1, <2>2, PlacingAdvances
<1>5. QED
    BY <1>1, <1>2, <1>3, <1>4 DEF PlaceStep, StakeBet

\* What a step of cashout leaves a call with.
LEMMA CashoutMoves ==
    ASSUME BetsTypeOK, NEW c \in Callers, CashoutStep(c)
    PROVE  \/ play'[c] = NoPlay
           \/ /\ play[c] \in Cashing
              /\ play'[c].bet = play[c].bet /\ play'[c].multiplier = play[c].multiplier
              /\ \/ play[c].at = "bet" /\ play'[c].at = "round"
                 \/ /\ play[c].at = "round" /\ play'[c].at = "winner"
                    /\ round[bet[play[c].bet].round].status = "flying"
                 \/ /\ play[c].at = "winner" /\ play'[c].at = "payout"
                    /\ play'[c].seen = balance[bet[play[c].bet].user]
<1>1. CASE End(c)
    BY <1>1, EndMoves
<1>2. CASE ReadBet(c) /\ ~End(c)
  <2>1. play[c] \in Cashing /\ play[c].at = "bet" /\ Advance(c, "round")
      BY <1>2, PlayShape DEF ReadBet
  <2>2. QED
      BY <2>1, CashingAdvances
<1>3. CASE ReadBetRound(c) /\ ~End(c)
  <2>1. /\ play[c] \in Cashing /\ play[c].at = "round" /\ Advance(c, "winner")
        /\ round[bet[play[c].bet].round].status = "flying"
      BY <1>3, PlayShape DEF ReadBetRound
  <2>2. QED
      BY <2>1, CashingAdvances
<1>4. CASE ReadWinner(c) /\ ~End(c)
  <2> DEFINE u == bet[play[c].bet].user
  <2>1. play[c] \in Cashing /\ play[c].at = "winner"
      BY <1>4, PlayShape DEF ReadWinner
  <2>2. play' = [play EXCEPT ![c].at = "payout", ![c].seen = balance[u]]
      BY <1>4 DEF ReadWinner
  <2>3. play'[c] = [play[c] EXCEPT !.at = "payout", !.seen = balance[u]]
      BY <2>2 DEF BetsTypeOK
  <2>4. QED
      BY <2>1, <2>3, SeenFields
<1>5. QED
    BY <1>1, <1>2, <1>3, <1>4 DEF CashoutStep, PayOut

-----------------------------------------------------------------------------
(* Type correctness *)

\* Post keeps the columns' types.
LEMMA PostTyped ==
    ASSUME StoreTypeOK, NEW u \in Users, NEW amount \in Int, NEW b,
           Post(u, amount, b), UNCHANGED accountFrozen
    PROVE  StoreTypeOK'
<1>1. /\ b \in Decimals /\ balance' = [balance EXCEPT ![u] = b]
      /\ ledger' = [ledger EXCEPT ![u] = ledger[u] + amount] /\ tx' = tx
    BY DEF Post, SetBalance
<1>2. ledger[u] + amount \in Int
    BY DEF StoreTypeOK
<1>3. QED
    BY <1>1, <1>2 DEF StoreTypeOK

\* Amounts and levels are numbers.
LEMMA AmountsAndLevels ==
    /\ \A a \in Amounts : a \in Nat /\ a > 0
    /\ \A m \in Levels : m \in Nat /\ m >= 1
    /\ 1 \in Levels
BY StoreAssumption, RoundsAssumption DEF StoreAssumption, RoundsAssumption, Levels

\* So are balances.
LEMMA DecimalsAreInts == \A d \in Decimals : d \in Int
BY StoreAssumption DEF StoreAssumption, Decimals

\* A bet row that is paid or lost is still a row.
LEMMA WonTyped ==
    ASSUME NEW row \in BetRows, NEW m \in Levels
    PROVE  /\ [row EXCEPT !.status = "won", !.cashoutMultiplier = m] \in BetRows
           /\ [row EXCEPT !.status = "lost"] \in BetRows
BY DEF BetRows

LEMMA PlaceStepTyped ==
    ASSUME BetsTypeOK, StoreTypeOK, NEW c \in Callers, PlaceStep(c)
    PROVE  BetsTypeOK' /\ StoreTypeOK'
<1>1. CASE ReadRound(c)
  <2>1. PICK u \in Users, n \in RoundNumbers, a \in Amounts, auto \in (Levels \ {1}) \cup {NoAuto} :
           play' = [play EXCEPT ![c] = [at |-> "player", user |-> u, round |-> n,
                                        amount |-> a, autoCashout |-> auto, seen |-> 0]]
      BY <1>1 DEF ReadRound
  <2>2. 0 \in Decimals
      BY StoreAssumption DEF StoreAssumption, Decimals
  <2>3. [at |-> "player", user |-> u, round |-> n, amount |-> a, autoCashout |-> auto,
         seen |-> 0] \in Placing
      BY <2>2 DEF Placing
  <2>4. play' \in [Callers -> Placing \cup Cashing \cup {NoPlay}]
      BY <2>1, <2>3 DEF BetsTypeOK
  <2>5. UNCHANGED <<bet, storeVars>>
      BY <1>1 DEF ReadRound
  <2>6. QED
      BY <2>4, <2>5 DEF BetsTypeOK, StoreTypeOK, storeVars
<1>2. CASE ReadPlayer(c)
  <2> DEFINE u == play[c].user
  <2>1. play[c] \in Placing /\ u \in Users
      BY <1>2, PlayShape DEF ReadPlayer, Placing
  <2>2. balance[u] \in Decimals
      BY <2>1 DEF StoreTypeOK
  <2>3. [play[c] EXCEPT !.at = "existing", !.seen = balance[u]] \in Placing
      BY <2>1, <2>2 DEF Placing
  <2>4. End(c) \/ play' = [play EXCEPT ![c].at = "existing", ![c].seen = balance[u]]
      BY <1>2 DEF ReadPlayer
  <2>5. play' \in [Callers -> Placing \cup Cashing \cup {NoPlay}]
      BY <2>3, <2>4 DEF BetsTypeOK, End
  <2>6. UNCHANGED <<bet, storeVars>>
      BY <1>2 DEF ReadPlayer
  <2>7. QED
      BY <2>5, <2>6 DEF BetsTypeOK, StoreTypeOK, storeVars
<1>3. CASE FindExisting(c)
  <2>1. play[c] \in Placing
      BY <1>3, PlayShape DEF FindExisting
  <2>2. [play[c] EXCEPT !.at = "stake"] \in Placing
      BY <2>1 DEF Placing
  <2>3. End(c) \/ Advance(c, "stake")
      BY <1>3 DEF FindExisting
  <2>4. play' \in [Callers -> Placing \cup Cashing \cup {NoPlay}]
      BY <2>2, <2>3 DEF BetsTypeOK, End, Advance
  <2>5. UNCHANGED <<bet, storeVars>>
      BY <1>3 DEF FindExisting
  <2>6. QED
      BY <2>4, <2>5 DEF BetsTypeOK, StoreTypeOK, storeVars
<1>4. CASE StakeBet(c)
  <2> DEFINE r == play[c]
             row == [user |-> r.user, round |-> r.round, amount |-> r.amount,
                     autoCashout |-> r.autoCashout, cashoutMultiplier |-> NotCashed,
                     status |-> "active"]
  <2>1. r \in Placing
      BY <1>4, PlayShape DEF StakeBet
  <2>2. row \in BetRows
      BY <2>1 DEF Placing, BetRows
  <2>3. PICK b \in BetIds : bet' = [bet EXCEPT ![b] = row]
      BY <1>4 DEF StakeBet
  <2>4. bet' \in [BetIds -> BetRows \cup {NoBet}]
      BY <2>2, <2>3 DEF BetsTypeOK
  <2>5. play' \in [Callers -> Placing \cup Cashing \cup {NoPlay}]
      BY <1>4 DEF BetsTypeOK, StakeBet, End
  <2>6. r.user \in Users /\ -r.amount \in Int
      BY <2>1, AmountsAndLevels DEF Placing
  <2>7. StoreTypeOK'
      BY <1>4, <2>6, PostTyped DEF StakeBet
  <2>8. QED
      BY <2>4, <2>5, <2>7 DEF BetsTypeOK
<1>5. QED
    BY <1>1, <1>2, <1>3, <1>4 DEF PlaceStep

LEMMA CashoutStepTyped ==
    ASSUME BetsTypeOK, StoreTypeOK, CashoutsNameBets, NEW c \in Callers, CashoutStep(c)
    PROVE  BetsTypeOK' /\ StoreTypeOK'
<1> DEFINE r == play[c]
<1>1. /\ r \in Cashing /\ r.bet \in BetIds /\ bet[r.bet] \in BetRows
      /\ bet[r.bet].user \in Users /\ r.multiplier \in Levels
  <2>1. r.at \in {"bet", "round", "winner", "payout"}
      BY DEF CashoutStep, ReadBet, ReadBetRound, ReadWinner, PayOut
  <2>2. r \in Cashing
      BY <2>1, PlayShape
  <2>3. r.bet \in BetIds /\ r.multiplier \in Levels
      BY <2>2 DEF Cashing
  <2>4. bet[r.bet] \in BetRows
      BY <2>1, <2>3, BetShape DEF CashoutsNameBets
  <2>5. QED
      BY <2>2, <2>3, <2>4 DEF BetRows
<1>2. ASSUME NEW at \in {"round", "winner"}, End(c) \/ Advance(c, at), UNCHANGED <<bet, storeVars>>
      PROVE  BetsTypeOK' /\ StoreTypeOK'
  <2>1. [r EXCEPT !.at = at] \in Cashing
      BY <1>1 DEF Cashing
  <2>2. play' \in [Callers -> Placing \cup Cashing \cup {NoPlay}]
      BY <1>2, <2>1 DEF BetsTypeOK, End, Advance
  <2>3. QED
      BY <1>2, <2>2 DEF BetsTypeOK, StoreTypeOK, storeVars
<1>3. CASE ReadBet(c)
    BY <1>2, <1>3 DEF ReadBet
<1>4. CASE ReadBetRound(c)
    BY <1>2, <1>4 DEF ReadBetRound
<1>5. CASE ReadWinner(c)
  <2> DEFINE u == bet[r.bet].user
  <2>1. balance[u] \in Decimals
      BY <1>1 DEF StoreTypeOK
  <2>2. [r EXCEPT !.at = "payout", !.seen = balance[u]] \in Cashing
      BY <1>1, <2>1 DEF Cashing
  <2>3. End(c) \/ play' = [play EXCEPT ![c].at = "payout", ![c].seen = balance[u]]
      BY <1>5 DEF ReadWinner
  <2>4. play' \in [Callers -> Placing \cup Cashing \cup {NoPlay}]
      BY <2>2, <2>3 DEF BetsTypeOK, End
  <2>5. UNCHANGED <<bet, storeVars>>
      BY <1>5 DEF ReadWinner
  <2>6. QED
      BY <2>4, <2>5 DEF BetsTypeOK, StoreTypeOK, storeVars
<1>6. CASE PayOut(c)
  <2>1. bet' = [bet EXCEPT ![r.bet] = [bet[r.bet] EXCEPT !.status = "won",
                                           !.cashoutMultiplier = r.multiplier]]
      BY <1>1, <1>6 DEF PayOut, BetsTypeOK
  <2>2. bet' \in [BetIds -> BetRows \cup {NoBet}]
      BY <1>1, <2>1, WonTyped DEF BetsTypeOK
  <2>3. play' \in [Callers -> Placing \cup Cashing \cup {NoPlay}]
      BY <1>6 DEF BetsTypeOK, PayOut, End
  <2>4. bet[r.bet].amount * r.multiplier \in Int
      BY <1>1, AmountsAndLevels DEF BetRows
  <2>5. StoreTypeOK'
      BY <1>1, <1>6, <2>4, PostTyped DEF PayOut
  <2>6. QED
      BY <2>2, <2>3, <2>5 DEF BetsTypeOK
<1>7. QED
    BY <1>3, <1>4, <1>5, <1>6 DEF CashoutStep

\* A call for a cashout at a level.
LEMMA CallCashoutTyped ==
    ASSUME BetsTypeOK, NEW c \in Callers, NEW b \in BetIds, NEW m \in Levels,
           CallCashout(c, b, m), UNCHANGED bet
    PROVE  BetsTypeOK'
<1>1. 0 \in Decimals
    BY StoreAssumption DEF StoreAssumption, Decimals
<1>2. [at |-> "bet", bet |-> b, multiplier |-> m, seen |-> 0] \in Cashing
    BY <1>1 DEF Cashing
<1>3. QED
    BY <1>2 DEF CallCashout, BetsTypeOK

\* The round that the loop is in is a row.
LEMMA CurrentRoundIsRow ==
    ASSUME RoundsTypeOK, LoopInRound, phase \in {"launching", "crashing"}
    PROVE  currentRound \in RoundNumbers /\ round[currentRound] \in RoundRows
<1>1. currentRound \in RoundNumbers /\ round[currentRound].status \in {"waiting", "flying"}
    BY DEF LoopInRound
<1>2. QED
    BY <1>1, RoundShape

\* A level that a tick leads to.
LEMMA TickWrites ==
    ASSUME EngineTypeOK, Tick
    PROVE  \E m \in Levels, s \in Sweeps :
             /\ phase = "ticking" /\ m >= multiplier /\ m > 1 /\ sweep[s] = NoSweep
             /\ multiplier' = m /\ currentMultiplier' = m
             /\ sweep'[s] = [at |-> "find", round |-> currentRound, upTo |-> m]
             /\ \A t \in Sweeps : t # s => sweep'[t] = sweep[t]
             /\ phase' \in {"ticking", "crashing"}
             /\ UNCHANGED <<round, serverSeed, currentRound, crashPoint, activeBets>>
BY DEF Tick, EngineTypeOK

LEMMA LoopStepTyped ==
    ASSUME RoundsTypeOK, EngineTypeOK, LoopInRound, LoopStep
    PROVE  RoundsTypeOK' /\ EngineTypeOK'
<1>1. CASE StartWaiting
  <2>1. serverSeed + 1 \in Nat \ {NotRevealed}
      BY DEF RoundsTypeOK, NotRevealed
  <2>2. QED
      BY <1>1, <2>1 DEF StartWaiting, RotateServerSeed, inMemory, RoundsTypeOK, EngineTypeOK
<1>2. CASE OpenRound
  <2>1. PICK n \in RoundNumbers : CreateRound(n) /\ currentRound' = n
      BY <1>2 DEF OpenRound
  <2>2. [status |-> "waiting", serverSeedHash |-> serverSeed, serverSeed |-> NotRevealed]
           \in RoundRows
      BY DEF RoundRows, RoundsTypeOK, NotRevealed
  <2>3. round' \in [RoundNumbers -> RoundRows \cup {NoRound}]
      BY <2>1, <2>2 DEF CreateRound, RoundsTypeOK
  <2>4. currentRound' \in 0 .. MaxRounds
      BY <2>1 DEF RoundNumbers
  <2>5. QED
      BY <1>2, <2>3, <2>4 DEF OpenRound, RoundsTypeOK, EngineTypeOK
<1>3. CASE TakeOff
    BY <1>3, AmountsAndLevels DEF TakeOff, roundsVars, inMemory, RoundsTypeOK, EngineTypeOK
<1>4. CASE Launch
  <2>1. round[currentRound] \in RoundRows /\ currentRound \in RoundNumbers
      BY <1>4, CurrentRoundIsRow DEF Launch
  <2>2. [round[currentRound] EXCEPT !.status = "flying"] \in RoundRows
      BY <2>1 DEF RoundRows
  <2>3. round' \in [RoundNumbers -> RoundRows \cup {NoRound}]
      BY <1>4, <2>1, <2>2 DEF Launch, MarkFlying, RoundsTypeOK
  <2>4. QED
      BY <1>4, <2>3 DEF Launch, inMemory, RoundsTypeOK, EngineTypeOK
<1>5. CASE Tick
  <2>1. PICK m \in Levels, s \in Sweeps :
           /\ multiplier' = m /\ currentMultiplier' = m
           /\ sweep' = [sweep EXCEPT ![s] =
                  [at |-> "find", round |-> currentRound, upTo |-> m]]
      BY <1>5 DEF Tick
  <2>2. currentRound \in RoundNumbers
      BY <1>5 DEF Tick, LoopInRound
  <2>3. [at |-> "find", round |-> currentRound, upTo |-> m] \in SweepStates
      BY <2>2 DEF SweepStates
  <2>4. sweep' \in [Sweeps -> SweepStates \cup {NoSweep}]
      BY <2>1, <2>3 DEF EngineTypeOK
  <2>5. phase' \in {"ticking", "crashing"}
      BY <1>5 DEF Tick
  <2>6. QED
      BY <1>5, <2>1, <2>4, <2>5 DEF Tick, RoundsTypeOK, EngineTypeOK
<1>6. CASE RecordCrash
  <2>1. round[currentRound] \in RoundRows /\ currentRound \in RoundNumbers
      BY <1>6, CurrentRoundIsRow DEF RecordCrash
  <2>2. [round[currentRound] EXCEPT !.status = "crashed", !.serverSeed = serverSeed]
           \in RoundRows
      BY <2>1 DEF RoundRows, RoundsTypeOK
  <2>3. round' \in [RoundNumbers -> RoundRows \cup {NoRound}]
      BY <1>6, <2>1, <2>2 DEF RecordCrash, MarkCrashed, RoundsTypeOK
  <2>4. QED
      BY <1>6, <2>3 DEF RecordCrash, inMemory, RoundsTypeOK, EngineTypeOK
<1>7. CASE ListActiveBets
    BY <1>7 DEF ListActiveBets, ActiveIn, roundsVars, RoundsTypeOK, EngineTypeOK
<1>8. CASE FinishRound
    BY <1>8 DEF FinishRound, roundsVars, inMemory, RoundsTypeOK, EngineTypeOK
<1>9. QED
    BY <1>1, <1>2, <1>3, <1>4, <1>5, <1>6, <1>7, <1>8 DEF LoopStep

LEMMA SweepStepTyped ==
    ASSUME RoundsTypeOK, EngineTypeOK, BetsTypeOK, NEW s \in Sweeps, SweepStep(s)
    PROVE  RoundsTypeOK' /\ EngineTypeOK' /\ BetsTypeOK'
<1>1. CASE FindCandidates(s)
  <2> DEFINE found == {b \in ActiveIn(sweep[s].round) :
                          /\ bet[b].autoCashout # NoAuto
                          /\ bet[b].autoCashout <= sweep[s].upTo}
  <2>1. [at |-> "loop", candidates |-> found] \in SweepStates
      BY DEF SweepStates, ActiveIn
  <2>2. sweep' = [sweep EXCEPT ![s] = [at |-> "loop", candidates |-> found]]
      BY <1>1 DEF FindCandidates
  <2>3. sweep' \in [Sweeps -> SweepStates \cup {NoSweep}]
      BY <2>1, <2>2 DEF EngineTypeOK
  <2>4. UNCHANGED <<roundsVars, loopVars, betsVars>>
      BY <1>1 DEF FindCandidates
  <2>5. QED
      BY <2>3, <2>4 DEF roundsVars, loopVars, betsVars, RoundsTypeOK, EngineTypeOK, BetsTypeOK
<1>2. CASE CashOutNext(s)
  <2>1. PICK b \in sweep[s].candidates :
           /\ CallCashout(s, b, multiplier)
           /\ sweep' = [sweep EXCEPT ![s].candidates = sweep[s].candidates \ {b}]
      BY <1>2 DEF CashOutNext
  <2>2. sweep[s] \in [at : {"loop"}, candidates : SUBSET BetIds] /\ b \in BetIds
      BY <1>2, <2>1, SweepShape DEF CashOutNext
  <2>3. [sweep[s] EXCEPT !.candidates = sweep[s].candidates \ {b}] \in SweepStates
      BY <2>2 DEF SweepStates
  <2>4. sweep' \in [Sweeps -> SweepStates \cup {NoSweep}]
      BY <2>1, <2>3 DEF EngineTypeOK
  <2>5. UNCHANGED <<roundsVars, loopVars, bet>>
      BY <1>2 DEF CashOutNext
  <2>6. multiplier \in Levels /\ s \in Callers
      BY DEF EngineTypeOK, Callers
  <2>7. BetsTypeOK'
      BY <2>1, <2>2, <2>5, <2>6, CallCashoutTyped
  <2>8. QED
      BY <2>4, <2>5, <2>7 DEF roundsVars, loopVars, RoundsTypeOK, EngineTypeOK
<1>3. CASE EndSweep(s)
    BY <1>3 DEF EndSweep, roundsVars, loopVars, betsVars, RoundsTypeOK, EngineTypeOK, BetsTypeOK
<1>4. QED
    BY <1>1, <1>2, <1>3 DEF SweepStep

\* MarkLost keeps the types.
LEMMA MarkLostTyped ==
    ASSUME EngineTypeOK, BetsTypeOK, LosingInRound, NEW b \in BetIds, MarkLost(b), UNCHANGED play
    PROVE  EngineTypeOK' /\ BetsTypeOK'
<1>1. bet[b] \in BetRows
    BY BetShape DEF LosingInRound, MarkLost
<1>2. [bet[b] EXCEPT !.status = "lost"] \in BetRows
    BY <1>1 DEF BetRows
<1>3. bet' \in [BetIds -> BetRows \cup {NoBet}]
    BY <1>2 DEF MarkLost, BetsTypeOK
<1>4. QED
    BY <1>3 DEF MarkLost, BetsTypeOK, EngineTypeOK

LEMMA NextTyped ==
    ASSUME IInv, [Next]_vars
    PROVE  TypeOK'
<1>1. StoreTypeOK /\ RoundsTypeOK /\ BetsTypeOK /\ EngineTypeOK
    BY DEF IInv, TypeOK
<1>2. CASE EngineNext
  <2>1. RoundsTypeOK' /\ EngineTypeOK'
      BY <1>1, <1>2, LoopStepTyped DEF EngineNext, IInv
  <2>2. QED
      BY <1>1, <1>2, <2>1 DEF EngineNext, betsVars, storeVars, TypeOK, BetsTypeOK, StoreTypeOK
<1>3. CASE LoseNext
  <2>1. PICK b \in BetIds : MarkLost(b) /\ UNCHANGED <<play, storeVars>>
      BY <1>3 DEF LoseNext
  <2>2. EngineTypeOK' /\ BetsTypeOK'
      BY <1>1, <2>1, MarkLostTyped DEF IInv
  <2>3. QED
      BY <1>1, <2>1, <2>2 DEF MarkLost, roundsVars, storeVars, TypeOK, RoundsTypeOK, StoreTypeOK
<1>4. ASSUME NEW s \in Sweeps, SweepNext(s) PROVE TypeOK'
  <2>1. s \in Callers
      BY DEF Callers
  <2>2. CASE SweepStep(s) /\ UNCHANGED storeVars
      BY <1>1, <2>2, SweepStepTyped DEF TypeOK, StoreTypeOK, storeVars
  <2>3. CASE CashoutStep(s) /\ UNCHANGED <<roundsVars, engineVars>>
      BY <1>1, <2>1, <2>3, CashoutStepTyped DEF IInv, TypeOK, roundsVars, engineVars, loopVars,
         RoundsTypeOK, EngineTypeOK
  <2>4. QED
      BY <1>4, <2>2, <2>3 DEF SweepNext
<1>5. ASSUME NEW c \in Plays, PlayNext(c) PROVE TypeOK'
  <2>1. c \in Callers /\ RoundsTypeOK' /\ EngineTypeOK'
      BY <1>1, <1>5 DEF Callers, PlayNext, roundsVars, engineVars, loopVars, RoundsTypeOK,
         EngineTypeOK
  <2>2. CASE PlaceStep(c)
      BY <1>1, <2>1, <2>2, PlaceStepTyped DEF TypeOK
  <2>3. CASE CashoutStep(c)
      BY <1>1, <2>1, <2>3, CashoutStepTyped DEF TypeOK, IInv
  <2>4. CASE (SocketCashout(c) \/ RestCashout(c)) /\ UNCHANGED <<bet, storeVars>>
    <3>1. multiplier \in Levels /\ currentMultiplier \in Levels
        BY <1>1 DEF EngineTypeOK, RoundsTypeOK
    <3>2. BetsTypeOK'
        BY <1>1, <2>1, <2>4, <3>1, CallCashoutTyped DEF SocketCashout, RestCashout
    <3>3. QED
        BY <1>1, <2>1, <2>4, <3>2 DEF TypeOK, StoreTypeOK, storeVars
  <2>5. QED
      BY <1>5, <2>2, <2>3, <2>4 DEF PlayNext
<1>6. ASSUME NEW c \in Callers, AbortNext(c) PROVE TypeOK'
    BY <1>1, <1>6 DEF AbortNext, AbortPlay, End, roundsVars, engineVars, loopVars, storeVars,
       TypeOK, StoreTypeOK, RoundsTypeOK, BetsTypeOK, EngineTypeOK
<1>7. CASE Restart
  <2>1. serverSeed + 1 \in Nat \ {NotRevealed}
      BY <1>1 DEF RoundsTypeOK, NotRevealed
  <2>2. 0 \in 0 .. MaxRounds
      BY RoundsAssumption DEF RoundsAssumption
  <2>3. QED
      BY <1>1, <1>7, <2>1, <2>2, AmountsAndLevels DEF Restart, storeVars,
         TypeOK, StoreTypeOK, RoundsTypeOK, BetsTypeOK, EngineTypeOK
<1>8. CASE UNCHANGED vars
    BY <1>1, <1>8 DEF vars, storeVars, roundsVars, betsVars, engineVars, loopVars,
       TypeOK, StoreTypeOK, RoundsTypeOK, BetsTypeOK, EngineTypeOK
<1>9. QED
    BY <1>2, <1>3, <1>4, <1>5, <1>6, <1>7, <1>8 DEF Next, Running

-----------------------------------------------------------------------------
(* What a step leaves of rounds and bets *)

\* What becomes of the round that a step writes.
LEMMA RoundWrites ==
    ASSUME RoundsTypeOK, LoopInRound, LoopStep, NEW n \in RoundNumbers
    PROVE  \/ round'[n] = round[n]
           \/ /\ phase = "creating" /\ phase' = "countdown" /\ currentRound' = n
              /\ round[n] = NoRound /\ serverSeed' = serverSeed
              /\ round'[n] = [status |-> "waiting", serverSeedHash |-> serverSeed,
                              serverSeed |-> NotRevealed]
           \/ /\ phase = "launching" /\ phase' = "ticking" /\ n = currentRound
              /\ currentRound' = currentRound
              /\ round[n].status = "waiting" /\ serverSeed' = serverSeed
              /\ round'[n] = [round[n] EXCEPT !.status = "flying"]
           \/ /\ phase = "crashing" /\ phase' = "listing" /\ n = currentRound
              /\ currentRound' = currentRound
              /\ round[n].status = "flying" /\ serverSeed' = serverSeed
              /\ round[n].serverSeedHash = serverSeed
              /\ round'[n] = [round[n] EXCEPT !.status = "crashed", !.serverSeed = serverSeed]
<1>1. CASE OpenRound
  <2>1. PICK m \in RoundNumbers : CreateRound(m) /\ currentRound' = m
      BY <1>1 DEF OpenRound
  <2>2. round[m] = NoRound
    <3>1. m \notin 1 .. m - 1
        BY DEF RoundNumbers
    <3>2. QED
        BY <2>1, <3>1 DEF CreateRound, Created
  <2>3. QED
      BY <1>1, <2>1, <2>2 DEF OpenRound, CreateRound, RoundsTypeOK
<1>2. CASE Launch
    BY <1>2 DEF Launch, MarkFlying, RoundsTypeOK, LoopInRound, inMemory
<1>3. CASE RecordCrash
    BY <1>3 DEF RecordCrash, MarkCrashed, RoundsTypeOK, LoopInRound, inMemory
<1>4. CASE UNCHANGED round
    BY <1>4
<1>5. QED
    BY <1>1, <1>2, <1>3, <1>4 DEF LoopStep, StartWaiting, TakeOff, Tick, ListActiveBets,
       FinishRound, roundsVars

\* Only the loop writes rounds.
LEMMA OnlyLoopWritesRounds ==
    ASSUME [Next]_vars
    PROVE  EngineNext \/ Restart \/ UNCHANGED <<round, serverSeed>>
BY DEF Next, Running, LoseNext, MarkLost, SweepNext, SweepStep, FindCandidates, CashOutNext,
   EndSweep, PlayNext, AbortNext, vars, roundsVars

\* A round that has crashed stays crashed, with the seed it has revealed.
LEMMA CrashedStays ==
    ASSUME IInv, [Next]_vars, NEW n \in RoundNumbers, round[n].status = "crashed"
    PROVE  round'[n] = round[n]
<1>1. RoundsTypeOK /\ LoopInRound /\ round[n] # NoRound
    BY RoundShape DEF IInv, TypeOK
<1>2. CASE EngineNext
    BY <1>1, <1>2, RoundWrites DEF EngineNext
<1>3. CASE UNCHANGED round \/ Restart
    BY <1>3 DEF Restart
<1>4. QED
    BY <1>2, <1>3, OnlyLoopWritesRounds

\* A bet that is placed stays, with its owner, round, amount and target.
BetsKept ==
    \A b \in BetIds : Placed(b) =>
        /\ bet'[b].user = bet[b].user /\ bet'[b].round = bet[b].round
        /\ bet'[b].amount = bet[b].amount /\ bet'[b].autoCashout = bet[b].autoCashout
        /\ bet'[b] = bet[b] \/ bet'[b].status = "won" \/ bet'[b].status = "lost"

\* Who writes bets.
LEMMA BetWriters ==
    ASSUME [Next]_vars
    PROVE  \/ UNCHANGED bet
           \/ \E b \in BetIds : MarkLost(b) /\ UNCHANGED <<play, storeVars>>
           \/ \E c \in Callers :
                (StakeBet(c) \/ PayOut(c)) /\ UNCHANGED <<roundsVars, engineVars>>
BY DEF Next, Running, EngineNext, LoseNext, SweepNext, SweepStep, FindCandidates, CashOutNext,
   EndSweep, PlayNext, CashoutStep, PlaceStep, ReadBet, ReadBetRound, ReadWinner, ReadRound,
   ReadPlayer, FindExisting, AbortNext, AbortPlay, Restart, vars, betsVars, Callers

LEMMA BetsStay ==
    ASSUME IInv, [Next]_vars
    PROVE  BetsKept /\ \A b \in BetIds : Placed(b) => Placed(b)'
<1>1. BetsTypeOK
    BY DEF IInv, TypeOK
<1>2. BetsKept
  <2>1. CASE UNCHANGED bet
      BY <2>1 DEF BetsKept
  <2>2. ASSUME NEW b \in BetIds, MarkLost(b) PROVE BetsKept
    <3>1. bet[b] \in BetRows
        BY <1>1, <2>2, BetShape DEF IInv, LosingInRound, MarkLost
    <3>2. QED
        BY <1>1, <2>2, <3>1 DEF MarkLost, BetsKept, BetsTypeOK, BetRows
  <2>3. ASSUME NEW c \in Callers, StakeBet(c) PROVE BetsKept
      BY <1>1, <2>3 DEF StakeBet, BetsKept, BetsTypeOK, Placed
  <2>4. ASSUME NEW c \in Callers, PayOut(c) PROVE BetsKept
    <3>1. play[c].bet \in BetIds
        BY <1>1, <2>4, PlayShape DEF PayOut, Cashing
    <3>2. bet[play[c].bet] \in BetRows
        BY <1>1, <2>4, <3>1, BetShape DEF IInv, CashoutsNameBets, PayOut
    <3>3. bet' = [bet EXCEPT ![play[c].bet] =
             [bet[play[c].bet] EXCEPT !.status = "won", !.cashoutMultiplier = play[c].multiplier]]
        BY <1>1, <2>4, <3>1 DEF PayOut, BetsTypeOK
    <3>4. QED
        BY <1>1, <3>1, <3>2, <3>3 DEF BetsKept, BetsTypeOK, BetRows
  <2>5. QED
      BY <2>1, <2>2, <2>3, <2>4, BetWriters
<1>3. ASSUME NEW b \in BetIds, Placed(b) PROVE Placed(b)'
  <2>1. bet[b].status # "absent" /\ NoBet.status = "absent"
      BY <1>1, <1>3, BetShape DEF NoBet
  <2>2. bet'[b].status # "absent"
      BY <1>2, <1>3, <2>1 DEF BetsKept
  <2>3. QED
      BY <2>1, <2>2 DEF Placed
<1>4. QED
    BY <1>2, <1>3

-----------------------------------------------------------------------------
(* The parts of the invariant *)

\* Seeds: what is revealed is what was committed to.
LEMMA NextKeepsSeeds ==
    ASSUME IInv, [Next]_vars
    PROVE  SeedRevealedAfterCrash'
<1>1. RoundsTypeOK /\ LoopInRound /\ SeedRevealedAfterCrash
    BY DEF IInv, TypeOK
<1>2. SUFFICES ASSUME NEW n \in RoundNumbers, round'[n] # NoRound
               PROVE  IF round'[n].status = "crashed" THEN round'[n].serverSeed = round'[n].serverSeedHash
                      ELSE round'[n].serverSeed = NotRevealed
    BY DEF SeedRevealedAfterCrash, Created, Verifies
<1>3. CASE round'[n] = round[n]
    BY <1>1, <1>2, <1>3 DEF SeedRevealedAfterCrash, Created, Verifies
<1>4. CASE EngineNext
  <2>1. CASE round'[n] = [status |-> "waiting", serverSeedHash |-> serverSeed,
                          serverSeed |-> NotRevealed]
      BY <2>1
  <2>2. ASSUME round[n].status \in {"waiting", "flying"}
        PROVE  round[n] \in RoundRows /\ round[n].serverSeed = NotRevealed
    <3>1. round[n] # NoRound /\ round[n] \in RoundRows
        BY <1>1, <2>2, RoundShape
    <3>2. QED
        BY <1>1, <2>2, <3>1 DEF SeedRevealedAfterCrash, Created
  <2>3. CASE round[n].status = "waiting" /\ round'[n] = [round[n] EXCEPT !.status = "flying"]
      BY <2>2, <2>3 DEF RoundRows
  <2>4. CASE /\ round[n].status = "flying" /\ round[n].serverSeedHash = serverSeed
             /\ round'[n] = [round[n] EXCEPT !.status = "crashed", !.serverSeed = serverSeed]
      BY <2>2, <2>4 DEF RoundRows
  <2>5. QED
      BY <1>1, <1>3, <1>4, <2>1, <2>3, <2>4, RoundWrites DEF EngineNext
<1>5. QED
    BY <1>3, <1>4, OnlyLoopWritesRounds DEF Restart

\* The loop keeps track of its round.
LEMMA NextKeepsLoop ==
    ASSUME IInv, [Next]_vars
    PROVE  LoopInRound'
<1>1. RoundsTypeOK /\ EngineTypeOK /\ LoopInRound
    BY DEF IInv, TypeOK
<1>2. CASE UNCHANGED <<round, serverSeed, phase, currentRound>>
    BY <1>1, <1>2 DEF LoopInRound
<1>3. CASE Restart
    BY <1>3 DEF Restart, LoopInRound
<1>4. CASE StartWaiting
    BY <1>4 DEF StartWaiting, LoopInRound
<1>5. CASE OpenRound
  <2>1. PICK n \in RoundNumbers : CreateRound(n) /\ currentRound' = n
      BY <1>5 DEF OpenRound
  <2>2. round'[n] = [status |-> "waiting", serverSeedHash |-> serverSeed,
                     serverSeed |-> NotRevealed]
      BY <1>1, <2>1 DEF CreateRound, RoundsTypeOK
  <2>3. QED
      BY <1>5, <2>1, <2>2 DEF OpenRound, LoopInRound
<1>6. CASE TakeOff
    BY <1>1, <1>6 DEF TakeOff, LoopInRound, roundsVars, inMemory
<1>7. CASE Launch
  <2>1. round[currentRound] \in RoundRows /\ currentRound \in RoundNumbers
      BY <1>1, <1>7, CurrentRoundIsRow DEF Launch
  <2>2. /\ round'[currentRound].status = "flying"
        /\ round'[currentRound].serverSeedHash = round[currentRound].serverSeedHash
      BY <1>1, <1>7, <2>1 DEF Launch, MarkFlying, RoundsTypeOK, RoundRows
  <2>3. QED
      BY <1>1, <1>7, <2>1, <2>2 DEF Launch, LoopInRound, inMemory
<1>8. CASE Tick
    BY <1>1, <1>8, TickWrites DEF LoopInRound
<1>9. CASE RecordCrash
  <2>1. round[currentRound] \in RoundRows /\ currentRound \in RoundNumbers
      BY <1>1, <1>9, CurrentRoundIsRow DEF RecordCrash
  <2>2. round'[currentRound].status = "crashed"
      BY <1>1, <1>9, <2>1 DEF RecordCrash, MarkCrashed, RoundsTypeOK, RoundRows
  <2>3. QED
      BY <1>9, <2>1, <2>2 DEF RecordCrash, LoopInRound, inMemory
<1>10. CASE ListActiveBets
    BY <1>1, <1>10 DEF ListActiveBets, LoopInRound, roundsVars
<1>11. CASE FinishRound
    BY <1>11 DEF FinishRound, LoopInRound
<1>12. EngineNext \/ Restart \/ UNCHANGED <<round, serverSeed, phase, currentRound>>
    BY DEF Next, Running, LoseNext, MarkLost, SweepNext, SweepStep, FindCandidates, CashOutNext,
       EndSweep, PlayNext, AbortNext, vars, roundsVars, engineVars, loopVars
<1>13. QED
    BY <1>2, <1>3, <1>4, <1>5, <1>6, <1>7, <1>8, <1>9, <1>10, <1>11, <1>12
       DEF EngineNext, LoopStep

\* Lost bets are bets of crashed rounds.
LEMMA NextKeepsLost ==
    ASSUME IInv, [Next]_vars
    PROVE  LostOnlyInCrashedRound'
<1>1. BetsTypeOK /\ RoundsTypeOK
    BY DEF IInv, TypeOK
<1>2. SUFFICES ASSUME NEW b \in BetIds, bet'[b].status = "lost"
               PROVE  round'[bet'[b].round].status = "crashed"
    BY DEF LostOnlyInCrashedRound
<1>3. ASSUME Placed(b), round[bet[b].round].status = "crashed"
      PROVE  round'[bet'[b].round].status = "crashed"
  <2>1. bet'[b].round = bet[b].round /\ bet[b].round \in RoundNumbers
      BY <1>1, <1>3, BetShape, BetsStay DEF BetsKept, BetRows
  <2>2. QED
      BY <1>3, <2>1, CrashedStays
<1>4. CASE bet'[b] = bet[b]
  <2>1. Placed(b)
      BY <1>2, <1>4, NoBetIsNotLost DEF Placed
  <2>2. QED
      BY <1>2, <1>3, <1>4, <2>1 DEF IInv, LostOnlyInCrashedRound
<1>5. ASSUME NEW d \in BetIds, MarkLost(d) PROVE round'[bet'[b].round].status = "crashed"
  <2>1. CASE d = b
    <3>1. Placed(b) /\ bet[b].round = currentRound /\ round[currentRound].status = "crashed"
        BY <1>5, <2>1 DEF MarkLost, IInv, LosingInRound, LoopInRound
    <3>2. QED
        BY <1>3, <3>1
  <2>2. CASE d # b
      BY <1>1, <1>4, <1>5, <2>2 DEF MarkLost, BetsTypeOK
  <2>3. QED
      BY <2>1, <2>2
<1>6. ASSUME NEW c \in Callers, StakeBet(c) PROVE bet'[b] = bet[b]
    BY <1>1, <1>2, <1>6 DEF StakeBet, BetsTypeOK
<1>7. ASSUME NEW c \in Callers, PayOut(c) PROVE bet'[b] = bet[b]
  <2>1. play[c].bet \in BetIds /\ bet[play[c].bet] \in BetRows
      BY <1>1, <1>7, PlayShape, BetShape DEF PayOut, Cashing, IInv, CashoutsNameBets
  <2>2. bet' = [bet EXCEPT ![play[c].bet] =
           [bet[play[c].bet] EXCEPT !.status = "won", !.cashoutMultiplier = play[c].multiplier]]
      BY <1>1, <1>7, <2>1 DEF PayOut, BetsTypeOK
  <2>3. QED
      BY <1>1, <1>2, <2>1, <2>2 DEF BetsTypeOK, BetRows
<1>8. QED
    BY <1>4, <1>5, <1>6, <1>7, BetWriters

\* What crash still has to mark lost are placed bets of the round.
LEMMA NextKeepsLosing ==
    ASSUME IInv, [Next]_vars
    PROVE  LosingInRound'
<1>1. BetsTypeOK /\ EngineTypeOK
    BY DEF IInv, TypeOK
<1>2. ASSUME phase = "losing", activeBets' \subseteq activeBets, currentRound' = currentRound
      PROVE  LosingInRound'
  <2>1. \A b \in activeBets : b \in BetIds /\ Placed(b) /\ bet[b].round = currentRound
      BY <1>1, <1>2 DEF IInv, LosingInRound, EngineTypeOK
  <2>2. \A b \in activeBets : Placed(b)' /\ bet'[b].round = currentRound
      BY <2>1, BetsStay DEF BetsKept
  <2>3. QED
      BY <1>2, <2>2 DEF LosingInRound, Placed
<1>3. CASE UNCHANGED <<phase, activeBets, currentRound>>
    BY <1>2, <1>3 DEF LosingInRound
<1>4. CASE ListActiveBets /\ UNCHANGED bet
    BY <1>1, <1>4 DEF ListActiveBets, ActiveIn, LosingInRound, Placed, NoBet
<1>5. ASSUME NEW b \in BetIds, MarkLost(b) PROVE LosingInRound'
    BY <1>2, <1>5 DEF MarkLost
<1>6. CASE phase' # "losing"
    BY <1>6 DEF LosingInRound
<1>7. QED
    BY <1>3, <1>4, <1>5, <1>6 DEF Next, Running, EngineNext, LoopStep, StartWaiting, OpenRound,
       TakeOff, Launch, Tick, RecordCrash, FinishRound, LoseNext, SweepNext, SweepStep,
       FindCandidates, CashOutNext, EndSweep, PlayNext, AbortNext, Restart, vars, engineVars,
       loopVars, betsVars, inMemory

\* A level at which a sweep may pay stays one while the process runs.
LEMMA PayableStays ==
    ASSUME IInv, [Next]_vars, ~Restart,
           NEW n \in RoundNumbers, NEW level \in Levels \cup {NoAuto}, PayableAt(n, level)
    PROVE  PayableAt(n, level)'
<1>1. RoundsTypeOK /\ EngineTypeOK /\ LoopInRound /\ multiplier \in Levels
    BY DEF IInv, TypeOK, EngineTypeOK
<1>2. CASE round[n].status = "crashed"
    BY <1>2, CrashedStays DEF PayableAt
<1>3. CASE n = currentRound /\ phase \in {"ticking", "crashing"} /\ level <= multiplier
  <2>1. CASE UNCHANGED <<phase, currentRound, multiplier>>
      BY <1>3, <2>1 DEF PayableAt
  <2>2. CASE Tick
    <3>1. PICK m \in Levels :
             /\ m >= multiplier /\ multiplier' = m /\ currentRound' = currentRound
             /\ phase' \in {"ticking", "crashing"}
        BY <1>1, <2>2, TickWrites
    <3>2. level <= m
        BY <1>1, <1>3, <3>1, AmountsAndLevels DEF NoAuto
    <3>3. QED
        BY <1>3, <3>1, <3>2 DEF PayableAt
  <2>3. CASE RecordCrash
    <3>1. round[currentRound] \in RoundRows
        BY <1>1, <2>3, CurrentRoundIsRow DEF RecordCrash
    <3>2. round'[n].status = "crashed"
        BY <1>1, <1>3, <2>3, <3>1 DEF RecordCrash, MarkCrashed, RoundsTypeOK, RoundRows
    <3>3. QED
        BY <3>2 DEF PayableAt
  <2>4. QED
      BY <1>3, <2>1, <2>2, <2>3 DEF Next, Running, EngineNext, LoopStep, StartWaiting,
         OpenRound, TakeOff, Launch, ListActiveBets, FinishRound, LoseNext, MarkLost, SweepNext,
         SweepStep, FindCandidates, CashOutNext, EndSweep, PlayNext, AbortNext, vars,
         engineVars, loopVars
<1>4. QED
    BY <1>2, <1>3 DEF PayableAt

\* What becomes of a sweep.
LEMMA SweepMoves ==
    ASSUME IInv, [Next]_vars, NEW s \in Sweeps
    PROVE  \/ sweep'[s] = sweep[s] /\ ~Restart
           \/ sweep'[s] = NoSweep
           \/ /\ Tick
              /\ sweep'[s] = [at |-> "find", round |-> currentRound, upTo |-> multiplier']
           \/ FindCandidates(s)
           \/ CashOutNext(s)
<1>1. EngineTypeOK
    BY DEF IInv, TypeOK
<1>2. CASE Restart
    BY <1>2 DEF Restart
<1>3. CASE Tick /\ ~Restart
    BY <1>1, <1>3, TickWrites
<1>4. ASSUME NEW t \in Sweeps, SweepStep(t), ~Restart
      PROVE  \/ sweep'[s] = sweep[s] \/ sweep'[s] = NoSweep \/ FindCandidates(s)
             \/ CashOutNext(s)
    BY <1>1, <1>4 DEF SweepStep, FindCandidates, CashOutNext, EndSweep, EngineTypeOK
<1>5. CASE UNCHANGED sweep /\ ~Restart
    BY <1>5
<1>6. QED
    BY <1>2, <1>3, <1>4, <1>5 DEF Next, Running, EngineNext, LoopStep, StartWaiting, OpenRound,
       TakeOff, Launch, RecordCrash, ListActiveBets, FinishRound, LoseNext, MarkLost, SweepNext,
       PlayNext, AbortNext, vars, engineVars, inMemory

\* Sweeps hold bets whose target was reached.
LEMMA NextKeepsSweeps ==
    ASSUME IInv, [Next]_vars
    PROVE  SweepsReachTargets'
<1>1. BetsTypeOK /\ EngineTypeOK /\ multiplier \in Levels
    BY DEF IInv, TypeOK, EngineTypeOK
<1>2. SUFFICES ASSUME NEW s \in Sweeps
               PROVE  /\ sweep'[s].at = "find" => PayableAt(sweep[s].round, sweep[s].upTo)'
                      /\ sweep'[s].at = "loop" => \A b \in sweep'[s].candidates :
                             Placed(b)' /\ PayableAt(bet[b].round, bet[b].autoCashout)'
    BY DEF SweepsReachTargets
<1>3. ASSUME NEW b \in BetIds, Placed(b), ~Restart,
             PayableAt(bet[b].round, bet[b].autoCashout)
      PROVE  Placed(b)' /\ PayableAt(bet[b].round, bet[b].autoCashout)'
  <2>1. PICK n \in RoundNumbers, level \in Levels \cup {NoAuto} :
           n = bet[b].round /\ level = bet[b].autoCashout
      BY <1>1, <1>3, BetShape DEF BetRows
  <2>2. PayableAt(n, level)'
      BY <1>3, <2>1, PayableStays
  <2>3. bet'[b].round = n /\ bet'[b].autoCashout = level /\ Placed(b)'
      BY <1>3, <2>1, BetsStay DEF BetsKept
  <2>4. QED
      BY <2>2, <2>3 DEF PayableAt
<1>4. CASE sweep'[s] = sweep[s] /\ ~Restart
  <2>1. CASE sweep[s].at = "find"
    <3>1. PICK n \in RoundNumbers, level \in Levels :
             n = sweep[s].round /\ level = sweep[s].upTo
        BY <1>1, <2>1, SweepShape
    <3>2. PayableAt(n, level)'
        BY <1>4, <2>1, <3>1, PayableStays DEF IInv, SweepsReachTargets
    <3>3. QED
        BY <1>4, <2>1, <3>1, <3>2 DEF PayableAt
  <2>2. CASE sweep[s].at = "loop"
    <3>1. sweep[s].candidates \subseteq BetIds
        BY <1>1, <2>2, SweepShape
    <3>2. \A b \in sweep[s].candidates :
             Placed(b)' /\ PayableAt(bet[b].round, bet[b].autoCashout)'
        BY <1>3, <1>4, <2>2, <3>1 DEF IInv, SweepsReachTargets
    <3>3. QED
        BY <1>4, <2>2, <3>2
  <2>3. QED
      BY <1>4, <2>1, <2>2
<1>5. CASE sweep'[s] = NoSweep
    BY <1>5 DEF NoSweep
<1>6. CASE /\ Tick
           /\ sweep'[s] = [at |-> "find", round |-> currentRound, upTo |-> multiplier']
  <2>1. PICK m \in Levels :
           multiplier' = m /\ currentRound' = currentRound /\ phase' \in {"ticking", "crashing"}
      BY <1>1, <1>6, TickWrites
  <2>2. m <= m
      BY AmountsAndLevels
  <2>3. QED
      BY <1>6, <2>1, <2>2 DEF PayableAt
<1>7. CASE FindCandidates(s)
  <2>1. PICK n \in RoundNumbers, level \in Levels :
           n = sweep[s].round /\ level = sweep[s].upTo
      BY <1>1, <1>7, SweepShape DEF FindCandidates
  <2>2. PayableAt(n, level)
      BY <1>7, <2>1 DEF FindCandidates, IInv, SweepsReachTargets
  <2>3. UNCHANGED <<round, bet, currentRound, phase, multiplier>>
      BY <1>7 DEF FindCandidates, roundsVars, loopVars, betsVars
  <2>4. /\ sweep'[s].at = "loop"
        /\ \A b \in sweep'[s].candidates :
             /\ b \in BetIds /\ bet[b].status = "active" /\ bet[b].round = n
             /\ bet[b].autoCashout <= level
      BY <1>1, <1>7, <2>1 DEF FindCandidates, ActiveIn, EngineTypeOK
  <2>5. ASSUME NEW b \in sweep'[s].candidates
        PROVE  Placed(b) /\ PayableAt(bet[b].round, bet[b].autoCashout)
    <3>1. Placed(b)
        BY <2>4, NoBetIsNotLost DEF Placed
    <3>2. bet[b].autoCashout \in Levels \cup {NoAuto}
        BY <1>1, <2>4, <3>1, BetShape DEF BetRows
    <3>3. level <= multiplier => bet[b].autoCashout <= multiplier
        BY <1>1, <2>4, <3>2, AmountsAndLevels DEF NoAuto
    <3>4. QED
        BY <2>2, <2>4, <3>1, <3>3 DEF PayableAt
  <2>6. \A b \in sweep'[s].candidates :
           Placed(b)' /\ PayableAt(bet[b].round, bet[b].autoCashout)'
      BY <2>3, <2>5 DEF Placed, PayableAt
  <2>7. QED
      BY <2>4, <2>6
<1>8. CASE CashOutNext(s)
  <2>1. UNCHANGED <<round, bet, currentRound, phase, multiplier>>
      BY <1>8 DEF CashOutNext, roundsVars, loopVars
  <2>2. sweep[s].at = "loop" /\ sweep[s] \in [at : {"loop"}, candidates : SUBSET BetIds]
      BY <1>1, <1>8, SweepShape DEF CashOutNext
  <2>3. sweep'[s].at = "loop" /\ sweep'[s].candidates \subseteq sweep[s].candidates
      BY <1>1, <1>8, <2>2 DEF CashOutNext, EngineTypeOK
  <2>4. \A b \in sweep[s].candidates :
           Placed(b) /\ PayableAt(bet[b].round, bet[b].autoCashout)
      BY <2>2 DEF IInv, SweepsReachTargets
  <2>5. \A b \in sweep'[s].candidates :
           Placed(b)' /\ PayableAt(bet[b].round, bet[b].autoCashout)'
      BY <2>1, <2>3, <2>4 DEF Placed, PayableAt
  <2>6. QED
      BY <2>3, <2>5
<1>9. QED
    BY <1>4, <1>5, <1>6, <1>7, <1>8, SweepMoves

\* What becomes of a call.
LEMMA PlayMoves ==
    ASSUME IInv, [Next]_vars, NEW c \in Callers
    PROVE  \/ play'[c] = play[c]
           \/ play'[c] = NoPlay
           \/ c \in Plays /\ PlaceStep(c) /\ UNCHANGED <<roundsVars, engineVars>>
           \/ CashoutStep(c) /\ UNCHANGED <<roundsVars, engineVars>>
           \/ c \in Plays /\ (SocketCashout(c) \/ RestCashout(c)) /\ UNCHANGED <<bet, storeVars>>
           \/ c \in Sweeps /\ CashOutNext(c) /\ UNCHANGED storeVars
<1>1. BetsTypeOK
    BY DEF IInv, TypeOK
<1>2. CASE UNCHANGED play \/ Restart
    BY <1>2 DEF Restart
<1>3. ASSUME NEW d \in Callers, d # c, PlaceStep(d) \/ CashoutStep(d) \/ AbortPlay(d)
      PROVE  play'[c] = play[c]
    BY <1>1, <1>3 DEF PlaceStep, CashoutStep, ReadRound, ReadPlayer, FindExisting, StakeBet,
       ReadBet, ReadBetRound, ReadWinner, PayOut, AbortPlay, End, Advance, BetsTypeOK
<1>4. ASSUME NEW d \in Callers, d # c, NEW b, NEW m, CallCashout(d, b, m)
      PROVE  play'[c] = play[c]
    BY <1>1, <1>4 DEF CallCashout, BetsTypeOK
<1>5. ASSUME AbortPlay(c) PROVE play'[c] = NoPlay
    BY <1>1, <1>5, EndMoves DEF AbortPlay
<1>6. ASSUME NEW s \in Sweeps, SweepNext(s)
      PROVE  \/ play'[c] = play[c]
             \/ CashoutStep(c) /\ UNCHANGED <<roundsVars, engineVars>>
             \/ c \in Sweeps /\ CashOutNext(c) /\ UNCHANGED storeVars
    BY <1>3, <1>4, <1>6 DEF SweepNext, SweepStep, FindCandidates, CashOutNext, EndSweep,
       betsVars, Callers
<1>7. ASSUME NEW p \in Plays, PlayNext(p), p # c PROVE play'[c] = play[c]
    BY <1>3, <1>4, <1>7 DEF PlayNext, SocketCashout, RestCashout, Callers
<1>8. ASSUME NEW d \in Callers, AbortNext(d) PROVE play'[c] = play[c] \/ play'[c] = NoPlay
    BY <1>3, <1>5, <1>8 DEF AbortNext
<1>9. EngineNext \/ LoseNext \/ UNCHANGED vars => UNCHANGED play
    BY DEF EngineNext, LoseNext, vars, betsVars
<1>10. QED
    BY <1>2, <1>6, <1>7, <1>8, <1>9 DEF Next, Running, PlayNext

\* Cashouts are about bets that exist.
LEMMA NextKeepsNames ==
    ASSUME IInv, [Next]_vars
    PROVE  CashoutsNameBets'
<1>1. BetsTypeOK /\ EngineTypeOK
    BY DEF IInv, TypeOK
<1>2. SUFFICES ASSUME NEW c \in Callers, play'[c].at \in {"bet", "round", "winner", "payout"}
               PROVE  Placed(play[c].bet)'
    BY DEF CashoutsNameBets
<1>3. ASSUME NEW b \in BetIds, Placed(b), play'[c].bet = b
      PROVE  Placed(play[c].bet)'
    BY <1>3, BetsStay DEF Placed
<1>4. ASSUME play[c].at \in {"bet", "round", "winner", "payout"}, play'[c].bet = play[c].bet
      PROVE  Placed(play[c].bet)'
  <2>1. play[c].bet \in BetIds /\ Placed(play[c].bet)
      BY <1>1, <1>4, PlayShape DEF Cashing, IInv, CashoutsNameBets
  <2>2. PICK b \in BetIds : b = play[c].bet /\ Placed(b)
      BY <2>1
  <2>3. QED
      BY <1>3, <1>4, <2>2
<1>5. ASSUME NEW b \in BetIds, Placed(b), NEW m, CallCashout(c, b, m)
      PROVE  Placed(play[c].bet)'
    BY <1>1, <1>3, <1>5 DEF CallCashout, BetsTypeOK
<1>6. CASE play'[c] = play[c]
    BY <1>2, <1>4, <1>6
<1>7. CASE play'[c] = NoPlay
    BY <1>2, <1>7 DEF NoPlay
<1>8. CASE PlaceStep(c)
    BY <1>1, <1>2, <1>7, <1>8, PlaceMoves
<1>9. CASE CashoutStep(c)
  <2>1. play'[c] = NoPlay \/ play'[c].bet = play[c].bet
      BY <1>1, <1>9, CashoutMoves
  <2>2. play[c].at \in {"bet", "round", "winner", "payout"}
      BY <1>9 DEF CashoutStep, ReadBet, ReadBetRound, ReadWinner, PayOut
  <2>3. QED
      BY <1>4, <1>7, <2>1, <2>2
<1>10. CASE SocketCashout(c) \/ RestCashout(c)
    BY <1>5, <1>10 DEF SocketCashout, RestCashout, Placed
<1>11. CASE c \in Sweeps /\ CashOutNext(c)
  <2>1. \A b \in sweep[c].candidates : b \in BetIds /\ Placed(b)
      BY <1>1, <1>11, SweepShape DEF CashOutNext, IInv, SweepsReachTargets
  <2>2. QED
      BY <1>5, <1>11, <2>1 DEF CashOutNext
<1>12. QED
    BY <1>6, <1>7, <1>8, <1>9, <1>10, <1>11, PlayMoves

\* Sweeps pay targets: the multiplier that the call was given is the target or
\* more, unless the round has crashed, and then the call finds it so.
LEMMA NextKeepsSweepCalls ==
    ASSUME IInv, [Next]_vars
    PROVE  SweepCallsReachTargets'
<1>1. BetsTypeOK /\ EngineTypeOK
    BY DEF IInv, TypeOK
<1>2. SUFFICES ASSUME NEW s \in Sweeps
               PROVE  /\ play'[s].at \in {"bet", "round"} =>
                             \/ round'[bet'[play'[s].bet].round].status = "crashed"
                             \/ play'[s].multiplier >= bet'[play'[s].bet].autoCashout
                      /\ play'[s].at \in {"winner", "payout"} =>
                             play'[s].multiplier >= bet'[play'[s].bet].autoCashout
    BY DEF SweepCallsReachTargets
<1>3. s \in Callers /\ s \notin Plays
    BY BetsAssumption DEF Callers
\* The bet of a call keeps what the property is about.
<1>4. ASSUME NEW b \in BetIds, Placed(b)
      PROVE  /\ bet'[b].autoCashout = bet[b].autoCashout
             /\ round[bet[b].round].status = "crashed" => round'[bet'[b].round].status = "crashed"
  <2>1. bet'[b].round = bet[b].round /\ bet'[b].autoCashout = bet[b].autoCashout
      BY <1>4, BetsStay DEF BetsKept
  <2>2. bet[b].round \in RoundNumbers
      BY <1>1, <1>4, BetShape DEF BetRows
  <2>3. QED
      BY <2>1, <2>2, CrashedStays
<1>5. ASSUME play[s].at \in {"bet", "round", "winner", "payout"}
      PROVE  /\ play[s].bet \in BetIds /\ Placed(play[s].bet) /\ play[s] \in Cashing
             /\ bet'[play[s].bet].autoCashout = bet[play[s].bet].autoCashout
             /\ round[bet[play[s].bet].round].status = "crashed" =>
                   round'[bet'[play[s].bet].round].status = "crashed"
  <2>1. play[s].bet \in BetIds /\ Placed(play[s].bet) /\ play[s] \in Cashing
      BY <1>1, <1>3, <1>5, PlayShape DEF Cashing, IInv, CashoutsNameBets
  <2>2. QED
      BY <1>4, <2>1
<1>6. CASE play'[s] = play[s]
    BY <1>5, <1>6 DEF IInv, SweepCallsReachTargets
<1>7. CASE play'[s] = NoPlay
    BY <1>7 DEF NoPlay
<1>8. CASE CashoutStep(s)
  <2>1. play[s].at \in {"bet", "round", "winner", "payout"}
      BY <1>8 DEF CashoutStep, ReadBet, ReadBetRound, ReadWinner, PayOut
  <2>2. play[s] \in Cashing
      BY <2>1, <1>5
  <2>3. \/ play'[s] = NoPlay
        \/ /\ play'[s].bet = play[s].bet /\ play'[s].multiplier = play[s].multiplier
           /\ \/ play[s].at = "bet" /\ play'[s].at = "round"
              \/ /\ play[s].at = "round" /\ play'[s].at = "winner"
                 /\ round[bet[play[s].bet].round].status = "flying"
              \/ play[s].at = "winner" /\ play'[s].at = "payout"
      BY <1>1, <1>3, <1>8, CashoutMoves
  <2>4. QED
      BY <1>5, <1>7, <2>1, <2>3 DEF IInv, SweepCallsReachTargets
<1>9. CASE CashOutNext(s)
  <2>1. PICK b \in sweep[s].candidates : CallCashout(s, b, multiplier)
      BY <1>9 DEF CashOutNext
  <2>2. b \in BetIds /\ Placed(b) /\ PayableAt(bet[b].round, bet[b].autoCashout)
      BY <1>1, <1>9, <2>1, SweepShape DEF CashOutNext, IInv, SweepsReachTargets
  <2>3. /\ play'[s].at = "bet" /\ play'[s].bet = b /\ play'[s].multiplier = multiplier
      BY <1>1, <1>3, <2>1 DEF CallCashout, BetsTypeOK
  <2>4. \/ round[bet[b].round].status = "crashed"
        \/ multiplier >= bet[b].autoCashout
    <3>1. multiplier \in Levels /\ bet[b].autoCashout \in Levels \cup {NoAuto}
        BY <1>1, <2>2, BetShape DEF EngineTypeOK, BetRows
    <3>2. QED
        BY <2>2, <3>1, AmountsAndLevels DEF PayableAt, NoAuto
  <2>5. QED
      BY <1>4, <2>2, <2>3, <2>4
<1>10. QED
    BY <1>3, <1>6, <1>7, <1>8, <1>9, PlayMoves

\* Who writes balances.
LEMMA BalanceWriters ==
    ASSUME [Next]_vars
    PROVE  \/ UNCHANGED storeVars
           \/ \E c \in Callers : StakeBet(c) \/ PayOut(c)
BY DEF Next, Running, EngineNext, LoseNext, SweepNext, PlayNext, CashoutStep, PlaceStep,
   ReadBet, ReadBetRound, ReadWinner, ReadRound, ReadPlayer, FindExisting, AbortNext,
   AbortPlay, Restart, vars, Callers

\* What the batch of a placed bet writes.
LEMMA StakeWrites ==
    ASSUME IInv, NEW c \in Callers, StakeBet(c)
    PROVE  /\ play[c] \in Placing /\ play'[c] = NoPlay /\ play[c].at = "stake"
           /\ play[c].user \in Users /\ play[c].amount \in Nat /\ play[c].seen \in Int
           /\ play[c].seen >= play[c].amount
           /\ balance' = [balance EXCEPT ![play[c].user] = play[c].seen - play[c].amount]
           /\ ledger' = [ledger EXCEPT ![play[c].user] =
                                           ledger[play[c].user] - play[c].amount]
<1>1. BetsTypeOK /\ StoreTypeOK /\ CallsFunded
    BY DEF IInv, TypeOK
<1>2. play[c] \in Placing /\ play[c].at = "stake"
    BY <1>1, PlayShape DEF StakeBet
<1>3. play[c].user \in Users /\ play[c].amount \in Amounts /\ play[c].seen \in Decimals
    BY <1>2 DEF Placing
<1>4. play[c].amount \in Nat /\ play[c].seen \in Int
    BY <1>3, AmountsAndLevels, DecimalsAreInts
<1>5. play'[c] = NoPlay
    BY <1>1, EndMoves DEF StakeBet
<1>6. /\ balance' = [balance EXCEPT ![play[c].user] = play[c].seen - play[c].amount]
      /\ ledger' = [ledger EXCEPT ![play[c].user] = ledger[play[c].user] + (-play[c].amount)]
    BY DEF StakeBet, Post, SetBalance
<1>7. ledger[play[c].user] + (-play[c].amount) = ledger[play[c].user] - play[c].amount
    BY <1>1, <1>3, <1>4 DEF StoreTypeOK
<1>8. QED
    BY <1>1, <1>2, <1>3, <1>4, <1>5, <1>6, <1>7 DEF CallsFunded

\* What the batch of a cashout writes.
LEMMA PayOutWrites ==
    ASSUME IInv, NEW c \in Callers, PayOut(c)
    PROVE  \E u \in Users, winnings \in Nat :
           /\ play[c] \in Cashing /\ play'[c] = NoPlay /\ play[c].at = "payout"
           /\ u = bet[play[c].bet].user /\ play[c].seen \in Int /\ play[c].seen >= 0
           /\ balance' = [balance EXCEPT ![u] = play[c].seen + winnings]
           /\ ledger' = [ledger EXCEPT ![u] = ledger[u] + winnings]
<1> DEFINE u == bet[play[c].bet].user
           winnings == bet[play[c].bet].amount * play[c].multiplier
<1>1. BetsTypeOK /\ StoreTypeOK /\ CallsFunded /\ CashoutsNameBets
    BY DEF IInv, TypeOK
<1>2. play[c] \in Cashing /\ play[c].at = "payout"
    BY <1>1, PlayShape DEF PayOut
<1>3. play[c].bet \in BetIds /\ play[c].multiplier \in Levels /\ play[c].seen \in Decimals
    BY <1>2 DEF Cashing
<1>4. bet[play[c].bet] \in BetRows
    BY <1>1, <1>2, <1>3, BetShape DEF CashoutsNameBets
<1>5. u \in Users /\ bet[play[c].bet].amount \in Amounts
    BY <1>4 DEF BetRows
<1>6. \A a, m \in Nat : a * m \in Nat
    OBVIOUS
<1>7. winnings \in Nat
    BY <1>3, <1>5, <1>6, AmountsAndLevels
<1>8. play[c].seen \in Int /\ play[c].seen >= 0
    BY <1>1, <1>2, <1>3, DecimalsAreInts DEF CallsFunded
<1>9. play'[c] = NoPlay
    BY <1>1, EndMoves DEF PayOut
<1>10. /\ balance' = [balance EXCEPT ![u] = play[c].seen + winnings]
       /\ ledger' = [ledger EXCEPT ![u] = ledger[u] + winnings]
    BY DEF PayOut, Post, SetBalance
<1>11. QED
    BY <1>2, <1>5, <1>7, <1>8, <1>9, <1>10

\* No call overdraws, because its stake was compared with the copy it writes from.
LEMMA NextKeepsFunds ==
    ASSUME IInv, [Next]_vars
    PROVE  NoOverdraft'
<1>1. StoreTypeOK /\ NoOverdraft
    BY DEF IInv, TypeOK
<1>2. SUFFICES ASSUME NEW u \in Users PROVE balance'[u] >= 0
    BY DEF NoOverdraft
<1>3. CASE UNCHANGED storeVars
    BY <1>1, <1>3 DEF storeVars, NoOverdraft
<1>4. ASSUME NEW c \in Callers, StakeBet(c) PROVE balance'[u] >= 0
    BY <1>1, <1>4, StakeWrites DEF NoOverdraft, StoreTypeOK
<1>5. ASSUME NEW c \in Callers, PayOut(c) PROVE balance'[u] >= 0
  <2>1. PICK w \in Users, winnings \in Nat :
           /\ play[c].seen \in Int /\ play[c].seen >= 0
           /\ balance' = [balance EXCEPT ![w] = play[c].seen + winnings]
      BY <1>5, PayOutWrites
  <2>2. QED
      BY <1>1, <2>1 DEF NoOverdraft, StoreTypeOK
<1>6. QED
    BY <1>3, <1>4, <1>5, BalanceWriters

\* What a call has read covers its stake.
LEMMA NextKeepsFunded ==
    ASSUME IInv, [Next]_vars
    PROVE  CallsFunded'
<1>1. BetsTypeOK /\ StoreTypeOK /\ CallsFunded /\ NoOverdraft
    BY DEF IInv, TypeOK
<1>2. SUFFICES ASSUME NEW c \in Callers
               PROVE  /\ play'[c].at \in {"existing", "stake"} => play'[c].seen >= play'[c].amount
                      /\ play'[c].at = "payout" => play'[c].seen >= 0
    BY DEF CallsFunded
<1>3. CASE play'[c] = play[c]
    BY <1>1, <1>3 DEF CallsFunded
<1>4. CASE play'[c] = NoPlay
    BY <1>4 DEF NoPlay
<1>5. CASE PlaceStep(c)
  <2>1. ASSUME play[c] \in Placing, play'[c].at = "existing", play'[c].amount = play[c].amount,
               play'[c].seen = balance[play[c].user], ~(balance[play[c].user] < play[c].amount)
        PROVE  play'[c].seen >= play'[c].amount
    <3>1. balance[play[c].user] \in Decimals /\ play[c].amount \in Amounts
        BY <1>1, <2>1 DEF Placing, StoreTypeOK
    <3>2. balance[play[c].user] \in Int /\ play[c].amount \in Int
        BY <3>1, AmountsAndLevels, DecimalsAreInts
    <3>3. QED
        BY <2>1, <3>2
  <2>2. CASE play'[c].at = "player"
      BY <2>2
  <2>3. ASSUME play[c].at = "existing", play'[c].at = "stake", play'[c].seen = play[c].seen,
               play'[c].amount = play[c].amount
        PROVE  play'[c].seen >= play'[c].amount
      BY <1>1, <2>3 DEF CallsFunded
  <2>4. QED
      BY <1>1, <1>4, <1>5, <2>1, <2>2, <2>3, PlaceMoves
<1>6. CASE CashoutStep(c)
  <2>1. ASSUME play[c] \in Cashing, play[c].at = "winner",
               play'[c].seen = balance[bet[play[c].bet].user]
        PROVE  play'[c].seen >= 0
    <3>1. play[c].bet \in BetIds
        BY <2>1 DEF Cashing
    <3>2. bet[play[c].bet].user \in Users
        BY <1>1, <2>1, <3>1, BetShape DEF IInv, CashoutsNameBets, BetRows
    <3>3. QED
        BY <1>1, <2>1, <3>2 DEF NoOverdraft
  <2>2. QED
      BY <1>1, <1>4, <1>6, <2>1, CashoutMoves
<1>7. ASSUME NEW b, NEW m, CallCashout(c, b, m) PROVE play'[c].at = "bet"
    BY <1>1, <1>7 DEF CallCashout, BetsTypeOK
<1>8. CASE SocketCashout(c) \/ RestCashout(c)
    BY <1>7, <1>8 DEF SocketCashout, RestCashout
<1>9. CASE c \in Sweeps /\ CashOutNext(c)
    BY <1>7, <1>9 DEF CashOutNext
<1>10. QED
    BY <1>3, <1>4, <1>5, <1>6, <1>8, <1>9, PlayMoves

\* The invariant holds at the start.
LEMMA InitOK ==
    ASSUME Init
    PROVE  IInv
<1>1. 1 \in Levels /\ 0 \in 0 .. MaxRounds
    BY RoundsAssumption DEF RoundsAssumption, Levels
<1>2. StoreTypeOK /\ NoOverdraft
  <2>1. \A b \in 0 .. MaxBalance : b \in Decimals /\ b >= 0
      BY StoreAssumption DEF StoreAssumption, Decimals
  <2>2. balance \in [Users -> 0 .. MaxBalance]
      BY DEF Init, StoreInit
  <2>3. balance \in [Users -> Decimals] /\ NoOverdraft
      BY <2>1, <2>2 DEF NoOverdraft
  <2>4. QED
      BY <2>3, DecimalsAreInts DEF Init, StoreInit, StoreTypeOK
<1>3. RoundsTypeOK
    BY <1>1 DEF Init, RoundsInit, RoundsTypeOK, NotRevealed
<1>4. BetsTypeOK
    BY DEF Init, BetsInit, BetsTypeOK
<1>5. EngineTypeOK
    BY <1>1 DEF Init, EngineInit, EngineTypeOK
<1>6. SeedRevealedAfterCrash
    BY DEF Init, RoundsInit, SeedRevealedAfterCrash, Created
<1>7. LoopInRound /\ LosingInRound
    BY DEF Init, EngineInit, LoopInRound, LosingInRound
<1>8. LostOnlyInCrashedRound
    BY DEF Init, BetsInit, LostOnlyInCrashedRound, NoBet
<1>9. SweepsReachTargets
    BY DEF Init, EngineInit, SweepsReachTargets, NoSweep
<1>10. SweepCallsReachTargets /\ CashoutsNameBets /\ CallsFunded
    BY DEF Init, BetsInit, SweepCallsReachTargets, CashoutsNameBets, CallsFunded, NoPlay, Callers
<1>11. QED
    BY <1>2, <1>3, <1>4, <1>5, <1>6, <1>7, <1>8, <1>9, <1>10 DEF IInv, TypeOK

\* The inductive invariant holds of every behaviour, restarts and failed calls
\* included.
THEOREM Invariance == Spec => []IInv
<1>1. Init => IInv
    BY InitOK
<1>2. IInv /\ [Next]_vars => IInv'
  <2>1. SUFFICES ASSUME IInv, [Next]_vars PROVE IInv'
      OBVIOUS
  <2>2. TypeOK'
      BY <2>1, NextTyped DEF IInv
  <2>3. QED
      BY <2>1, <2>2, NextKeepsSeeds, NextKeepsLoop, NextKeepsLost, NextKeepsLosing,
         NextKeepsSweeps, NextKeepsSweepCalls, NextKeepsNames, NextKeepsFunds,
         NextKeepsFunded DEF IInv
<1>3. QED
    BY <1>1, <1>2, PTL DEF Spec

-----------------------------------------------------------------------------
(* Theorems *)

\* The rows, the calls and the engine keep the shapes that the services give
\* them, whatever fails and whenever the process restarts.
THEOREM TypeCorrectness == Spec => []TypeOK
<1>1. IInv => TypeOK
    BY DEF IInv
<1>2. QED
    BY <1>1, Invariance, PTL

\* Every published seed is the one that the round's hash committed to, and none
\* is published before its round has crashed: rounds stay provably fair across
\* restarts.
THEOREM SeedsRevealed == Spec => []SeedRevealedAfterCrash
<1>1. IInv => SeedRevealedAfterCrash
    BY DEF IInv
<1>2. QED
    BY <1>1, Invariance, PTL

\* Only a crash makes a bet lost.
THEOREM LostOnlyAfterCrash == Spec => []LostOnlyInCrashedRound
<1>1. IInv => LostOnlyInCrashedRound
    BY DEF IInv
<1>2. QED
    BY <1>1, Invariance, PTL

\* No interleaving of bets and cashouts overdraws a balance.
THEOREM NeverOverdrawn == Spec => []NoOverdraft
<1>1. IInv => NoOverdraft
    BY DEF IInv
<1>2. QED
    BY <1>1, Invariance, PTL

\* An auto-cashout never pays below the player's target.
THEOREM SweepsPayTargets == Spec => SweepPaysTarget
<1>1. IInv /\ [Next]_vars =>
         [\A s \in Sweeps : play[s].at = "payout" /\ bet' # bet /\ play'[s] = NoPlay
             => play[s].multiplier >= bet[play[s].bet].autoCashout]_vars
    BY DEF IInv, SweepCallsReachTargets
<1>2. QED
    BY <1>1, Invariance, PTL DEF Spec, SweepPaysTarget

\* A balance parts from the ledger only where a call commits a copy that another
\* write has made stale.
LEMMA StepDrift ==
    ASSUME IInv, [Next]_vars, NEW u \in Users, Drift(u)' # Drift(u)
    PROVE  StaleBalance(u)
<1>1. StoreTypeOK
    BY DEF IInv, TypeOK
<1>2. balance[u] \in Int /\ ledger[u] \in Int
    BY <1>1, DecimalsAreInts DEF StoreTypeOK
<1>3. ~UNCHANGED storeVars
    BY DEF storeVars, Drift
<1>4. ASSUME NEW c \in Callers, StakeBet(c) PROVE StaleBalance(u)
  <2>1. /\ play[c].at = "stake" /\ play'[c] = NoPlay /\ play[c] # NoPlay
        /\ play[c].user \in Users /\ play[c].amount \in Int /\ play[c].seen \in Int
        /\ balance' = [balance EXCEPT ![play[c].user] = play[c].seen - play[c].amount]
        /\ ledger' = [ledger EXCEPT ![play[c].user] = ledger[play[c].user] - play[c].amount]
      BY <1>4, StakeWrites DEF NoPlay
  <2>2. balance'[u] - ledger'[u] # balance[u] - ledger[u]
      BY DEF Drift
  <2>3. play[c].user = u
      BY <1>1, <2>1, <2>2 DEF StoreTypeOK
  <2>4. play[c].seen # balance[u]
      BY <1>1, <1>2, <2>1, <2>2, <2>3 DEF StoreTypeOK
  <2>5. QED
      BY <2>1, <2>3, <2>4 DEF StaleBalance
<1>5. ASSUME NEW c \in Callers, PayOut(c) PROVE StaleBalance(u)
  <2>1. PICK w \in Users, winnings \in Nat :
           /\ play[c].at = "payout" /\ play'[c] = NoPlay
           /\ w = bet[play[c].bet].user /\ play[c].seen \in Int
           /\ balance' = [balance EXCEPT ![w] = play[c].seen + winnings]
           /\ ledger' = [ledger EXCEPT ![w] = ledger[w] + winnings]
      BY <1>5, PayOutWrites
  <2>2. balance'[u] - ledger'[u] # balance[u] - ledger[u]
      BY DEF Drift
  <2>3. w = u
      BY <1>1, <2>1, <2>2 DEF StoreTypeOK
  <2>4. play[c].seen # balance[u]
      BY <1>1, <1>2, <2>1, <2>2, <2>3 DEF StoreTypeOK
  <2>5. play[c] # NoPlay
      BY <2>1 DEF NoPlay
  <2>6. QED
      BY <2>1, <2>3, <2>4, <2>5 DEF StaleBalance
<1>6. QED
    BY <1>3, <1>4, <1>5, BalanceWriters

\* The balance is wrong only by what a stale copy overwrote.
THEOREM DriftHasOneCause == Spec => DriftNeedsStaleCommit
<1>1. IInv /\ [Next]_vars => [\A u \in Users : Drift(u)' # Drift(u) => StaleBalance(u)]_vars
    BY StepDrift
<1>2. QED
    BY <1>1, Invariance, PTL DEF Spec, DriftNeedsStaleCommit

\* A bet that is new after a step is of a call that was about to stake it.
LEMMA NewBets ==
    ASSUME IInv, [Next]_vars, NEW b \in BetIds, ~Placed(b), Placed(b)'
    PROVE  \E c \in Callers : /\ play[c].at = "stake"
                              /\ bet'[b].user = play[c].user /\ bet'[b].round = play[c].round
<1>1. BetsTypeOK /\ LosingInRound
    BY DEF IInv, TypeOK
<1>2. bet'[b] # bet[b]
    BY DEF Placed
<1>3. ASSUME NEW d \in BetIds, MarkLost(d) PROVE FALSE
    BY <1>1, <1>2, <1>3 DEF MarkLost, LosingInRound, BetsTypeOK, Placed
<1>4. ASSUME NEW c \in Callers, PayOut(c) PROVE FALSE
  <2>1. play[c].bet \in BetIds /\ Placed(play[c].bet)
      BY <1>1, <1>4, PlayShape DEF PayOut, Cashing, IInv, CashoutsNameBets
  <2>2. bet' = [bet EXCEPT ![play[c].bet] =
           [bet[play[c].bet] EXCEPT !.status = "won", !.cashoutMultiplier = play[c].multiplier]]
      BY <1>1, <1>4, <2>1 DEF PayOut, BetsTypeOK
  <2>3. QED
      BY <1>1, <1>2, <2>1, <2>2 DEF BetsTypeOK
<1>5. ASSUME NEW c \in Callers, StakeBet(c)
      PROVE  /\ play[c].at = "stake"
             /\ bet'[b].user = play[c].user /\ bet'[b].round = play[c].round
    BY <1>1, <1>2, <1>5 DEF StakeBet, BetsTypeOK
<1>6. QED
    BY <1>2, <1>3, <1>4, <1>5, BetWriters

\* A placed bet stays the only one when no call is left to stake another.
LEMMA StepSecondBet ==
    ASSUME IInv, [Next]_vars, NEW u \in Users, NEW n \in RoundNumbers, BetIsPlaced(u, n)
    PROVE  BetIsPlaced(u, n)' /\ BetsOf(u, n)' = BetsOf(u, n)
<1>1. BetsTypeOK
    BY DEF IInv, TypeOK
<1>2. ASSUME NEW b \in BetsOf(u, n) PROVE b \in BetsOf(u, n)'
    BY <1>2, BetsStay DEF BetsOf, BetsKept, Placed
<1>3. ASSUME NEW b \in BetsOf(u, n)' PROVE b \in BetsOf(u, n)
  <2>1. b \in BetIds /\ Placed(b)' /\ bet'[b].user = u /\ bet'[b].round = n
      BY <1>3 DEF BetsOf, Placed
  <2>2. Placed(b)
      BY <2>1, NewBets DEF BetIsPlaced
  <2>3. QED
      BY <2>1, <2>2, BetsStay DEF BetsKept, BetsOf, Placed
<1>4. BetsOf(u, n)' = BetsOf(u, n)
    BY <1>2, <1>3
<1>5. ASSUME NEW c \in Callers, play'[c].at = "stake", play'[c].user = u, play'[c].round = n
      PROVE  FALSE
  <2>1. CASE play'[c] = play[c]
      BY <1>5, <2>1 DEF BetIsPlaced
  <2>2. CASE play'[c] = NoPlay
      BY <1>5, <2>2 DEF NoPlay
  <2>3. CASE PlaceStep(c)
      BY <1>1, <1>5, <2>2, <2>3, PlaceMoves DEF BetIsPlaced
  <2>4. CASE CashoutStep(c)
      BY <1>1, <1>5, <2>2, <2>4, CashoutMoves
  <2>5. ASSUME NEW b, NEW m, CallCashout(c, b, m) PROVE FALSE
      BY <1>1, <1>5, <2>5 DEF CallCashout, BetsTypeOK
  <2>6. CASE SocketCashout(c) \/ RestCashout(c)
      BY <2>5, <2>6 DEF SocketCashout, RestCashout
  <2>7. CASE c \in Sweeps /\ CashOutNext(c)
      BY <2>5, <2>7 DEF CashOutNext
  <2>8. QED
      BY <2>1, <2>2, <2>3, <2>4, <2>6, <2>7, PlayMoves
<1>6. QED
    BY <1>4, <1>5 DEF BetIsPlaced

\* Once the calls that looked for a bet before the first was staked are over, the
\* bet is the player's only one in the round for good.
THEOREM OneBetPerRound == Spec => NoSecondBet
<1>1. IInv /\ [Next]_vars =>
         [\A u \in Users, n \in RoundNumbers :
            BetIsPlaced(u, n) => /\ BetIsPlaced(u, n)'
                                 /\ BetsOf(u, n)' = BetsOf(u, n)]_vars
    BY StepSecondBet
<1>2. QED
    BY <1>1, Invariance, PTL DEF Spec, NoSecondBet

\* Only active bets are listed by a crash.
LEMMA SettledBetsUnlisted ==
    ASSUME [Next]_vars, NEW b \in BetIds, bet[b].status # "active", b \notin activeBets
    PROVE  b \notin activeBets'
<1>1. CASE UNCHANGED activeBets
    BY <1>1
<1>2. CASE ListActiveBets
    BY <1>2 DEF ListActiveBets, ActiveIn
<1>3. CASE Restart \/ \E d \in BetIds : MarkLost(d)
    BY <1>3 DEF Restart, MarkLost
<1>4. UNCHANGED activeBets \/ ListActiveBets \/ Restart \/ \E d \in BetIds : MarkLost(d)
  <2>1. ASSUME LoopStep PROVE UNCHANGED activeBets \/ ListActiveBets
      BY <2>1 DEF LoopStep, StartWaiting, OpenRound, TakeOff, Launch, Tick, RecordCrash,
         FinishRound, inMemory
  <2>2. ASSUME NEW s \in Sweeps, SweepNext(s) PROVE UNCHANGED activeBets
      BY <2>2 DEF SweepNext, SweepStep, FindCandidates, CashOutNext, EndSweep, engineVars, loopVars
  <2>3. QED
      BY <2>1, <2>2 DEF Next, Running, EngineNext, LoseNext, PlayNext, AbortNext, vars,
         engineVars, loopVars
<1>5. QED
    BY <1>1, <1>2, <1>3, <1>4

\* No write reaches a bet that is over, and no cashout gets past its row.
LEMMA StepSettledBet ==
    ASSUME IInv, [Next]_vars, NEW b \in BetIds, BetIsOver(b)
    PROVE  BetIsOver(b)' /\ bet'[b] = bet[b]
<1>1. BetsTypeOK
    BY DEF IInv, TypeOK
<1>2. bet[b].status # "active" /\ bet[b] # NoBet
    BY DEF BetIsOver, NoBet
<1>3. bet'[b] = bet[b]
  <2>1. ASSUME NEW d \in BetIds, MarkLost(d) PROVE bet'[b] = bet[b]
      BY <1>1, <2>1 DEF MarkLost, BetIsOver, BetsTypeOK
  <2>2. ASSUME NEW c \in Callers, StakeBet(c) PROVE bet'[b] = bet[b]
      BY <1>1, <1>2, <2>2 DEF StakeBet, BetsTypeOK
  <2>3. ASSUME NEW c \in Callers, PayOut(c) PROVE bet'[b] = bet[b]
    <3>1. play[c].bet # b
        BY <2>3 DEF PayOut, BetIsOver
    <3>2. QED
        BY <1>1, <2>3, <3>1 DEF PayOut, BetsTypeOK
  <2>4. QED
      BY <2>1, <2>2, <2>3, BetWriters
<1>4. b \notin activeBets'
    BY <1>2, SettledBetsUnlisted DEF BetIsOver
<1>5. ASSUME NEW c \in Callers, play'[c].at \in {"round", "winner", "payout"}, play'[c].bet = b
      PROVE  FALSE
  <2>1. CASE play'[c] = play[c]
      BY <1>5, <2>1 DEF BetIsOver
  <2>2. CASE play'[c] = NoPlay
      BY <1>5, <2>2 DEF NoPlay
  <2>3. CASE PlaceStep(c)
      BY <1>1, <1>5, <2>2, <2>3, PlaceMoves
  <2>4. CASE CashoutStep(c)
    <3>1. play[c].bet = b /\ play[c].at \in {"bet", "round", "winner"}
        BY <1>1, <1>5, <2>2, <2>4, CashoutMoves
    <3>2. play[c].at = "bet"
        BY <3>1 DEF BetIsOver
    <3>3. ReadBet(c)
        BY <2>4, <3>2 DEF CashoutStep, ReadBetRound, ReadWinner, PayOut
    <3>4. End(c)
        BY <1>2, <3>1, <3>3 DEF ReadBet
    <3>5. QED
        BY <1>1, <2>2, <3>4, EndMoves
  <2>5. ASSUME NEW d, NEW m, CallCashout(c, d, m) PROVE FALSE
      BY <1>1, <1>5, <2>5 DEF CallCashout, BetsTypeOK
  <2>6. CASE SocketCashout(c) \/ RestCashout(c)
      BY <2>5, <2>6 DEF SocketCashout, RestCashout
  <2>7. CASE c \in Sweeps /\ CashOutNext(c)
      BY <2>5, <2>7 DEF CashOutNext
  <2>8. QED
      BY <2>1, <2>2, <2>3, <2>4, <2>6, <2>7, PlayMoves
<1>6. BetIsOver(b)'
    BY <1>3, <1>4, <1>5 DEF BetIsOver
<1>7. QED
    BY <1>3, <1>6

\* A settled bet that no overlapping cashout or crash still holds is never paid
\* again and never lost again: the races that overwrite it are the complete list.
THEOREM SettledForGood == Spec => SettledBetsStay
<1>1. IInv /\ [Next]_vars =>
         [\A b \in BetIds : BetIsOver(b) => BetIsOver(b)' /\ bet'[b] = bet[b]]_vars
    BY StepSettledBet
<1>2. QED
    BY <1>1, Invariance, PTL DEF Spec, SettledBetsStay

-----------------------------------------------------------------------------
(* Game implements RoundBook *)

\* Every round commits to a seed of its own, and the one that startWaiting has
\* just chosen is not among them.
SeedsOfTheirOwn ==
    /\ \A n \in Created : round[n].serverSeedHash \in 1 .. serverSeed
    /\ phase = "creating" => \A n \in Created : round[n].serverSeedHash < serverSeed
    /\ \A m, n \in Created :
           m # n => round[m].serverSeedHash # round[n].serverSeedHash

\* The round that the loop is in is the last one.
LoopInLastRound ==
    phase \in {"countdown", "launching", "ticking", "crashing", "listing", "losing"} =>
        Created = 1 .. currentRound

BookInv == SeedsOfTheirOwn /\ LoopInLastRound

\* What opening a round writes.
LEMMA OpenWrites ==
    ASSUME RoundsTypeOK, OpenRound
    PROVE  \E n \in RoundNumbers :
             /\ Created = 1 .. n - 1 /\ n \notin Created /\ Created' = 1 .. n
             /\ round[n] = NoRound /\ currentRound' = n
             /\ round'[n] = [status |-> "waiting", serverSeedHash |-> serverSeed,
                             serverSeed |-> NotRevealed]
             /\ \A m \in RoundNumbers : m # n => round'[m] = round[m]
             /\ phase = "creating" /\ phase' = "countdown" /\ serverSeed' = serverSeed
<1>1. PICK n \in RoundNumbers : CreateRound(n) /\ currentRound' = n
    BY DEF OpenRound
<1>2. Created = 1 .. n - 1 /\ n \notin Created
    BY <1>1 DEF CreateRound, RoundNumbers
<1>3. /\ round'[n] = [status |-> "waiting", serverSeedHash |-> serverSeed,
                      serverSeed |-> NotRevealed]
      /\ \A m \in RoundNumbers : m # n => round'[m] = round[m]
    BY <1>1 DEF CreateRound, RoundsTypeOK
<1>4. round'[n] # NoRound
  <2>1. round'[n].status = "waiting" /\ NoRound.status = "absent"
      BY <1>3 DEF NoRound
  <2>2. QED
      BY <2>1
<1>5. Created' = Created \cup {n}
    BY <1>3, <1>4 DEF Created
<1>6. 1 .. n = (1 .. n - 1) \cup {n}
    BY DEF RoundNumbers
<1>7. QED
    BY <1>1, <1>2, <1>3, <1>5, <1>6 DEF OpenRound, Created

\* What taking off and crashing write.
LEMMA FlightWrites ==
    ASSUME RoundsTypeOK, LoopInRound, Launch \/ RecordCrash
    PROVE  /\ currentRound \in Created /\ Created' = Created
           /\ round[currentRound] \in RoundRows
           /\ \A m \in RoundNumbers : m # currentRound => round'[m] = round[m]
           /\ \A m \in Created : round'[m].serverSeedHash = round[m].serverSeedHash
           /\ Launch => round'[currentRound] = [round[currentRound] EXCEPT !.status = "flying"]
           /\ RecordCrash => round'[currentRound] =
                [round[currentRound] EXCEPT !.status = "crashed", !.serverSeed = serverSeed]
           /\ UNCHANGED <<serverSeed, currentRound>>
<1>1. currentRound \in RoundNumbers /\ round[currentRound] \in RoundRows
    BY CurrentRoundIsRow DEF Launch, RecordCrash
<1>2. /\ \A m \in RoundNumbers : m # currentRound => round'[m] = round[m]
      /\ Launch => round'[currentRound] = [round[currentRound] EXCEPT !.status = "flying"]
      /\ RecordCrash => round'[currentRound] =
           [round[currentRound] EXCEPT !.status = "crashed", !.serverSeed = serverSeed]
      /\ UNCHANGED <<serverSeed, currentRound>>
    BY <1>1 DEF Launch, RecordCrash, MarkFlying, MarkCrashed, RoundsTypeOK, inMemory
<1>3. /\ round'[currentRound].status \in {"flying", "crashed"}
      /\ round'[currentRound].serverSeedHash = round[currentRound].serverSeedHash
    BY <1>1, <1>2 DEF RoundRows
<1>4. round[currentRound] # NoRound /\ round'[currentRound] # NoRound
  <2>1. NoRound.status = "absent" /\ round[currentRound].status # "absent"
      BY <1>1 DEF NoRound, RoundRows
  <2>2. QED
      BY <1>3, <2>1
<1>5. currentRound \in Created /\ Created' = Created
    BY <1>1, <1>2, <1>4 DEF Created
<1>6. \A m \in Created : round'[m].serverSeedHash = round[m].serverSeedHash
    BY <1>2, <1>3 DEF Created
<1>7. QED
    BY <1>1, <1>2, <1>5, <1>6

\* The steps that leave the rounds as they are.
LEMMA RoundsLeft ==
    ASSUME [Next]_vars
    PROVE  \/ OpenRound
           \/ Launch \/ RecordCrash
           \/ UNCHANGED round /\ (StartWaiting \/ Restart)
           \/ /\ UNCHANGED <<round, serverSeed>>
              /\ UNCHANGED <<phase, currentRound>>
                 \/ phase' = "idle"
                 \/ /\ UNCHANGED currentRound
                    /\ phase \in {"countdown", "ticking", "listing"} /\ phase' # "creating"
<1>1. CASE EngineNext
    BY <1>1 DEF EngineNext, LoopStep, StartWaiting, TakeOff, Tick, ListActiveBets, FinishRound,
       roundsVars, inMemory
<1>2. CASE UNCHANGED <<round, serverSeed, phase, currentRound>>
    BY <1>2
<1>3. CASE Restart
    BY <1>3 DEF Restart
<1>4. EngineNext \/ Restart \/ UNCHANGED <<round, serverSeed, phase, currentRound>>
    BY DEF Next, Running, LoseNext, MarkLost, SweepNext, SweepStep, FindCandidates, CashOutNext,
       EndSweep, PlayNext, AbortNext, vars, roundsVars, engineVars, loopVars
<1>5. QED
    BY <1>1, <1>2, <1>3, <1>4

LEMMA NextKeepsOwnSeeds ==
    ASSUME IInv, BookInv, [Next]_vars
    PROVE  SeedsOfTheirOwn'
<1>1. RoundsTypeOK /\ LoopInRound /\ SeedsOfTheirOwn /\ serverSeed \in Nat
    BY DEF IInv, TypeOK, BookInv, RoundsTypeOK
<1>2. \A n \in Created : round[n].serverSeedHash \in 1 .. serverSeed
    BY <1>1 DEF SeedsOfTheirOwn
<1>3. CASE OpenRound
  <2>1. PICK n \in RoundNumbers :
             /\ Created' = Created \cup {n} /\ n \notin Created
             /\ round'[n].serverSeedHash = serverSeed
             /\ \A m \in RoundNumbers : m # n => round'[m] = round[m]
             /\ phase = "creating" /\ phase' = "countdown" /\ serverSeed' = serverSeed
    <3>1. PICK n \in RoundNumbers :
             /\ Created = 1 .. n - 1 /\ n \notin Created /\ Created' = 1 .. n
             /\ round'[n] = [status |-> "waiting", serverSeedHash |-> serverSeed,
                             serverSeed |-> NotRevealed]
             /\ \A m \in RoundNumbers : m # n => round'[m] = round[m]
             /\ phase = "creating" /\ phase' = "countdown" /\ serverSeed' = serverSeed
        BY <1>1, <1>3, OpenWrites
    <3>2. 1 .. n = (1 .. n - 1) \cup {n}
        BY DEF RoundNumbers
    <3>3. QED
        BY <3>1, <3>2
  <2>2. \A m \in Created : /\ round[m].serverSeedHash < serverSeed
                           /\ round'[m].serverSeedHash = round[m].serverSeedHash
      BY <1>1, <2>1 DEF SeedsOfTheirOwn, Created
  <2>3. serverSeed \in 1 .. serverSeed
      BY <1>1 DEF RoundsTypeOK, NotRevealed
  <2>4. \A m \in Created' : round'[m].serverSeedHash \in 1 .. serverSeed'
      BY <1>2, <2>1, <2>2, <2>3
  <2>5. ASSUME NEW k \in Created', NEW m \in Created', k # m
        PROVE  round'[k].serverSeedHash # round'[m].serverSeedHash
    <3>1. CASE k \in Created /\ m \in Created
        BY <1>1, <2>2, <2>5, <3>1 DEF SeedsOfTheirOwn
    <3>2. CASE k \in Created /\ m = n
        BY <1>1, <1>2, <2>1, <2>2, <3>2
    <3>3. CASE k = n /\ m \in Created
        BY <1>1, <1>2, <2>1, <2>2, <3>3
    <3>4. QED
        BY <2>1, <2>5, <3>1, <3>2, <3>3
  <2>6. QED
      BY <2>1, <2>4, <2>5 DEF SeedsOfTheirOwn
<1>4. CASE Launch \/ RecordCrash
  <2>1. /\ Created' = Created /\ serverSeed' = serverSeed /\ phase' # "creating"
        /\ \A m \in Created : round'[m].serverSeedHash = round[m].serverSeedHash
      BY <1>1, <1>4, FlightWrites DEF Launch, RecordCrash
  <2>2. QED
      BY <1>1, <2>1 DEF SeedsOfTheirOwn
<1>5. CASE UNCHANGED round /\ (StartWaiting \/ Restart)
  <2>1. serverSeed' = serverSeed + 1 /\ Created' = Created
      BY <1>5 DEF StartWaiting, RotateServerSeed, Restart, Created
  <2>2. \A n \in Created : /\ round[n].serverSeedHash \in 1 .. serverSeed'
                           /\ round[n].serverSeedHash < serverSeed'
      BY <1>1, <1>2, <2>1
  <2>3. QED
      BY <1>1, <1>5, <2>1, <2>2 DEF SeedsOfTheirOwn
<1>6. CASE UNCHANGED <<round, serverSeed>> /\ (UNCHANGED phase \/ phase' # "creating")
    BY <1>1, <1>6 DEF SeedsOfTheirOwn, Created
<1>7. QED
    BY <1>3, <1>4, <1>5, <1>6, RoundsLeft

LEMMA NextKeepsLastRound ==
    ASSUME IInv, BookInv, [Next]_vars
    PROVE  LoopInLastRound'
<1>1. RoundsTypeOK /\ LoopInRound /\ LoopInLastRound
    BY DEF IInv, TypeOK, BookInv
<1>2. CASE OpenRound
    BY <1>1, <1>2, OpenWrites DEF LoopInLastRound
<1>3. CASE Launch \/ RecordCrash
  <2>1. Created' = Created /\ currentRound' = currentRound
      BY <1>1, <1>3, FlightWrites
  <2>2. QED
      BY <1>1, <1>3, <2>1 DEF LoopInLastRound, Launch, RecordCrash
<1>4. CASE StartWaiting \/ Restart \/ phase' = "idle"
    BY <1>4 DEF StartWaiting, Restart, LoopInLastRound
<1>5. CASE /\ UNCHANGED <<round, currentRound>>
           /\ UNCHANGED phase \/ phase \in {"countdown", "ticking", "listing"}
    BY <1>1, <1>5 DEF LoopInLastRound, Created
<1>6. QED
    BY <1>2, <1>3, <1>4, <1>5, RoundsLeft

\* Each seed is one round's only, and the loop is in the last round.
LEMMA BookInvariance == Spec => []BookInv
<1>1. Init => BookInv
    BY DEF Init, RoundsInit, EngineInit, BookInv, SeedsOfTheirOwn, LoopInLastRound, Created
<1>2. IInv /\ BookInv /\ [Next]_vars => BookInv'
    BY NextKeepsOwnSeeds, NextKeepsLastRound DEF BookInv
<1>3. QED
    BY <1>1, <1>2, Invariance, PTL DEF Spec

\* The seed of a round that has not crashed was published with no other round,
\* though every round takes the process's seed and a restart forgets which rounds
\* it was used for: nobody could compute the crash point while betting.
SeedsStaySecret ==
    \A n \in Created : round[n].status # "crashed" =>
        \A m \in Created : round[m].serverSeed # round[n].serverSeedHash

\* The seed of a round is unknown until the round has crashed, also where a
\* restart left the round behind and its process's seed with it.
THEOREM SeedsSecret == Spec => []SeedsStaySecret
<1>1. ASSUME IInv, BookInv PROVE SeedsStaySecret
  <2>1. SUFFICES ASSUME NEW n \in Created, round[n].status # "crashed", NEW m \in Created
                 PROVE  round[m].serverSeed # round[n].serverSeedHash
      BY DEF SeedsStaySecret
  <2>2. /\ round[n].serverSeedHash \in 1 .. serverSeed
        /\ m # n => round[m].serverSeedHash # round[n].serverSeedHash
      BY <1>1, <2>1 DEF BookInv, SeedsOfTheirOwn
  <2>3. IF round[m].status = "crashed" THEN round[m].serverSeed = round[m].serverSeedHash
                                       ELSE round[m].serverSeed = 0
      BY <1>1, <2>1 DEF IInv, SeedRevealedAfterCrash, Verifies, NotRevealed
  <2>4. round[n].serverSeedHash # 0
      BY <1>1, <2>2 DEF IInv, TypeOK, RoundsTypeOK
  <2>5. QED
      BY <2>1, <2>2, <2>3, <2>4
<1>2. QED
    BY <1>1, Invariance, BookInvariance, PTL

\* Where no row changes, the book does not either.
LEMMA BookStutters ==
    ASSUME UNCHANGED round
    PROVE  UNCHANGED Book!bookVars
BY DEF Book!bookVars, Commitment, Published, Created

\* The book's columns, of the rows that exist and of the others.
LEMMA BookColumns ==
    \A n \in RoundNumbers :
        /\ Commitment(n) = IF n \in Created THEN round[n].serverSeedHash ELSE 0
        /\ Commitment(n)' = IF n \in Created' THEN round'[n].serverSeedHash ELSE 0
        /\ Published(n) = IF n \in Created THEN round[n].serverSeed ELSE 0
        /\ Published(n)' = IF n \in Created' THEN round'[n].serverSeed ELSE 0
BY DEF Commitment, Published, Created

\* The rows that RoundBook counts are those that exist.
LEMMA LatestIsLast ==
    ASSUME RoundsTypeOK, NEW n \in 0 .. MaxRounds, Created = 1 .. n
    PROVE  Book!Latest(n)
<1>1. SUFFICES ASSUME NEW m \in 1 .. MaxRounds
               PROVE  round[m].status # "absent" <=> m <= n
    BY DEF Book!Latest, Book!Numbers, RoundNumbers
<1>2. m \in Created <=> round[m].status # "absent"
    BY RoundShape DEF Created, RoundNumbers
<1>3. m \in 1 .. n <=> m <= n
    OBVIOUS
<1>4. QED
    BY <1>2, <1>3

LEMMA OpenKeepsBook ==
    ASSUME RoundsTypeOK, SeedsOfTheirOwn, OpenRound
    PROVE  Book!Next
<1>1. PICK n \in RoundNumbers :
         /\ Created = 1 .. n - 1 /\ n \notin Created /\ Created' = 1 .. n
         /\ round'[n] = [status |-> "waiting", serverSeedHash |-> serverSeed,
                         serverSeed |-> NotRevealed]
         /\ \A m \in RoundNumbers : m # n => round'[m] = round[m]
         /\ phase = "creating"
    BY OpenWrites
<1>2. Created' = Created \cup {n}
  <2>1. 1 .. n = (1 .. n - 1) \cup {n}
      BY DEF RoundNumbers
  <2>2. QED
      BY <1>1, <2>1
<1>3. Book!Latest(n - 1)
  <2> DEFINE before == n - 1
  <2>1. n \in 1 .. MaxRounds /\ MaxRounds \in Nat
      BY RoundsAssumption DEF RoundNumbers, RoundsAssumption
  <2>2. before \in 0 .. MaxRounds
      BY <2>1
  <2>3. Created = 1 .. before
      BY <1>1
  <2> HIDE DEF before
  <2>4. Book!Latest(before)
      BY <2>2, <2>3, LatestIsLast
  <2>5. QED
      BY <2>4 DEF before
<1>4. [m \in RoundNumbers |-> round'[m].status] =
         [[m \in RoundNumbers |-> round[m].status] EXCEPT ![n] = "waiting"]
  <2>1. round'[n].status = "waiting"
      BY <1>1
  <2>2. \A m \in RoundNumbers : m # n => round'[m].status = round[m].status
      BY <1>1
  <2>3. QED
      BY <2>1, <2>2
<1>5. /\ Commitment(n)' = serverSeed /\ Published(n)' = 0 /\ Published(n) = 0
      /\ \A m \in RoundNumbers : m # n => /\ Commitment(m)' = Commitment(m)
                                          /\ Published(m)' = Published(m)
    BY <1>1, <1>2, BookColumns DEF NotRevealed
<1>6. serverSeed \in Nat \ {0} /\ \A m \in RoundNumbers : Commitment(m) # serverSeed
  <2>1. serverSeed \in Nat \ {0}
      BY DEF RoundsTypeOK, NotRevealed
  <2>2. \A m \in Created : round[m].serverSeedHash < serverSeed /\ round[m].serverSeedHash \in 1 .. serverSeed
      BY <1>1 DEF SeedsOfTheirOwn
  <2>3. QED
      BY <2>1, <2>2, BookColumns
<1>7. round[n].status = "absent" /\ round'[n].status = "waiting"
    BY <1>1 DEF NoRound, Created
<1>8. Book!Open(n)
    BY <1>3, <1>4, <1>5, <1>6, <1>7 DEF Book!Open, Book!Numbers, RoundNumbers
<1>9. [m \in RoundNumbers |-> round'[m].status] # [m \in RoundNumbers |-> round[m].status]
    BY <1>7
<1>10. QED
    BY <1>8, <1>9 DEF Book!Next, Book!Numbers, RoundNumbers

LEMMA FlightKeepsBook ==
    ASSUME IInv, LoopInLastRound, Launch \/ RecordCrash
    PROVE  Book!Next
<1>1. RoundsTypeOK /\ LoopInRound /\ SeedRevealedAfterCrash
    BY DEF IInv, TypeOK
<1>2. PICK n \in RoundNumbers :
      /\ n = currentRound /\ n \in Created /\ Created' = Created
      /\ round[n] \in RoundRows
      /\ \A m \in RoundNumbers : m # n => round'[m] = round[m]
      /\ \A m \in Created : round'[m].serverSeedHash = round[m].serverSeedHash
    BY <1>1, FlightWrites DEF Created
<1>3. Book!Latest(n)
  <2>1. Created = 1 .. n /\ n \in 0 .. MaxRounds
      BY <1>2 DEF LoopInLastRound, Launch, RecordCrash, RoundNumbers
  <2>2. QED
      BY <1>1, <2>1, LatestIsLast
<1>4. \A m \in RoundNumbers : Commitment(m)' = Commitment(m)
    BY <1>2, BookColumns
<1>5. CASE Launch
  <2>1. /\ round[n].status = "waiting" /\ round'[n].status = "flying"
        /\ round'[n].serverSeed = round[n].serverSeed
      BY <1>1, <1>2, <1>5, FlightWrites DEF RoundRows, LoopInRound, Launch
  <2>2. [m \in RoundNumbers |-> round'[m].status] =
           [[m \in RoundNumbers |-> round[m].status] EXCEPT ![n] = "flying"]
      BY <1>2, <2>1
  <2>3. \A m \in RoundNumbers : Published(m)' = Published(m)
      BY <1>2, <2>1, BookColumns
  <2>4. Book!TakeOff(n)
      BY <1>2, <1>3, <1>4, <2>1, <2>2, <2>3 DEF Book!TakeOff
  <2>5. [m \in RoundNumbers |-> round'[m].status] # [m \in RoundNumbers |-> round[m].status]
      BY <1>2, <2>1
  <2>6. QED
      BY <1>2, <2>4, <2>5 DEF Book!Next, Book!Numbers, RoundNumbers
<1>6. CASE RecordCrash
  <2>1. /\ round[n].status = "flying" /\ round'[n].status = "crashed"
        /\ round'[n].serverSeed = round[n].serverSeedHash
      BY <1>1, <1>2, <1>6, FlightWrites DEF RoundRows, LoopInRound, RecordCrash
  <2>2. [m \in RoundNumbers |-> round'[m].status] =
           [[m \in RoundNumbers |-> round[m].status] EXCEPT ![n] = "crashed"]
      BY <1>2, <2>1
  <2>3. /\ Published(n)' = Commitment(n)
        /\ \A m \in RoundNumbers : m # n => Published(m)' = Published(m)
      BY <1>2, <2>1, BookColumns
  <2>4. [m \in RoundNumbers |-> Published(m)'] =
           [[m \in RoundNumbers |-> Published(m)] EXCEPT ![n] = Commitment(n)]
      BY <1>2, <2>3
  <2>5. Book!Crash(n)
      BY <1>2, <1>3, <1>4, <2>1, <2>2, <2>4 DEF Book!Crash
  <2>6. [m \in RoundNumbers |-> round'[m].status] # [m \in RoundNumbers |-> round[m].status]
      BY <1>2, <2>1
  <2>7. QED
      BY <1>2, <2>5, <2>6 DEF Book!Next, Book!Numbers, RoundNumbers
<1>7. QED
    BY <1>5, <1>6

\* The engine implements RoundBook, whenever it is restarted.
THEOREM GameKeepsRoundBook == Spec => KeepsRoundBook
<1>1. Init => Book!Init
    BY DEF Init, RoundsInit, Book!Init, Book!Blank, Book!Numbers, RoundNumbers, Commitment,
       Published, Created, NoRound
<1>2. IInv /\ BookInv /\ [Next]_vars => [Book!Next]_(Book!bookVars)
  <2>1. SUFFICES ASSUME IInv, BookInv, [Next]_vars PROVE [Book!Next]_(Book!bookVars)
      OBVIOUS
  <2>2. CASE OpenRound
      BY <2>1, <2>2, OpenKeepsBook DEF IInv, TypeOK, BookInv
  <2>3. CASE Launch \/ RecordCrash
      BY <2>1, <2>3, FlightKeepsBook DEF BookInv
  <2>4. CASE UNCHANGED round
      BY <2>4, BookStutters
  <2>5. QED
      BY <2>1, <2>2, <2>3, <2>4, RoundsLeft
<1>3. QED
    BY <1>1, <1>2, Invariance, BookInvariance, PTL DEF Spec, KeepsRoundBook, Book!Spec

=============================================================================
