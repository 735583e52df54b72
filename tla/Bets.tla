-------------------------------- MODULE Bets --------------------------------
(***************************************************************************)
(* BetsService: placeBet and cashout, the rows of `bets`, and the balances  *)
(* they change.  A play is one call of either; calls come from players and  *)
(* from the engine's auto-cashout sweeps, and each walks through the awaits *)
(* of its function with what it has read so far.                            *)
(***************************************************************************)
EXTENDS Store, Rounds

CONSTANTS
    BetIds,     \* ids that bet.create may hand out
    Plays,      \* calls made for players that may be under way at once
    Sweeps      \* auto-cashout sweeps that may be under way at once

ASSUME BetsAssumption == Plays \cap Sweeps = {}

VARIABLES
    bet,        \* rows of bets, by id
    play        \* per call: NoPlay, or what it holds

betsVars == <<bet, play>>

Callers == Plays \cup Sweeps

NoBet == [status |-> "absent"]

NoPlay == [at |-> "idle"]

NoAuto == 0             \* autoCashout is null

NotCashed == 0          \* cashoutMultiplier is null

BetRows == [user : Users, round : RoundNumbers, amount : Amounts,
            autoCashout : Levels \cup {NoAuto}, cashoutMultiplier : Levels \cup {NotCashed},
            status : {"active", "won", "lost"}]

\* placeBet waiting for the user, for the existing bet, for its batch.
Placing == [at : {"player", "existing", "stake"}, user : Users, round : RoundNumbers,
            amount : Amounts, autoCashout : Levels \cup {NoAuto}, seen : Decimals]

\* cashout waiting for the bet, for its round, for the user, for its batch.
Cashing == [at : {"bet", "round", "winner", "payout"}, bet : BetIds,
            multiplier : Levels, seen : Decimals]

BetsTypeOK ==
    /\ bet \in [BetIds -> BetRows \cup {NoBet}]
    /\ play \in [Callers -> Placing \cup Cashing \cup {NoPlay}]

BetsInit ==
    /\ bet = [b \in BetIds |-> NoBet]
    /\ play = [c \in Callers |-> NoPlay]

Advance(c, at) == play' = [play EXCEPT ![c].at = at]

End(c) == play' = [play EXCEPT ![c] = NoPlay]

-----------------------------------------------------------------------------
(* placeBet *)

\* round.findUnique: the round must be waiting.  An auto-cashout is above 1.00.
ReadRound(c) ==
    /\ play[c] = NoPlay
    /\ \E u \in Users, n \in RoundNumbers, a \in Amounts, auto \in (Levels \ {1}) \cup {NoAuto} :
        /\ round[n].status = "waiting"
        /\ play' = [play EXCEPT ![c] = [at |-> "player", user |-> u, round |-> n,
                                        amount |-> a, autoCashout |-> auto, seen |-> 0]]
    /\ UNCHANGED <<bet, storeVars>>

\* user.findUnique: not suspended, and funds for the stake.
ReadPlayer(c) ==
    /\ play[c].at = "player"
    /\ LET u == play[c].user
       IN  IF accountFrozen[u] \/ balance[u] < play[c].amount
           THEN End(c)
           ELSE play' = [play EXCEPT ![c].at = "existing", ![c].seen = balance[u]]
    /\ UNCHANGED <<bet, storeVars>>

BetsOf(u, n) == {b \in BetIds : /\ bet[b] # NoBet
                                /\ bet[b].user = u
                                /\ bet[b].round = n}

\* bet.findFirst: one bet per round.
FindExisting(c) ==
    /\ play[c].at = "existing"
    /\ IF BetsOf(play[c].user, play[c].round) = {} THEN Advance(c, "stake") ELSE End(c)
    /\ UNCHANGED <<bet, storeVars>>

\* Mutation of StakeBet: the stake is taken from the balance as it is by now.
StakeBetDecrementing(c) ==
    LET p == play[c]
    IN  /\ p.at = "stake"
        /\ \E b \in BetIds :
            /\ bet[b] = NoBet
            /\ bet' = [bet EXCEPT ![b] =
                   [user |-> p.user, round |-> p.round, amount |-> p.amount,
                    autoCashout |-> p.autoCashout, cashoutMultiplier |-> NotCashed,
                    status |-> "active"]]
        /\ Post(p.user, -p.amount, balance[p.user] - p.amount)
        /\ End(c)
        /\ UNCHANGED accountFrozen

\* Mutation of StakeBet: the bet is booked in the latest round.
StakeBetInLatest(c) ==
    LET p == play[c]
    IN  /\ p.at = "stake"
        /\ \E b \in BetIds, n \in Created :
            /\ bet[b] = NoBet /\ \A m \in Created : m <= n
            /\ bet' = [bet EXCEPT ![b] =
                   [user |-> p.user, round |-> n, amount |-> p.amount,
                    autoCashout |-> p.autoCashout, cashoutMultiplier |-> NotCashed,
                    status |-> "active"]]
        /\ Post(p.user, -p.amount, p.seen - p.amount)
        /\ End(c)
        /\ UNCHANGED accountFrozen

\* The batch: the bet, the debited balance and the `bet` transaction.
StakeBet(c) ==
    LET p == play[c]
    IN  /\ p.at = "stake"
        /\ \E b \in BetIds :
            /\ bet[b] = NoBet
            /\ bet' = [bet EXCEPT ![b] =
                   [user |-> p.user, round |-> p.round, amount |-> p.amount,
                    autoCashout |-> p.autoCashout, cashoutMultiplier |-> NotCashed,
                    status |-> "active"]]
        /\ Post(p.user, -p.amount, p.seen - p.amount)
        /\ End(c)
        /\ UNCHANGED accountFrozen

-----------------------------------------------------------------------------
(* cashout *)

\* The call for one's own bet, at the multiplier that the caller read.
CallCashout(c, b, multiplier) ==
    /\ play[c] = NoPlay
    /\ play' = [play EXCEPT ![c] = [at |-> "bet", bet |-> b,
                                    multiplier |-> multiplier, seen |-> 0]]

\* Mutation of ReadBet: a bet of any status is found.
ReadAnyBet(c) ==
    /\ play[c].at = "bet"
    /\ Advance(c, "round")
    /\ UNCHANGED <<bet, storeVars>>

\* bet.findFirst with status active.
ReadBet(c) ==
    /\ play[c].at = "bet"
    /\ IF bet[play[c].bet].status = "active" THEN Advance(c, "round") ELSE End(c)
    /\ UNCHANGED <<bet, storeVars>>

\* The round that include: { round: true } loads with a second query.
ReadBetRound(c) ==
    /\ play[c].at = "round"
    /\ IF round[bet[play[c].bet].round].status = "flying"
       THEN Advance(c, "winner") ELSE End(c)
    /\ UNCHANGED <<bet, storeVars>>

\* user.findUnique: not suspended; the balance the winnings are added to.
ReadWinner(c) ==
    /\ play[c].at = "winner"
    /\ LET u == bet[play[c].bet].user
       IN  IF accountFrozen[u] THEN End(c)
           ELSE play' = [play EXCEPT ![c].at = "payout", ![c].seen = balance[u]]
    /\ UNCHANGED <<bet, storeVars>>

\* Mutation of PayOut: the player is credited the profit, the row says winnings.
PayOutProfit(c) ==
    LET p == play[c]
        winnings == bet[p.bet].amount * p.multiplier
    IN  /\ p.at = "payout"
        /\ bet' = [bet EXCEPT ![p.bet].status = "won",
                              ![p.bet].cashoutMultiplier = p.multiplier]
        /\ Post(bet[p.bet].user, winnings, p.seen + winnings - bet[p.bet].amount)
        /\ End(c)
        /\ UNCHANGED accountFrozen

\* The batch: the bet won, whatever its status is by now, the credited balance
\* and the `win` transaction.
PayOut(c) ==
    LET p == play[c]
        winnings == bet[p.bet].amount * p.multiplier
    IN  /\ p.at = "payout"
        /\ bet' = [bet EXCEPT ![p.bet].status = "won",
                              ![p.bet].cashoutMultiplier = p.multiplier]
        /\ Post(bet[p.bet].user, winnings, p.seen + winnings)
        /\ End(c)
        /\ UNCHANGED accountFrozen

\* A rejected query or an overflowing balance: nothing of the call is written.
AbortPlay(c) ==
    /\ play[c] # NoPlay
    /\ End(c)
    /\ UNCHANGED <<bet, storeVars>>

CashoutStep(c) ==
    \/ ReadBet(c)
    \/ ReadBetRound(c)
    \/ ReadWinner(c)
    \/ PayOut(c)

PlaceStep(c) ==
    \/ ReadRound(c)
    \/ ReadPlayer(c)
    \/ FindExisting(c)
    \/ StakeBet(c)

=============================================================================
