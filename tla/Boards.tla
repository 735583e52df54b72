------------------------------- MODULE Boards -------------------------------
(***************************************************************************)
(* What players are shown of the bets table: the two leaderboards, the      *)
(* profile, their own bets and the round history, each read by queries that *)
(* take no lock.  A reader that needs two queries, or walks from page to    *)
(* page, sees the table at several moments.                                 *)
(*                                                                          *)
(* Bets are kept in the order of created_at.  findMany without orderBy may  *)
(* return rows in any order, and in another one next time.                  *)
(***************************************************************************)
EXTENDS Integers, SequencesExt

CONSTANTS
    Players,
    Payouts,        \* [winnings, cashoutMultiplier] that a cashout may write
    DaysInWeek,     \* 7
    PageSize,       \* the limit of a reader
    MaxBets, MaxDay, MaxRounds  \* bounds: bets, days and crashed rounds

ASSUME BoardsAssumption ==
    /\ IsFiniteSet(Players)
    /\ MaxBets \in Nat /\ MaxDay \in Nat /\ MaxRounds \in Nat
    /\ DaysInWeek \in Nat \ {0}
    /\ PageSize \in Nat \ {0}
    /\ \A p \in Payouts : p.winnings \in Nat /\ p.cashoutMultiplier \in Nat

VARIABLES
    bet,        \* rows of bets, oldest first
    crashed,    \* number of crashed rounds
    today,      \* day 0 is a Sunday
    reader      \* Idle, or what a reader has seen so far

boardsVars == <<bet, crashed, today, reader>>

Idle == [at |-> "idle"]

NoPayout == [winnings |-> 0, cashoutMultiplier |-> 0]

BetRows == [user : Players, createdAt : 0 .. MaxDay, status : {"active", "won", "lost"},
            payout : Payouts \cup {NoPayout}]

Init ==
    /\ bet = <<>>
    /\ crashed = 0
    /\ today = 0
    /\ reader = Idle

-----------------------------------------------------------------------------
(* The table changes *)

PlaceBet ==
    /\ Len(bet) < MaxBets
    /\ \E u \in Players :
        bet' = Append(bet, [user |-> u, createdAt |-> today, status |-> "active",
                            payout |-> NoPayout])
    /\ UNCHANGED <<crashed, today, reader>>

\* cashout, or the crash: updates by id, of a row that was active when read.
Settle(i) ==
    /\ \/ \E p \in Payouts : bet' = [bet EXCEPT ![i].status = "won", ![i].payout = p]
       \/ bet' = [bet EXCEPT ![i].status = "lost"]
    /\ reader' = IF reader.at = "second" /\ bet[i].status = "won"
                 THEN [reader EXCEPT !.resettled = TRUE] ELSE reader
    /\ UNCHANGED <<crashed, today>>

CrashRound ==
    /\ crashed < MaxRounds
    /\ crashed' = crashed + 1
    /\ UNCHANGED <<bet, today, reader>>

NextDay ==
    /\ today < MaxDay
    /\ today' = today + 1
    /\ UNCHANGED <<bet, crashed, reader>>

-----------------------------------------------------------------------------
(* Leaderboards *)

\* Mutation of StartOfWeek: the last seven days.
StartOfSevenDays == today - DaysInWeek

\* The Sunday that today follows.
StartOfWeek == today - (today % DaysInWeek)

\* Won bets of the window.  endOfWeek is the last moment of the Sunday after.
WeeklyBets ==
    {i \in DOMAIN bet : /\ bet[i].status = "won"
                        /\ bet[i].createdAt \in StartOfWeek .. StartOfWeek + DaysInWeek}

\* Mutation of AllTimeBets: the bets of the days before.
AllTimeBetsTillToday ==
    {i \in DOMAIN bet : bet[i].status = "won" /\ bet[i].createdAt < today}

AllTimeBets == {i \in DOMAIN bet : bet[i].status = "won"}

NoEntry == [totalWinnings |-> 0, bestMultiplier |-> 0, roundsWon |-> 0]

\* Mutation of Count: the multiplier is the one of the row that came last.
CountLast(entry, payout) ==
    [totalWinnings |-> entry.totalWinnings + payout.winnings,
     bestMultiplier |-> payout.cashoutMultiplier,
     roundsWon |-> entry.roundsWon + 1]

\* One won bet more for an entry of the board.
Count(entry, payout) ==
    [totalWinnings |-> entry.totalWinnings + payout.winnings,
     bestMultiplier |-> IF payout.cashoutMultiplier > entry.bestMultiplier
                        THEN payout.cashoutMultiplier ELSE entry.bestMultiplier,
     roundsWon |-> entry.roundsWon + 1]

\* The map that weekly and allTime build from rows in the order they arrive.
Tally(order) ==
    FoldLeft(LAMBDA stats, i : [stats EXCEPT ![bet[i].user] = Count(@, bet[i].payout)],
             [u \in Players |-> NoEntry], order)

TallyOf(bets) == Tally(SetToSeq(bets))

Listed(stats) == {u \in Players : stats[u] # NoEntry}

\* The boards that may come of it: sorted by winnings, players with equal
\* winnings in the order of whichever row came first.
Rankings(stats) ==
    {board \in SetToSeqs(Listed(stats)) :
        \A i, j \in DOMAIN board :
            i < j => stats[board[i]].totalWinnings >= stats[board[j]].totalWinnings}

\* getStats of UsersService: the won bets of the profile's user.
ProfileOf(u) ==
    LET won == {i \in DOMAIN bet : bet[i].user = u /\ bet[i].status = "won"}
        multipliers == {bet[i].payout.cashoutMultiplier : i \in won}
    IN  [totalWinnings |-> SumFunction([i \in won |-> bet[i].payout.winnings]),
         bestMultiplier |-> IF won = {} THEN 0 ELSE Max(multipliers),
         roundsWon |-> Cardinality(won)]

-----------------------------------------------------------------------------
(* me: the weekly board, then the all-time board *)

ReadFirstBoard(u) ==
    /\ reader = Idle
    /\ reader' = [at |-> "second", user |-> u, weekly |-> TallyOf(WeeklyBets)[u],
                  resettled |-> FALSE]
    /\ UNCHANGED <<bet, crashed, today>>

\* The answer; resettled tells whether a won bet has been settled again meanwhile.
ReadSecondBoard ==
    /\ reader.at = "second"
    /\ reader' = [at |-> "me", weekly |-> reader.weekly,
                  allTime |-> TallyOf(AllTimeBets)[reader.user],
                  resettled |-> reader.resettled]
    /\ UNCHANGED <<bet, crashed, today>>

-----------------------------------------------------------------------------
(* Walks through the pages of a list *)

\* Mutation of Page: pages are counted from zero.
PageFromZero(list, page) ==
    SubSeq(list, page * PageSize + 1, Min({(page + 1) * PageSize, Len(list)}))

\* skip and take, or slice.
Page(list, page) ==
    SubSeq(list, (page - 1) * PageSize + 1, Min({page * PageSize, Len(list)}))

Lists == {"rounds", "bets", "active bets", "board"}

\* getUserBets of u, newest first, of any status or active ones.
BetsOf(u, list) ==
    {i \in DOMAIN bet : bet[i].user = u /\ (list = "active bets" => bet[i].status = "active")}

Descending(S) ==
    {order \in SetToSeqs(S) : \A i, j \in DOMAIN order : i < j => order[i] > order[j]}

\* What the list holds now.
Content(list, u) ==
    CASE list = "rounds" -> 1 .. crashed
      [] list = "board" -> Listed(TallyOf(AllTimeBets))
      [] OTHER -> BetsOf(u, list)

\* The orders in which the database and the sort may return it.
Orders(list, u) ==
    IF list = "board" THEN Rankings(TallyOf(AllTimeBets)) ELSE Descending(Content(list, u))

\* What the place of an entry in the list depends on.
Basis(list, u) == IF list = "board" THEN TallyOf(AllTimeBets) ELSE Content(list, u)

\* Between two pages an entry has left the list, or the board was shuffled.
Disturbed(list, before, after) == IF list = "board" THEN before # after
                                                    ELSE ~(before \subseteq after)

StartWalk ==
    /\ reader = Idle
    /\ \E list \in Lists, u \in Players :
        reader' = [at |-> "walk", list |-> list, user |-> u, page |-> 1, shown |-> {},
                   start |-> Content(list, u), basis |-> Basis(list, u),
                   disturbed |-> FALSE]
    /\ UNCHANGED <<bet, crashed, today>>

\* The next page; a short one is the last.
ReadPage ==
    /\ reader.at = "walk"
    /\ \E order \in Orders(reader.list, reader.user) :
        LET page == Page(order, reader.page)
            basis == Basis(reader.list, reader.user)
        IN  reader' = [reader EXCEPT
                !.at = IF Len(page) < PageSize THEN "end" ELSE "walk",
                !.page = @ + 1,
                !.shown = @ \cup ToSet(page),
                !.basis = basis,
                !.disturbed = @ \/ Disturbed(reader.list, reader.basis, basis)]
    /\ UNCHANGED <<bet, crashed, today>>

\* The reader is done; another one may come.
Leave ==
    /\ reader.at \in {"me", "end"}
    /\ reader' = Idle
    /\ UNCHANGED <<bet, crashed, today>>

Next ==
    \/ PlaceBet \/ CrashRound \/ NextDay
    \/ \E i \in DOMAIN bet : Settle(i)
    \/ \E u \in Players : ReadFirstBoard(u)
    \/ ReadSecondBoard
    \/ StartWalk \/ ReadPage \/ Leave

Spec == Init /\ [][Next]_boardsVars

-----------------------------------------------------------------------------

\* Type invariant: only won bets, and those lost after they were won, carry a
\* payout, and a walk shows what is or was in its list.
BoardsTypeOK ==
    /\ bet \in Seq(BetRows)
    /\ \A i \in DOMAIN bet : bet[i].status = "won" => bet[i].payout \in Payouts
    /\ crashed \in 0 .. MaxRounds /\ today \in 0 .. MaxDay
    /\ reader.at \in {"idle", "second", "me", "walk", "end"}
    /\ reader.at \in {"walk", "end"} =>
          reader.shown \subseteq 1 .. MaxBets + MaxRounds \cup Players

\* The leaderboard and the profile add a player's bets up alike, in whatever
\* order the rows arrive.
BoardsMatchProfiles ==
    \A order \in SetToSeqs(AllTimeBets) :
        \A u \in Players : Tally(order)[u] = ProfileOf(u)

\* The weekly board counts the won bets of this calendar week, Sunday to
\* Saturday, though its window closes a day later than the week.
WeekIsThisWeek ==
    WeeklyBets = {i \in AllTimeBets : bet[i].createdAt \div DaysInWeek = today \div DaysInWeek}

\* "me" never shows more for the week than for all time, unless a bet that was
\* counted for the week has been settled again before the second query.
MeIsConsistent ==
    reader.at = "me" /\ ~reader.resettled =>
        /\ reader.weekly.totalWinnings <= reader.allTime.totalWinnings
        /\ reader.weekly.bestMultiplier <= reader.allTime.bestMultiplier

\* A walk from page to page while rounds crash and bets are placed or settled
\* shows every entry that was there at its start, unless one has left the list
\* between two pages.  On a board that stood still it may miss a player, but
\* only one whose winnings another player equals.
WalkMissesNothing ==
    reader.at = "end" /\ ~reader.disturbed =>
        \A x \in reader.start \ reader.shown :
            /\ reader.list = "board"
            /\ \E y \in reader.start \ {x} :
                  reader.basis[x].totalWinnings = reader.basis[y].totalWinnings

=============================================================================
