---------------------------- MODULE Boards_proofs ----------------------------
(***************************************************************************)
(* Proofs about Boards, for any number of players, bets, rounds and days,   *)
(* any payouts and any page size.                                           *)
(***************************************************************************)
EXTENDS Boards, Sums

-----------------------------------------------------------------------------
(* What the boards and the profile count *)

Winnings == [i \in DOMAIN bet |-> bet[i].payout.winnings]

Multipliers == [i \in DOMAIN bet |-> bet[i].payout.cashoutMultiplier]

\* The bets of B that u placed.
Of(u, B) == {i \in B : bet[i].user = u}

\* The entry of u when the bets of B are counted.
EntryOf(u, B) ==
    [totalWinnings |-> Total(Winnings, Of(u, B)),
     bestMultiplier |-> Highest(Multipliers, Of(u, B)),
     roundsWon |-> Cardinality(Of(u, B))]

Entries == [totalWinnings : Nat, bestMultiplier : Nat, roundsWon : Nat]

\* What any table of typed rows has to be summed up.
LEMMA TableCounts ==
    ASSUME NEW b \in Seq(BetRows)
    PROVE  /\ Len(b) \in Nat /\ DOMAIN b = 1 .. Len(b)
           /\ IsFiniteSet(DOMAIN b)
           /\ [i \in DOMAIN b |-> b[i].payout.winnings] \in [DOMAIN b -> Nat]
           /\ [i \in DOMAIN b |-> b[i].payout.cashoutMultiplier] \in [DOMAIN b -> Nat]
           /\ \A i \in DOMAIN b : b[i] \in BetRows
<1>1. Len(b) \in Nat /\ DOMAIN b = 1 .. Len(b) /\ \A i \in DOMAIN b : b[i] \in BetRows
    OBVIOUS
<1>2. IsFiniteSet(DOMAIN b)
    BY <1>1, FS_Interval
<1>3. \A i \in DOMAIN b : /\ b[i].payout.winnings \in Nat
                          /\ b[i].payout.cashoutMultiplier \in Nat
  <2>1. \A p \in Payouts \cup {NoPayout} : p.winnings \in Nat /\ p.cashoutMultiplier \in Nat
      BY BoardsAssumption DEF NoPayout
  <2>2. \A i \in DOMAIN b : b[i].payout \in Payouts \cup {NoPayout}
      BY <1>1 DEF BetRows
  <2>3. QED
      BY <2>1, <2>2
<1>4. QED
    BY <1>1, <1>2, <1>3

LEMMA RowsCount ==
    ASSUME bet \in Seq(BetRows)
    PROVE  /\ Len(bet) \in Nat /\ DOMAIN bet = 1 .. Len(bet)
           /\ IsFiniteSet(DOMAIN bet)
           /\ Winnings \in [DOMAIN bet -> Nat]
           /\ Multipliers \in [DOMAIN bet -> Nat]
           /\ \A i \in DOMAIN bet : bet[i] \in BetRows
BY TableCounts DEF Winnings, Multipliers

LEMMA EntryType ==
    ASSUME bet \in Seq(BetRows), NEW B \in SUBSET DOMAIN bet, NEW u
    PROVE  /\ Of(u, B) \in SUBSET DOMAIN bet
           /\ IsFiniteSet(Of(u, B))
           /\ EntryOf(u, B) \in Entries
<1>1. Of(u, B) \in SUBSET DOMAIN bet
    BY DEF Of
<1>2. IsFiniteSet(Of(u, B))
    BY <1>1, RowsCount, FS_Subset
<1>3. /\ Total(Winnings, Of(u, B)) \in Nat
      /\ Highest(Multipliers, Of(u, B)) \in Nat
      /\ Cardinality(Of(u, B)) \in Nat
    BY <1>1, <1>2, RowsCount, UnitsFinite, HighestBounds, FS_CardinalityType
<1>4. QED
    BY <1>1, <1>2, <1>3 DEF EntryOf, Entries

LEMMA EntryOfNothing ==
    ASSUME NEW u
    PROVE  EntryOf(u, {}) = NoEntry
<1>1. Of(u, {}) = {}
    BY DEF Of
<1>2. QED
    BY <1>1, TotalOfNothing, FS_EmptySet DEF EntryOf, NoEntry, Highest

\* A player is listed exactly if a bet of theirs is counted.
LEMMA EntryOfSomething ==
    ASSUME bet \in Seq(BetRows), NEW B \in SUBSET DOMAIN bet, NEW u
    PROVE  EntryOf(u, B) # NoEntry <=> Of(u, B) # {}
<1>1. CASE Of(u, B) = {}
    BY <1>1, TotalOfNothing, FS_EmptySet DEF EntryOf, NoEntry, Highest
<1>2. CASE Of(u, B) # {}
  <2>1. Cardinality(Of(u, B)) # 0
      BY <1>2, EntryType, FS_EmptySet
  <2>2. QED
      BY <1>2, <2>1 DEF EntryOf, NoEntry
<1>3. QED
    BY <1>1, <1>2

\* Counting one bet more is what Count does to the entry of its player.
LEMMA EntryCounts ==
    ASSUME bet \in Seq(BetRows), NEW B \in SUBSET DOMAIN bet, NEW x \in DOMAIN bet \ B, NEW u
    PROVE  EntryOf(u, B \cup {x}) = IF bet[x].user = u THEN Count(EntryOf(u, B), bet[x].payout)
                                                       ELSE EntryOf(u, B)
<1> DEFINE S == Of(u, B)
<1>1. CASE bet[x].user # u
  <2>1. Of(u, B \cup {x}) = S
      BY <1>1 DEF Of
  <2>2. QED
      BY <1>1, <2>1 DEF EntryOf
<1>2. CASE bet[x].user = u
  <2>1. Of(u, B \cup {x}) = S \cup {x} /\ x \notin S
      BY <1>2 DEF Of
  <2>2. S \in SUBSET DOMAIN bet /\ IsFiniteSet(S) /\ x \in DOMAIN bet \ S
      BY <2>1, EntryType
  <2> HIDE DEF S
  <2>3. Winnings[x] = bet[x].payout.winnings /\ Multipliers[x] = bet[x].payout.cashoutMultiplier
      BY DEF Winnings, Multipliers
  <2>4. PICK D : /\ Winnings \in [D -> Nat] /\ Multipliers \in [D -> Nat]
                 /\ S \in SUBSET D /\ IsFiniteSet(S) /\ x \in D \ S
      BY <2>2, RowsCount
  <2>5. Total(Winnings, S \cup {x}) = Total(Winnings, S) + Winnings[x]
      BY <2>4, TotalAdds
  <2>6. Total(Winnings, S \cup {x}) = Total(Winnings, S) + bet[x].payout.winnings
      BY <2>3, <2>5
  <2>7. Highest(Multipliers, S \cup {x}) =
            IF Multipliers[x] > Highest(Multipliers, S)
            THEN Multipliers[x] ELSE Highest(Multipliers, S)
      BY <2>4, HighestAdds
  <2>8. Highest(Multipliers, S \cup {x}) =
            IF bet[x].payout.cashoutMultiplier > Highest(Multipliers, S)
            THEN bet[x].payout.cashoutMultiplier ELSE Highest(Multipliers, S)
      BY <2>3, <2>7
  <2>9. Cardinality(S \cup {x}) = Cardinality(S) + 1
      BY <2>1, <2>2, FS_AddElement
  <2>10. EntryOf(u, B) = [totalWinnings |-> Total(Winnings, S),
                         bestMultiplier |-> Highest(Multipliers, S),
                         roundsWon |-> Cardinality(S)]
      BY DEF EntryOf, S
  <2>11. EntryOf(u, B \cup {x}) = [totalWinnings |-> Total(Winnings, S \cup {x}),
                                  bestMultiplier |-> Highest(Multipliers, S \cup {x}),
                                  roundsWon |-> Cardinality(S \cup {x})]
      BY <2>1 DEF EntryOf
  <2>12. Count(EntryOf(u, B), bet[x].payout) =
            [totalWinnings |-> Total(Winnings, S) + bet[x].payout.winnings,
             bestMultiplier |->
                 IF bet[x].payout.cashoutMultiplier > Highest(Multipliers, S)
                 THEN bet[x].payout.cashoutMultiplier ELSE Highest(Multipliers, S),
             roundsWon |-> Cardinality(S) + 1]
      BY <2>10 DEF Count
  <2>13. QED
      BY <1>2, <2>6, <2>8, <2>9, <2>11, <2>12
<1>3. QED
    BY <1>1, <1>2

\* One step of the fold: the entry of the last row's player, from those before.
TallyStep(order, h, s) ==
    IF s = {} THEN [u \in Players |-> NoEntry]
    ELSE LET stats == h[s \ {Max(s)}]
             i == order[Max(s)]
         IN  [stats EXCEPT ![bet[i].user] = Count(stats[bet[i].user], bet[i].payout)]

\* The map that weekly and allTime build holds the entries of the rows, whatever
\* the order in which they arrive.
LEMMA TallyCounts ==
    ASSUME bet \in Seq(BetRows), NEW B \in SUBSET DOMAIN bet, NEW order \in SetToSeqs(B)
    PROVE  Tally(order) = [u \in Players |-> EntryOf(u, B)]
<1> DEFINE D == DOMAIN order
           rows(s) == {order[j] : j \in s}
           counted == [s \in SUBSET D |-> [u \in Players |-> EntryOf(u, rows(s))]]
           iter == CHOOSE h : h = [s \in SUBSET D |-> TallyStep(order, h, s)]
<1>1. Tally(order) = iter[D]
    BY DEF Tally, FoldLeft, MapThenFoldSet, TallyStep
<1>2. IsFiniteSet(B)
    BY RowsCount, FS_Subset
<1>3. /\ D = 1 .. Cardinality(B) /\ Cardinality(B) \in Nat
      /\ order \in [D -> B]
      /\ \A i, j \in D : i # j => order[i] # order[j]
      /\ \A x \in B : \E i \in D : order[i] = x
  <2>1. /\ Cardinality(B) \in Nat
        /\ order \in [1 .. Cardinality(B) -> B]
        /\ \A i, j \in 1 .. Cardinality(B) : i # j => order[i] # order[j]
        /\ \A x \in B : \E i \in 1 .. Cardinality(B) : order[i] = x
      BY <1>2, EnumerationReaches
  <2>2. D = 1 .. Cardinality(B)
      BY <2>1
  <2> HIDE DEF D
  <2>3. QED
      BY <2>1, <2>2
<1>4. IsFiniteSet(D) /\ D \in SUBSET Nat
    BY <1>3, FS_Interval
<1> HIDE DEF D
<1>5. ASSUME NEW s \in SUBSET D, s # {}
      PROVE  Max(s) \in s
    BY <1>4, <1>5, FS_Subset, MaxIsGreatest
<1>6. ASSUME NEW s \in SUBSET D PROVE counted[s] = TallyStep(order, counted, s)
  <2>1. CASE s = {}
    <3>1. rows(s) = {}
        BY <2>1
    <3>2. QED
        BY <2>1, <3>1, EntryOfNothing DEF TallyStep
  <2>2. CASE s # {}
    <3>1. PICK m \in s : m = Max(s)
        BY <2>2, <1>5
    <3>2. PICK x : x = order[m]
        OBVIOUS
    <3>3. PICK R : R = rows(s \ {m})
        OBVIOUS
    <3>4. R \in SUBSET DOMAIN bet /\ x \in DOMAIN bet \ R /\ rows(s) = R \cup {x}
        BY <1>3, <3>2, <3>3
    <3>5. bet[x].user \in Players
        BY <3>4, RowsCount DEF BetRows
    <3>6. counted[s \ {m}] = [u \in Players |-> EntryOf(u, R)]
        BY <3>3
    <3>7. counted[s] = [u \in Players |-> EntryOf(u, R \cup {x})]
        BY <3>4
    <3>8. TallyStep(order, counted, s) =
              [[u \in Players |-> EntryOf(u, R)]
                  EXCEPT ![bet[x].user] = Count(EntryOf(bet[x].user, R), bet[x].payout)]
      <4> HIDE DEF counted
      <4>1. QED
          BY <2>2, <3>1, <3>2, <3>5, <3>6 DEF TallyStep
    <3>9. \A u \in Players :
              EntryOf(u, R \cup {x}) = IF bet[x].user = u THEN Count(EntryOf(u, R), bet[x].payout)
                                                          ELSE EntryOf(u, R)
        BY <3>4, EntryCounts
    <3>10. QED
      <4> HIDE DEF counted, rows
      <4>1. QED
          BY <3>7, <3>8, <3>9
  <2>3. QED
      BY <2>1, <2>2
<1>7. counted = [s \in SUBSET D |-> TallyStep(order, counted, s)]
    BY <1>6
<1>8. iter = [s \in SUBSET D |-> TallyStep(order, iter, s)]
  <2> HIDE DEF counted
  <2>1. QED
      BY <1>7
<1> HIDE DEF iter
<1>9. iter[{}] = counted[{}]
  <2>1. {} \in SUBSET D
      OBVIOUS
  <2> HIDE DEF counted
  <2>2. iter[{}] = TallyStep(order, iter, {}) /\ counted[{}] = TallyStep(order, counted, {})
      BY <1>6, <1>8, <2>1
  <2>3. QED
      BY <2>2 DEF TallyStep
<1>10. ASSUME NEW s \in SUBSET D, s # {}
       PROVE  \E x \in s : iter[s \ {x}] = counted[s \ {x}] => iter[s] = counted[s]
  <2> HIDE DEF counted
  <2>1. iter[s] = TallyStep(order, iter, s) /\ counted[s] = TallyStep(order, counted, s)
      BY <1>6, <1>8
  <2>2. Max(s) \in s
      BY <1>5, <1>10
  <2>3. QED
      BY <1>10, <2>1, <2>2 DEF TallyStep
<1>11. iter[D] = counted[D]
  <2> HIDE DEF counted
  <2>1. QED
      BY <1>4, <1>9, <1>10, SubsetsAgree
<1>12. rows(D) = B
    BY <1>3
<1>13. QED
    BY <1>1, <1>11, <1>12

\* The order that a query happens to return is one of them.
LEMMA TallyOfCounts ==
    ASSUME bet \in Seq(BetRows), NEW B \in SUBSET DOMAIN bet
    PROVE  /\ TallyOf(B) = [u \in Players |-> EntryOf(u, B)]
           /\ TallyOf(B) \in [Players -> Entries]
           /\ Listed(TallyOf(B)) = {u \in Players : Of(u, B) # {}}
<1>1. IsFiniteSet(B)
    BY RowsCount, FS_Subset
<1>2. TallyOf(B) = [u \in Players |-> EntryOf(u, B)]
    BY <1>1, SetToSeqEnumerates, TallyCounts DEF TallyOf
<1>3. \A u \in Players : EntryOf(u, B) \in Entries
    BY EntryType
<1>4. \A u \in Players : EntryOf(u, B) # NoEntry <=> Of(u, B) # {}
    BY EntryOfSomething
<1>5. QED
    BY <1>2, <1>3, <1>4 DEF Listed

\* What the profile shows is the entry of all won bets.
LEMMA ProfileIsEntry ==
    ASSUME bet \in Seq(BetRows), NEW u
    PROVE  ProfileOf(u) = EntryOf(u, AllTimeBets)
<1> DEFINE won == {i \in DOMAIN bet : bet[i].user = u /\ bet[i].status = "won"}
           w == [i \in won |-> bet[i].payout.winnings]
<1>1. won = Of(u, AllTimeBets)
    BY DEF Of, AllTimeBets
<1>2. won \in SUBSET DOMAIN bet /\ IsFiniteSet(won)
    BY RowsCount, FS_Subset
<1>3. w \in [won -> Nat] /\ \A i \in won : w[i] = Winnings[i]
    BY RowsCount DEF Winnings
<1>4. SumFunction(w) = Total(Winnings, won)
  <2> HIDE DEF w, won
  <2>1. SumFunction(w) = Total(w, won)
      BY <1>2, <1>3, SumIsTotal
  <2>2. Total(w, won) = Total(Winnings, won)
      BY <1>3, TotalAlike
  <2>3. QED
      BY <2>1, <2>2
<1>5. {bet[i].payout.cashoutMultiplier : i \in won} = {Multipliers[i] : i \in won}
    BY DEF Multipliers
<1>6. (IF won = {} THEN 0 ELSE Max({bet[i].payout.cashoutMultiplier : i \in won}))
          = Highest(Multipliers, won)
    BY <1>5 DEF Highest
<1>7. ProfileOf(u) =
          [totalWinnings |-> SumFunction(w),
           bestMultiplier |-> IF won = {} THEN 0
                              ELSE Max({bet[i].payout.cashoutMultiplier : i \in won}),
           roundsWon |-> Cardinality(won)]
    BY DEF ProfileOf
<1>8. QED
  <2> HIDE DEF won, w
  <2>1. QED
      BY <1>1, <1>4, <1>6, <1>7 DEF EntryOf

-----------------------------------------------------------------------------
(* The inductive invariant *)

\* Rows as queries find them: a won bet has a payout, and nothing was created in
\* the future.
TableInv ==
    /\ bet \in Seq(BetRows) /\ Len(bet) <= MaxBets
    /\ \A i \in DOMAIN bet : /\ bet[i].status = "won" => bet[i].payout \in Payouts
                             /\ bet[i].createdAt <= today
    /\ crashed \in 0 .. MaxRounds /\ today \in 0 .. MaxDay

\* What lists hold: bets by number, rounds by number, or players.
Items == 1 .. MaxBets + MaxRounds \cup Players

Seconds == [at : {"second"}, user : Players, weekly : Entries, resettled : BOOLEAN]

Answers == [at : {"me"}, weekly : Entries, allTime : Entries, resettled : BOOLEAN]

Walks == [at : {"walk", "end"}, list : Lists, user : Players, page : Nat \ {0},
          shown : SUBSET Items, start : SUBSET Items,
          basis : (SUBSET Items) \cup [Players -> Entries], disturbed : BOOLEAN]

ReaderInv == reader \in {Idle} \cup Seconds \cup Answers \cup Walks

\* What "me" has read for the week is still counted for all time.
SecondWithin ==
    reader.at = "second" /\ ~reader.resettled =>
        /\ reader.weekly.totalWinnings <= EntryOf(reader.user, AllTimeBets).totalWinnings
        /\ reader.weekly.bestMultiplier <= EntryOf(reader.user, AllTimeBets).bestMultiplier

\* By what a list is sorted, the largest first: bets and rounds by their number.
Place(list, basis) ==
    IF list = "board" THEN [y \in Listed(basis) |-> basis[y].totalWinnings]
                      ELSE [y \in basis |-> y]

Unrivalled(x, place) == \A y \in DOMAIN place : y # x => place[y] # place[x]

Ahead(x, place) == {y \in DOMAIN place : place[y] > place[x]}

\* In a walk that nothing disturbed, an entry that was not shown yet has at least
\* as many entries ahead of it as have been passed.
WalkInv ==
    reader.at \in {"walk", "end"} /\ ~reader.disturbed =>
        LET place == Place(reader.list, reader.basis)
        IN  /\ reader.start \subseteq DOMAIN place
            /\ reader.list = "board" => reader.start = DOMAIN place
            /\ \A x \in reader.start \ reader.shown : Unrivalled(x, place) =>
                   /\ reader.at = "walk"
                   /\ Cardinality(Ahead(x, place)) >= (reader.page - 1) * PageSize

BoardsIInv ==
    /\ TableInv
    /\ ReaderInv
    /\ SecondWithin
    /\ MeIsConsistent
    /\ WalkInv

-----------------------------------------------------------------------------
(* The table *)

LEMMA RowAppended ==
    ASSUME NEW b \in Seq(BetRows), NEW row \in BetRows
    PROVE  /\ Append(b, row) \in Seq(BetRows)
           /\ Len(Append(b, row)) = Len(b) + 1
           /\ DOMAIN Append(b, row) = DOMAIN b \cup {Len(b) + 1}
           /\ \A i \in DOMAIN b : Append(b, row)[i] = b[i]
           /\ Append(b, row)[Len(b) + 1] = row
<1>1. /\ Append(b, row) \in Seq(BetRows) /\ Len(Append(b, row)) = Len(b) + 1 /\ Len(b) \in Nat
      /\ DOMAIN b = 1 .. Len(b) /\ DOMAIN Append(b, row) = 1 .. Len(b) + 1
      /\ \A i \in 1 .. Len(b) : Append(b, row)[i] = b[i]
      /\ Append(b, row)[Len(b) + 1] = row
    OBVIOUS
<1>2. 1 .. Len(b) + 1 = (1 .. Len(b)) \cup {Len(b) + 1}
    BY <1>1
<1>3. QED
    BY <1>1, <1>2

LEMMA RowReplaced ==
    ASSUME NEW b \in Seq(BetRows), NEW n \in DOMAIN b, NEW row \in BetRows
    PROVE  /\ [b EXCEPT ![n] = row] \in Seq(BetRows)
           /\ Len([b EXCEPT ![n] = row]) = Len(b)
           /\ DOMAIN [b EXCEPT ![n] = row] = DOMAIN b
           /\ \A i \in DOMAIN b : [b EXCEPT ![n] = row][i] = IF i = n THEN row ELSE b[i]
OBVIOUS

LEMMA PlaceKeepsTable ==
    ASSUME TableInv, PlaceBet
    PROVE  TableInv' /\ \A i \in AllTimeBets : i \in DOMAIN bet' /\ bet'[i] = bet[i]
<1>1. PICK row : /\ row \in BetRows /\ row.status = "active" /\ row.createdAt = today
                 /\ bet' = Append(bet, row)
    BY DEF PlaceBet, BetRows, TableInv, NoPayout
<1>2. bet \in Seq(BetRows) /\ Len(bet) \in Nat /\ Len(bet) < MaxBets /\ MaxBets \in Nat
    BY BoardsAssumption DEF TableInv, PlaceBet
<1>3. /\ bet' \in Seq(BetRows) /\ Len(bet') = Len(bet) + 1
      /\ DOMAIN bet' = DOMAIN bet \cup {Len(bet) + 1}
      /\ \A i \in DOMAIN bet : bet'[i] = bet[i]
      /\ bet'[Len(bet) + 1] = row
    BY <1>1, <1>2, RowAppended
<1>4. today \in Nat
    BY BoardsAssumption DEF TableInv
<1>5. \A i \in DOMAIN bet' : /\ bet'[i].status = "won" => bet'[i].payout \in Payouts
                             /\ bet'[i].createdAt <= today
    BY <1>1, <1>3, <1>4 DEF TableInv
<1>6. Len(bet') <= MaxBets
    BY <1>2, <1>3
<1>7. TableInv'
    BY <1>3, <1>5, <1>6 DEF TableInv, PlaceBet
<1>8. QED
    BY <1>3, <1>7 DEF AllTimeBets

LEMMA SettleKeepsTable ==
    ASSUME TableInv, NEW n \in DOMAIN bet, Settle(n)
    PROVE  /\ TableInv'
           /\ bet[n].status # "won" =>
                  \A i \in AllTimeBets : i \in DOMAIN bet' /\ bet'[i] = bet[i]
<1>1. bet \in Seq(BetRows) /\ bet[n] \in BetRows
    BY DEF TableInv
<1>2. PICK row : /\ row \in BetRows
                 /\ row.status = "won" => row.payout \in Payouts
                 /\ row.createdAt = bet[n].createdAt
                 /\ bet' = [bet EXCEPT ![n] = row]
  <2>1. CASE \E p \in Payouts : bet' = [bet EXCEPT ![n].status = "won", ![n].payout = p]
    <3>1. PICK p \in Payouts : bet' = [bet EXCEPT ![n].status = "won", ![n].payout = p]
        BY <2>1
    <3>2. [bet[n] EXCEPT !.status = "won", !.payout = p] \in BetRows
        BY <1>1 DEF BetRows
    <3>3. bet' = [bet EXCEPT ![n] = [bet[n] EXCEPT !.status = "won", !.payout = p]]
        BY <3>1, <1>1
    <3>4. /\ [bet[n] EXCEPT !.status = "won", !.payout = p].payout = p
          /\ [bet[n] EXCEPT !.status = "won", !.payout = p].createdAt = bet[n].createdAt
        BY <1>1 DEF BetRows
    <3>5. QED
        BY <3>2, <3>3, <3>4
  <2>2. CASE bet' = [bet EXCEPT ![n].status = "lost"]
    <3>1. [bet[n] EXCEPT !.status = "lost"] \in BetRows
        BY <1>1 DEF BetRows
    <3>2. /\ [bet[n] EXCEPT !.status = "lost"].status = "lost"
          /\ [bet[n] EXCEPT !.status = "lost"].createdAt = bet[n].createdAt
        BY <1>1 DEF BetRows
    <3>3. bet' = [bet EXCEPT ![n] = [bet[n] EXCEPT !.status = "lost"]]
        BY <2>2, <1>1
    <3>4. QED
        BY <3>1, <3>2, <3>3
  <2>3. QED
      BY <2>1, <2>2 DEF Settle
<1>3. /\ bet' \in Seq(BetRows) /\ Len(bet') = Len(bet) /\ DOMAIN bet' = DOMAIN bet
      /\ \A i \in DOMAIN bet : bet'[i] = IF i = n THEN row ELSE bet[i]
    BY <1>1, <1>2, RowReplaced
<1>4. \A i \in DOMAIN bet' : /\ bet'[i].status = "won" => bet'[i].payout \in Payouts
                             /\ bet'[i].createdAt <= today
    BY <1>2, <1>3 DEF TableInv
<1>5. TableInv'
    BY <1>3, <1>4 DEF TableInv, Settle
<1>6. QED
    BY <1>3, <1>5 DEF AllTimeBets

LEMMA RoundOrDayKeepsTable ==
    ASSUME TableInv, CrashRound \/ NextDay
    PROVE  TableInv' /\ AllTimeBets' = AllTimeBets
<1>1. MaxRounds \in Nat /\ MaxDay \in Nat /\ crashed \in 0 .. MaxRounds /\ today \in 0 .. MaxDay
    BY BoardsAssumption DEF TableInv
<1>2. bet' = bet
    BY DEF CrashRound, NextDay
<1>3. crashed' \in 0 .. MaxRounds /\ today' \in 0 .. MaxDay /\ today <= today'
    BY <1>1 DEF CrashRound, NextDay
<1>4. \A i \in DOMAIN bet : bet[i].createdAt <= today'
  <2>1. \A i \in DOMAIN bet : bet[i].createdAt \in Nat /\ bet[i].createdAt <= today
      BY RowsCount, BoardsAssumption DEF TableInv, BetRows
  <2>2. QED
      BY <1>1, <1>3, <2>1
<1>5. QED
    BY <1>2, <1>3, <1>4 DEF TableInv, AllTimeBets

\* Nothing that was counted for all time is counted for less while won bets stay
\* as they are.
LEMMA CountedStays ==
    ASSUME TableInv, TableInv', NEW u,
           \A i \in AllTimeBets : i \in DOMAIN bet' /\ bet'[i] = bet[i]
    PROVE  /\ EntryOf(u, AllTimeBets).totalWinnings <= EntryOf(u, AllTimeBets)'.totalWinnings
           /\ EntryOf(u, AllTimeBets).bestMultiplier <= EntryOf(u, AllTimeBets)'.bestMultiplier
           /\ EntryOf(u, AllTimeBets)'.totalWinnings \in Nat
           /\ EntryOf(u, AllTimeBets)'.bestMultiplier \in Nat
<1>1. PICK S : S = Of(u, AllTimeBets)
    OBVIOUS
<1>2. PICK T : T = Of(u, AllTimeBets)'
    OBVIOUS
<1>3. S \subseteq T /\ \A i \in S : Winnings'[i] = Winnings[i] /\ Multipliers'[i] = Multipliers[i]
    BY <1>1, <1>2 DEF Of, AllTimeBets, Winnings, Multipliers
<1>4. PICK D : Winnings \in [D -> Nat] /\ Multipliers \in [D -> Nat] /\ S \in SUBSET D
    BY <1>1, RowsCount DEF TableInv, Of, AllTimeBets
<1>5. PICK E : /\ Winnings' \in [E -> Nat] /\ Multipliers' \in [E -> Nat]
               /\ T \in SUBSET E /\ IsFiniteSet(E)
  <2>1. /\ Winnings' \in [DOMAIN bet' -> Nat] /\ Multipliers' \in [DOMAIN bet' -> Nat]
        /\ IsFiniteSet(DOMAIN bet')
      BY TableCounts DEF TableInv, Winnings, Multipliers
  <2>2. T \in SUBSET DOMAIN bet'
      BY <1>2 DEF Of, AllTimeBets
  <2>3. QED
      BY <2>1, <2>2
<1>6. IsFiniteSet(T)
    BY <1>5, FS_Subset
<1>7. Total(Winnings, S) <= Total(Winnings', T)
    BY <1>3, <1>4, <1>5, <1>6, TotalGrows
<1>8. Highest(Multipliers, S) <= Highest(Multipliers', T)
    BY <1>3, <1>4, <1>5, <1>6, HighestGrows
<1>9. Total(Winnings', T) \in Nat /\ Highest(Multipliers', T) \in Nat
    BY <1>5, <1>6, UnitsFinite, HighestBounds
<1>10. QED
    BY <1>1, <1>2, <1>7, <1>8, <1>9 DEF EntryOf, Total, Highest, Units

\* Fewer bets are not counted for more.
LEMMA FewerCountLess ==
    ASSUME bet \in Seq(BetRows), NEW C \in SUBSET DOMAIN bet, NEW B \in SUBSET C, NEW u
    PROVE  /\ EntryOf(u, B).totalWinnings <= EntryOf(u, C).totalWinnings
           /\ EntryOf(u, B).bestMultiplier <= EntryOf(u, C).bestMultiplier
<1>1. PICK D : /\ Winnings \in [D -> Nat] /\ Multipliers \in [D -> Nat]
               /\ Of(u, C) \in SUBSET D /\ Of(u, B) \in SUBSET D /\ Of(u, B) \subseteq Of(u, C)
               /\ IsFiniteSet(Of(u, C))
  <2>1. Of(u, B) \subseteq Of(u, C)
      BY DEF Of
  <2>2. QED
      BY <2>1, RowsCount, EntryType
<1>2. Total(Winnings, Of(u, B)) <= Total(Winnings, Of(u, C))
    BY <1>1, TotalGrows
<1>3. Highest(Multipliers, Of(u, B)) <= Highest(Multipliers, Of(u, C))
    BY <1>1, HighestGrows
<1>4. QED
    BY <1>2, <1>3 DEF EntryOf

-----------------------------------------------------------------------------
(* Lists and their pages *)

\* In a list that is sorted by place, an entry whose place no other has stands
\* right behind those that are ahead of it.
LEMMA StandsBehind ==
    ASSUME NEW S, IsFiniteSet(S), NEW place \in [S -> Nat], NEW order \in SetToSeqs(S),
           \A i, j \in DOMAIN order : i < j => place[order[i]] >= place[order[j]],
           NEW k \in DOMAIN order, Unrivalled(order[k], place)
    PROVE  Cardinality(Ahead(order[k], place)) = k - 1
<1> DEFINE ahead == Ahead(order[k], place)
           first == [i \in 1 .. k - 1 |-> order[i]]
<1>1. PICK n \in Nat :
          /\ DOMAIN order = 1 .. n /\ order \in [1 .. n -> S]
          /\ \A i, j \in 1 .. n : i # j => order[i] # order[j]
          /\ \A x \in S : \E i \in 1 .. n : order[i] = x
  <2>1. PICK n \in Nat : n = Cardinality(S)
      BY EnumerationReaches
  <2>2. /\ order \in [1 .. n -> S]
        /\ \A i, j \in 1 .. n : i # j => order[i] # order[j]
        /\ \A x \in S : \E i \in 1 .. n : order[i] = x
      BY <2>1, EnumerationReaches
  <2>3. DOMAIN order = 1 .. n
      BY <2>2
  <2>4. QED
      BY <2>2, <2>3
<1>2. k \in 1 .. n /\ k - 1 \in Nat
    BY <1>1
<1>3. ASSUME NEW i \in 1 .. n PROVE order[i] \in ahead <=> i < k
  <2>1. order[i] \in S /\ order[k] \in S /\ place[order[i]] \in Nat /\ place[order[k]] \in Nat
      BY <1>1, <1>2
  <2>2. i # k => place[order[i]] # place[order[k]]
      BY <1>1, <1>2, <2>1 DEF Unrivalled
  <2>3. i < k => place[order[i]] >= place[order[k]]
      BY <1>1, <1>2
  <2>4. k < i => place[order[k]] >= place[order[i]]
      BY <1>1, <1>2
  <2>5. order[i] \in ahead <=> place[order[i]] > place[order[k]]
      BY <2>1 DEF Ahead
  <2>6. i < k \/ i = k \/ k < i
      BY <1>2
  <2>7. QED
      BY <2>1, <2>2, <2>3, <2>4, <2>5, <2>6
<1>4. ahead \subseteq S
    BY DEF Ahead
<1>5. \A i \in 1 .. k - 1 : i \in 1 .. n /\ i < k
    BY <1>2
<1>6. first \in [1 .. k - 1 -> ahead]
    BY <1>3, <1>5
<1>7. \A i, j \in 1 .. k - 1 : first[i] = first[j] => i = j
    BY <1>1, <1>5
<1>8. \A x \in ahead : \E i \in 1 .. k - 1 : first[i] = x
  <2>1. SUFFICES ASSUME NEW x \in ahead PROVE \E i \in 1 .. k - 1 : first[i] = x
      OBVIOUS
  <2>2. PICK i \in 1 .. n : order[i] = x
      BY <1>1, <1>4
  <2>3. i < k
      BY <1>3, <2>1, <2>2
  <2>4. i \in 1 .. k - 1
      BY <1>2, <2>3
  <2>5. QED
      BY <2>2, <2>4
<1>9. ExistsBijection(1 .. k - 1, ahead)
  <2> HIDE DEF first, ahead
  <2>1. first \in Bijection(1 .. k - 1, ahead)
      BY <1>6, <1>7, <1>8 DEF Bijection, Injection, Surjection, IsInjective
  <2>2. QED
      BY <2>1 DEF ExistsBijection
<1>10. QED
  <2> HIDE DEF ahead
  <2>1. Cardinality(ahead) = k - 1
      BY <1>2, <1>9, FS_CountingElements
  <2>2. QED
      BY <2>1 DEF ahead

\* A page shows what stands between its ends, and is short only if the list ends
\* before it is full.
LEMMA PageShows ==
    ASSUME NEW S, NEW order \in Seq(S), NEW p \in Nat \ {0}
    PROVE  /\ ToSet(Page(order, p)) \subseteq S
           /\ \A k \in 1 .. Len(order) :
                  (p - 1) * PageSize < k /\ k <= p * PageSize => order[k] \in ToSet(Page(order, p))
           /\ Len(Page(order, p)) < PageSize => Len(order) < p * PageSize
<1>1. PICK a \in Nat, b \in Nat : a = (p - 1) * PageSize /\ b = p * PageSize /\ b = a + PageSize
  <2>1. PageSize \in Nat \ {0} /\ p - 1 \in Nat
      BY BoardsAssumption
  <2>2. (p - 1) * PageSize \in Nat /\ p * PageSize = (p - 1) * PageSize + PageSize
      BY <2>1
  <2>3. QED
      BY <2>1, <2>2
<1>2. PICK n \in Nat : n = Len(order)
    OBVIOUS
<1>3. PICK c \in Nat : c = Min({b, n}) /\ c <= b /\ c <= n /\ (c = b \/ c = n)
    BY MinOfTwo
<1>4. PICK page : page = Page(order, p)
    OBVIOUS
<1>5. page = SubSeq(order, a + 1, c)
    BY <1>1, <1>2, <1>3, <1>4 DEF Page
<1>6. \A i \in a + 1 .. c : order[i] \in S
    BY <1>1, <1>2, <1>3
<1>7. /\ page \in Seq(S)
      /\ Len(page) = IF a + 1 <= c THEN c - (a + 1) + 1 ELSE 0
      /\ \A i \in 1 .. c - (a + 1) + 1 : page[i] = order[a + 1 + i - 1]
  <2>1. PICK m \in Int : m = a + 1
      OBVIOUS
  <2>2. /\ SubSeq(order, m, c) \in Seq(S)
        /\ Len(SubSeq(order, m, c)) = IF m <= c THEN c - m + 1 ELSE 0
        /\ \A i \in 1 .. c - m + 1 : SubSeq(order, m, c)[i] = order[m + i - 1]
      BY <1>6, <2>1, SubSeqProperties
  <2>3. QED
      BY <1>5, <2>1, <2>2
<1>8. ToSet(page) \subseteq S
    BY <1>7 DEF ToSet
<1>9. ASSUME NEW k \in 1 .. n, a < k, k <= b PROVE order[k] \in ToSet(page)
  <2>1. k <= c /\ k - a \in 1 .. c - (a + 1) + 1 /\ a + 1 + (k - a) - 1 = k
      BY <1>1, <1>2, <1>3, <1>9
  <2>2. page[k - a] = order[k]
      BY <1>7, <2>1
  <2>3. k - a \in DOMAIN page
      BY <1>7, <2>1
  <2>4. QED
      BY <2>2, <2>3 DEF ToSet
<1>10. Len(page) < PageSize => n < b
    BY <1>1, <1>2, <1>3, <1>7, BoardsAssumption
<1>11. QED
    BY <1>1, <1>2, <1>4, <1>8, <1>9, <1>10

\* Each list is sorted by place, and places are numbers.
LEMMA ListsSorted ==
    ASSUME TableInv, NEW list \in Lists, NEW u,
           NEW basis, basis = Basis(list, u)
    PROVE  /\ IsFiniteSet(Content(list, u)) /\ Content(list, u) \in SUBSET Items
           /\ basis \in (SUBSET Items) \cup [Players -> Entries]
           /\ Place(list, basis) \in [Content(list, u) -> Nat]
           /\ list # "board" => \A y \in Content(list, u) : Place(list, basis)[y] = y
           /\ \A order \in Orders(list, u) :
                  /\ order \in SetToSeqs(Content(list, u))
                  /\ \A i, j \in DOMAIN order : i < j =>
                         Place(list, basis)[order[i]] >= Place(list, basis)[order[j]]
<1>1. bet \in Seq(BetRows) /\ AllTimeBets \in SUBSET DOMAIN bet
    BY DEF TableInv, AllTimeBets
<1>2. CASE list = "board"
  <2>1. PICK stats \in [Players -> Entries] : stats = TallyOf(AllTimeBets) /\ stats = basis
      BY <1>1, <1>2, TallyOfCounts DEF Basis
  <2>2. Content(list, u) = Listed(stats) /\ Listed(stats) \in SUBSET Players
      BY <1>2, <2>1 DEF Content, Listed
  <2>3. IsFiniteSet(Content(list, u))
      BY <2>2, FS_Subset, BoardsAssumption
  <2>4. /\ Place(list, basis) \in [Listed(stats) -> Nat]
        /\ \A y \in Listed(stats) : Place(list, basis)[y] = stats[y].totalWinnings
    <3>1. \A y \in Players : stats[y].totalWinnings \in Nat
        BY DEF Entries
    <3>2. QED
        BY <1>2, <2>1, <2>2, <3>1 DEF Place
  <2>5. ASSUME NEW order \in Orders(list, u)
        PROVE  /\ order \in SetToSeqs(Listed(stats))
               /\ \A i, j \in DOMAIN order : i < j =>
                      stats[order[i]].totalWinnings >= stats[order[j]].totalWinnings
      BY <1>2, <2>1 DEF Orders, Rankings
  <2>6. \A order \in SetToSeqs(Listed(stats)) : \A i \in DOMAIN order : order[i] \in Listed(stats)
      BY DEF SetToSeqs
  <2>7. ASSUME NEW order \in Orders(list, u), NEW i \in DOMAIN order, NEW j \in DOMAIN order, i < j
        PROVE  Place(list, basis)[order[i]] >= Place(list, basis)[order[j]]
    <3>1. order[i] \in Listed(stats) /\ order[j] \in Listed(stats)
        BY <2>5, <2>6
    <3>2. stats[order[i]].totalWinnings >= stats[order[j]].totalWinnings
        BY <2>5, <2>7
    <3>3. QED
        BY <2>4, <3>1, <3>2
  <2>8. QED
      BY <1>2, <2>1, <2>2, <2>3, <2>4, <2>5, <2>7 DEF Items
<1>3. CASE list # "board"
  <2>1. PICK C : C = Content(list, u) /\ C = basis
      BY <1>3 DEF Basis
  <2>2. IsFiniteSet(C) /\ C \in SUBSET Nat /\ C \in SUBSET Items
    <3>1. CASE list = "rounds"
      <4>1. C = 1 .. crashed
          BY <2>1, <3>1 DEF Content
      <4>2. crashed \in Nat /\ MaxBets \in Nat /\ MaxRounds \in Nat /\ crashed <= MaxRounds
          BY BoardsAssumption DEF TableInv
      <4>3. QED
          BY <4>1, <4>2, FS_Interval DEF Items
    <3>2. CASE list # "rounds"
      <4>1. C \in SUBSET DOMAIN bet
          BY <1>3, <2>1, <3>2 DEF Content, BetsOf
      <4>2. IsFiniteSet(DOMAIN bet) /\ DOMAIN bet = 1 .. Len(bet) /\ Len(bet) \in Nat
          BY <1>1, RowsCount
      <4>3. IsFiniteSet(C)
          BY <4>1, <4>2, FS_Subset
      <4>4. MaxBets \in Nat /\ MaxRounds \in Nat /\ Len(bet) <= MaxBets
          BY BoardsAssumption DEF TableInv
      <4>5. QED
          BY <4>1, <4>2, <4>3, <4>4 DEF Items
    <3>3. QED
        BY <3>1, <3>2
  <2>3. Place(list, basis) = [y \in C |-> y]
      BY <1>3, <2>1 DEF Place
  <2>4. ASSUME NEW order \in Orders(list, u)
        PROVE  /\ order \in SetToSeqs(C)
               /\ \A i, j \in DOMAIN order : i < j => order[i] > order[j]
      BY <1>3, <2>1 DEF Orders, Descending
  <2>5. \A order \in SetToSeqs(C) : \A i \in DOMAIN order : order[i] \in C
      BY DEF SetToSeqs
  <2>6. ASSUME NEW order \in Orders(list, u), NEW i \in DOMAIN order, NEW j \in DOMAIN order, i < j
        PROVE  Place(list, basis)[order[i]] >= Place(list, basis)[order[j]]
    <3>1. order[i] \in C /\ order[j] \in C /\ order[i] > order[j]
        BY <2>4, <2>5, <2>6
    <3>2. Place(list, basis)[order[i]] = order[i] /\ Place(list, basis)[order[j]] = order[j]
        BY <2>3, <3>1
    <3>3. order[i] \in Nat /\ order[j] \in Nat
        BY <2>2, <3>1
    <3>4. QED
        BY <3>1, <3>2, <3>3
  <2>7. QED
      BY <1>3, <2>1, <2>2, <2>3, <2>4, <2>6
<1>4. QED
    BY <1>2, <1>3

-----------------------------------------------------------------------------
(* Each step keeps the invariant. *)

LEMMA BoardsStart == Init => BoardsIInv
<1> SUFFICES ASSUME Init PROVE BoardsIInv
    OBVIOUS
<1>1. TableInv
  <2>1. <<>> \in Seq(BetRows) /\ Len(<<>>) = 0 /\ DOMAIN <<>> = {}
      OBVIOUS
  <2>2. QED
      BY <2>1, BoardsAssumption DEF Init, TableInv
<1>2. ReaderInv /\ SecondWithin /\ MeIsConsistent /\ WalkInv
    BY DEF Init, Idle, ReaderInv, SecondWithin, MeIsConsistent, WalkInv
<1>3. QED
    BY <1>1, <1>2 DEF BoardsIInv

\* Changes of the table that leave won bets alone do not concern a reader.
LEMMA TableStepKeeps ==
    ASSUME BoardsIInv, TableInv', reader' = reader,
           \A i \in AllTimeBets : i \in DOMAIN bet' /\ bet'[i] = bet[i]
    PROVE  BoardsIInv'
<1>1. ReaderInv' /\ MeIsConsistent' /\ WalkInv'
    BY DEF BoardsIInv, ReaderInv, MeIsConsistent, WalkInv
<1>2. SecondWithin'
  <2>1. SUFFICES ASSUME reader.at = "second", ~reader.resettled PROVE SecondWithin'
      BY DEF SecondWithin
  <2>2. PICK u : u = reader.user
      OBVIOUS
  <2>3. PICK old : old = EntryOf(u, AllTimeBets)
      OBVIOUS
  <2>4. PICK new : new = EntryOf(u, AllTimeBets)'
      OBVIOUS
  <2>5. /\ old.totalWinnings <= new.totalWinnings /\ old.bestMultiplier <= new.bestMultiplier
        /\ new.totalWinnings \in Nat /\ new.bestMultiplier \in Nat
      BY <2>3, <2>4, CountedStays DEF BoardsIInv
  <2>6. old \in Entries /\ reader.weekly \in Entries
    <3>1. bet \in Seq(BetRows) /\ AllTimeBets \in SUBSET DOMAIN bet
        BY DEF BoardsIInv, TableInv, AllTimeBets
    <3>2. old \in Entries
        BY <2>3, <3>1, EntryType
    <3>3. reader.weekly \in Entries
        BY <2>1 DEF BoardsIInv, ReaderInv, Idle, Seconds, Answers, Walks
    <3>4. QED
        BY <3>2, <3>3
  <2>7. /\ reader.weekly.totalWinnings <= old.totalWinnings
        /\ reader.weekly.bestMultiplier <= old.bestMultiplier
      BY <2>1, <2>2, <2>3 DEF BoardsIInv, SecondWithin
  <2>8. /\ reader.weekly.totalWinnings <= new.totalWinnings
        /\ reader.weekly.bestMultiplier <= new.bestMultiplier
      BY <2>5, <2>6, <2>7 DEF Entries
  <2>9. QED
      BY <2>2, <2>4, <2>8 DEF SecondWithin
<1>3. QED
    BY <1>1, <1>2 DEF BoardsIInv

LEMMA SettleKeeps ==
    ASSUME BoardsIInv, NEW n \in DOMAIN bet, Settle(n)
    PROVE  BoardsIInv'
<1>1. TableInv'
    BY SettleKeepsTable DEF BoardsIInv
<1>2. CASE reader.at = "second" /\ bet[n].status = "won"
  <2>1. reader' = [reader EXCEPT !.resettled = TRUE]
      BY <1>2 DEF Settle
  <2>2. reader \in Seconds
      BY <1>2 DEF BoardsIInv, ReaderInv, Idle, Answers, Walks
  <2>3. reader' \in Seconds /\ reader'.resettled
      BY <2>1, <2>2 DEF Seconds
  <2>4. reader'.at = "second"
      BY <2>3 DEF Seconds
  <2>5. QED
      BY <1>1, <2>3, <2>4
         DEF BoardsIInv, ReaderInv, SecondWithin, MeIsConsistent, WalkInv
<1>3. CASE ~(reader.at = "second" /\ bet[n].status = "won")
  <2>1. reader' = reader
      BY <1>3 DEF Settle
  <2>2. CASE bet[n].status # "won"
    <3>1. \A i \in AllTimeBets : i \in DOMAIN bet' /\ bet'[i] = bet[i]
        BY <2>2, SettleKeepsTable DEF BoardsIInv
    <3>2. QED
        BY <1>1, <2>1, <3>1, TableStepKeeps
  <2>3. CASE reader.at # "second"
      BY <1>1, <2>1, <2>3
         DEF BoardsIInv, ReaderInv, SecondWithin, MeIsConsistent, WalkInv
  <2>4. QED
      BY <1>3, <2>2, <2>3
<1>4. QED
    BY <1>2, <1>3

\* What the boards hold for a player.
LEMMA BoardsHold ==
    ASSUME TableInv, NEW u \in Players
    PROVE  /\ AllTimeBets \in SUBSET DOMAIN bet /\ WeeklyBets \in SUBSET AllTimeBets
           /\ TallyOf(WeeklyBets)[u] = EntryOf(u, WeeklyBets)
           /\ TallyOf(AllTimeBets)[u] = EntryOf(u, AllTimeBets)
           /\ EntryOf(u, WeeklyBets) \in Entries
           /\ EntryOf(u, AllTimeBets) \in Entries
<1>1. AllTimeBets \in SUBSET DOMAIN bet /\ WeeklyBets \in SUBSET AllTimeBets
    BY DEF AllTimeBets, WeeklyBets
<1>2. bet \in Seq(BetRows) /\ WeeklyBets \in SUBSET DOMAIN bet
    BY <1>1 DEF TableInv
<1>3. QED
    BY <1>1, <1>2, TallyOfCounts, EntryType

LEMMA FirstBoardKeeps ==
    ASSUME BoardsIInv, NEW u \in Players, ReadFirstBoard(u)
    PROVE  BoardsIInv'
<1>1. TableInv' /\ AllTimeBets' = AllTimeBets /\ bet' = bet
    BY DEF BoardsIInv, TableInv, ReadFirstBoard, AllTimeBets
<1>2. reader' = [at |-> "second", user |-> u, weekly |-> EntryOf(u, WeeklyBets),
                 resettled |-> FALSE]
    BY BoardsHold DEF BoardsIInv, ReadFirstBoard
<1>3. reader' \in Seconds
    BY <1>2, BoardsHold DEF BoardsIInv, Seconds
<1>4. PICK now : now = EntryOf(u, AllTimeBets)
    OBVIOUS
<1>5. EntryOf(reader.user, AllTimeBets)' = now
    BY <1>1, <1>2, <1>4 DEF EntryOf, Of, Winnings, Multipliers
<1>6. /\ EntryOf(u, WeeklyBets).totalWinnings <= now.totalWinnings
      /\ EntryOf(u, WeeklyBets).bestMultiplier <= now.bestMultiplier
    BY <1>4, BoardsHold, FewerCountLess DEF BoardsIInv, TableInv
<1>7. SecondWithin'
    BY <1>2, <1>5, <1>6 DEF SecondWithin
<1>8. QED
    BY <1>1, <1>2, <1>3, <1>7 DEF BoardsIInv, ReaderInv, MeIsConsistent, WalkInv

LEMMA SecondBoardKeeps ==
    ASSUME BoardsIInv, ReadSecondBoard
    PROVE  BoardsIInv'
<1>1. TableInv'
    BY DEF BoardsIInv, TableInv, ReadSecondBoard
<1>2. reader \in Seconds
    BY DEF BoardsIInv, ReaderInv, ReadSecondBoard, Idle, Answers, Walks
<1>3. PICK u \in Players : u = reader.user
    BY <1>2 DEF Seconds
<1>4. reader' = [at |-> "me", weekly |-> reader.weekly, allTime |-> EntryOf(u, AllTimeBets),
                 resettled |-> reader.resettled]
    BY <1>3, BoardsHold DEF BoardsIInv, ReadSecondBoard
<1>5. reader' \in Answers
    BY <1>2, <1>3, <1>4, BoardsHold DEF BoardsIInv, Answers, Seconds
<1>6. MeIsConsistent'
    BY <1>3, <1>4 DEF MeIsConsistent, BoardsIInv, SecondWithin, ReadSecondBoard
<1>7. QED
    BY <1>1, <1>4, <1>5, <1>6 DEF BoardsIInv, ReaderInv, SecondWithin, WalkInv

LEMMA StartWalkKeeps ==
    ASSUME BoardsIInv, StartWalk
    PROVE  BoardsIInv'
<1>1. TableInv'
    BY DEF BoardsIInv, TableInv, StartWalk
<1>2. PICK list \in Lists, u \in Players :
          reader' = [at |-> "walk", list |-> list, user |-> u, page |-> 1, shown |-> {},
                     start |-> Content(list, u), basis |-> Basis(list, u),
                     disturbed |-> FALSE]
    BY DEF StartWalk
<1>3. PICK content, basis :
          /\ content = Content(list, u) /\ basis = Basis(list, u)
          /\ reader' = [at |-> "walk", list |-> list, user |-> u, page |-> 1, shown |-> {},
                        start |-> content, basis |-> basis, disturbed |-> FALSE]
    BY <1>2
<1>4. /\ IsFiniteSet(content) /\ content \in SUBSET Items
      /\ basis \in (SUBSET Items) \cup [Players -> Entries]
      /\ Place(list, basis) \in [content -> Nat]
    BY <1>3, ListsSorted DEF BoardsIInv
<1>5. reader' \in Walks
    BY <1>3, <1>4 DEF Walks
<1>6. PICK place \in [content -> Nat] : place = Place(list, basis)
    BY <1>4
<1>7. Place(reader'.list, reader'.basis) = place /\ DOMAIN place = content
    BY <1>3, <1>6
<1>8. \A x : Cardinality(Ahead(x, place)) \in Nat
  <2>1. \A x : Ahead(x, place) \in SUBSET content
      BY <1>7 DEF Ahead
  <2>2. QED
      BY <1>4, <2>1, FS_Subset, FS_CardinalityType
<1>9. (reader'.page - 1) * PageSize = 0
    BY <1>3, BoardsAssumption
<1>10. WalkInv'
    BY <1>3, <1>7, <1>8, <1>9 DEF WalkInv, Place
<1>11. QED
    BY <1>1, <1>3, <1>5, <1>10 DEF BoardsIInv, ReaderInv, SecondWithin, MeIsConsistent

LEMMA LeaveKeeps ==
    ASSUME BoardsIInv, Leave
    PROVE  BoardsIInv'
<1>1. TableInv'
    BY DEF BoardsIInv, TableInv, Leave
<1>2. reader' = Idle
    BY DEF Leave
<1>3. QED
    BY <1>1, <1>2 DEF BoardsIInv, ReaderInv, SecondWithin, MeIsConsistent, WalkInv, Idle

\* Between two pages of a walk that nothing disturbs, entries only join the list,
\* and a board does not change at all.
LEMMA PlacesStay ==
    ASSUME NEW list, NEW old, NEW new, ~Disturbed(list, old, new)
    PROVE  /\ DOMAIN Place(list, old) \subseteq DOMAIN Place(list, new)
           /\ \A y \in DOMAIN Place(list, old) : Place(list, new)[y] = Place(list, old)[y]
           /\ list = "board" => Place(list, new) = Place(list, old)
<1>1. CASE list = "board"
    BY <1>1 DEF Disturbed
<1>2. CASE list # "board"
    BY <1>2 DEF Disturbed, Place
<1>3. QED
    BY <1>1, <1>2

\* A page of an undisturbed walk, as the list stands when it is read, passes over
\* no entry that is still to be shown.
LEMMA PagePassesNone ==
    ASSUME BoardsIInv, reader.at = "walk", ~reader.disturbed,
           NEW basis, basis = Basis(reader.list, reader.user),
           ~Disturbed(reader.list, reader.basis, basis),
           NEW order \in Orders(reader.list, reader.user),
           NEW x \in reader.start \ reader.shown,
           x \notin ToSet(Page(order, reader.page)),
           Unrivalled(x, Place(reader.list, basis))
    PROVE  /\ Cardinality(Ahead(x, Place(reader.list, basis))) >= reader.page * PageSize
           /\ ~(Len(Page(order, reader.page)) < PageSize)
<1>1. PICK list \in Lists, u \in Players, p \in Nat \ {0} :
          list = reader.list /\ u = reader.user /\ p = reader.page
  <2>1. reader \in Walks
      BY DEF BoardsIInv, ReaderInv, Idle, Seconds, Answers
  <2>2. QED
      BY <2>1 DEF Walks
<1>2. PICK C : C = Content(list, u)
    OBVIOUS
<1>3. PICK place \in [C -> Nat] : place = Place(list, basis)
    BY <1>1, <1>2, ListsSorted DEF BoardsIInv
<1>4. /\ IsFiniteSet(C) /\ order \in SetToSeqs(C)
      /\ \A i, j \in DOMAIN order : i < j => place[order[i]] >= place[order[j]]
    BY <1>1, <1>2, <1>3, ListsSorted DEF BoardsIInv
<1>5. PICK before : before = Place(list, reader.basis)
    OBVIOUS
<1>6. /\ DOMAIN before \subseteq C
      /\ \A y \in DOMAIN before : place[y] = before[y]
      /\ x \in DOMAIN before
  <2>1. DOMAIN place = C
      BY <1>3
  <2>2. x \in DOMAIN before
      BY <1>1, <1>5 DEF BoardsIInv, WalkInv
  <2>3. QED
      BY <1>1, <1>3, <1>5, <2>1, <2>2, PlacesStay
<1>7. Unrivalled(x, before)
    BY <1>1, <1>3, <1>6 DEF Unrivalled
<1>8. Cardinality(Ahead(x, before)) >= (p - 1) * PageSize
    BY <1>1, <1>5, <1>7 DEF BoardsIInv, WalkInv
<1>9. /\ Cardinality(Ahead(x, before)) <= Cardinality(Ahead(x, place))
      /\ Cardinality(Ahead(x, before)) \in Nat /\ Cardinality(Ahead(x, place)) \in Nat
  <2>1. Ahead(x, place) \in SUBSET C /\ Ahead(x, before) \in SUBSET Ahead(x, place)
      BY <1>3, <1>6 DEF Ahead
  <2>2. IsFiniteSet(Ahead(x, place)) /\ IsFiniteSet(Ahead(x, before))
      BY <1>4, <2>1, FS_Subset
  <2>3. QED
      BY <2>1, <2>2, FS_Subset, FS_CardinalityType
<1>10. PICK n \in Nat : /\ n = Len(order) /\ order \in Seq(C) /\ DOMAIN order = 1 .. n
                        /\ \A y \in C : \E i \in 1 .. n : order[i] = y
  <2>1. PICK n \in Nat : n = Cardinality(C)
      BY <1>4, EnumerationReaches
  <2>2. /\ n = Len(order) /\ order \in Seq(C)
        /\ \A y \in C : \E i \in 1 .. n : order[i] = y
      BY <1>4, <2>1, EnumerationReaches
  <2>3. QED
      BY <2>2
<1>11. PICK k \in 1 .. n : order[k] = x
    BY <1>6, <1>10
<1>12. Cardinality(Ahead(x, place)) = k - 1
  <2>1. k \in DOMAIN order /\ Unrivalled(order[k], place)
      BY <1>1, <1>3, <1>10, <1>11
  <2>2. Cardinality(Ahead(order[k], place)) = k - 1
      BY <1>4, <2>1, StandsBehind
  <2>3. QED
      BY <1>11, <2>2
<1>13. PICK a \in Nat, b \in Nat : a = (p - 1) * PageSize /\ b = p * PageSize
    BY BoardsAssumption
<1>14. a < k
    BY <1>8, <1>9, <1>12, <1>13
<1>15. ~(k <= b)
  <2>1. \A j \in 1 .. n : a < j /\ j <= b => order[j] \in ToSet(Page(order, p))
      BY <1>10, <1>13, PageShows
  <2>2. x \notin ToSet(Page(order, p))
      BY <1>1
  <2>3. QED
      BY <1>11, <1>14, <2>1, <2>2
<1>16. Len(Page(order, p)) < PageSize => n < b
    BY <1>10, <1>13, PageShows
<1>17. QED
    BY <1>1, <1>3, <1>12, <1>13, <1>15, <1>16

LEMMA PageKeeps ==
    ASSUME BoardsIInv, ReadPage
    PROVE  BoardsIInv'
<1>1. TableInv'
    BY DEF BoardsIInv, TableInv, ReadPage
<1>2. reader \in Walks /\ reader.at = "walk"
    BY DEF BoardsIInv, ReaderInv, ReadPage, Idle, Seconds, Answers, Walks
<1>3. PICK list \in Lists, u \in Players, p \in Nat \ {0} :
          list = reader.list /\ u = reader.user /\ p = reader.page
    BY <1>2 DEF Walks
<1>4. PICK order \in Orders(list, u) :
          reader' = [reader EXCEPT
              !.at = IF Len(Page(order, p)) < PageSize THEN "end" ELSE "walk",
              !.page = p + 1,
              !.shown = reader.shown \cup ToSet(Page(order, p)),
              !.basis = Basis(list, u),
              !.disturbed = reader.disturbed \/ Disturbed(list, reader.basis, Basis(list, u))]
    BY <1>3 DEF ReadPage
<1>5. PICK page, basis, at, shown, disturbed :
          /\ page = Page(order, p) /\ basis = Basis(list, u)
          /\ at = IF Len(page) < PageSize THEN "end" ELSE "walk"
          /\ shown = reader.shown \cup ToSet(page)
          /\ disturbed = (reader.disturbed \/ Disturbed(list, reader.basis, basis))
          /\ reader' = [reader EXCEPT !.at = at, !.page = p + 1, !.shown = shown,
                                      !.basis = basis, !.disturbed = disturbed]
    BY <1>4
<1>6. PICK C : C = Content(list, u)
    OBVIOUS
<1>7. /\ IsFiniteSet(C) /\ C \in SUBSET Items
      /\ basis \in (SUBSET Items) \cup [Players -> Entries]
      /\ Place(list, basis) \in [C -> Nat]
      /\ order \in SetToSeqs(C)
    BY <1>5, <1>6, ListsSorted DEF BoardsIInv
<1>8. ToSet(page) \subseteq Items
  <2>1. order \in Seq(C)
      BY <1>7, EnumerationReaches
  <2>2. ToSet(page) \subseteq C
      BY <1>5, <2>1, PageShows
  <2>3. QED
      BY <1>7, <2>2
<1>9. at \in {"walk", "end"} /\ disturbed \in BOOLEAN /\ shown \in SUBSET Items
      /\ p + 1 \in Nat \ {0}
  <2>1. at \in {"walk", "end"} /\ p + 1 \in Nat \ {0}
      BY <1>5
  <2>2. shown \in SUBSET Items
      BY <1>2, <1>5, <1>8 DEF Walks
  <2>3. disturbed \in BOOLEAN
      BY <1>5
  <2>4. QED
      BY <2>1, <2>2, <2>3
<1>10. /\ reader' \in Walks
      /\ reader'.at = at /\ reader'.page = p + 1 /\ reader'.shown = shown
      /\ reader'.list = list /\ reader'.start = reader.start
      /\ reader'.basis = basis /\ reader'.disturbed = disturbed
  <2>1. reader' = [reader EXCEPT !.at = at, !.page = p + 1, !.shown = shown,
                                !.basis = basis, !.disturbed = disturbed]
      BY <1>5
  <2>2. QED
      BY <1>2, <1>3, <1>7, <1>9, <2>1 DEF Walks
<1>11. WalkInv'
  <2>1. SUFFICES ASSUME ~reader'.disturbed PROVE WalkInv'
      BY DEF WalkInv
  <2>2. ~reader.disturbed /\ ~Disturbed(list, reader.basis, basis)
      BY <1>5, <1>10, <2>1
  <2>3. PICK place : place = Place(list, basis)
      OBVIOUS
  <2>4. PICK before : before = Place(list, reader.basis)
      OBVIOUS
  <2>5. reader.start \subseteq DOMAIN before /\ (list = "board" => reader.start = DOMAIN before)
      BY <1>2, <1>3, <2>2, <2>4 DEF BoardsIInv, WalkInv
  <2>6. DOMAIN before \subseteq DOMAIN place /\ (list = "board" => place = before)
      BY <2>2, <2>3, <2>4, PlacesStay
  <2>7. reader.start \subseteq DOMAIN place /\ (list = "board" => reader.start = DOMAIN place)
      BY <2>5, <2>6
  <2>8. ASSUME NEW x \in reader.start \ shown, Unrivalled(x, place)
        PROVE  reader'.at = "walk" /\ Cardinality(Ahead(x, place)) >= p * PageSize
      BY <1>2, <1>3, <1>5, <1>10, <2>2, <2>3, <2>8, PagePassesNone
  <2>9. (reader'.page - 1) * PageSize = p * PageSize
      BY <1>10
  <2>10. QED
      BY <1>10, <2>3, <2>7, <2>8, <2>9 DEF WalkInv
<1>12. reader'.at \in {"walk", "end"}
    BY <1>9, <1>10
<1>13. QED
    BY <1>1, <1>10, <1>11, <1>12 DEF BoardsIInv, ReaderInv, SecondWithin, MeIsConsistent

\* What players are shown keeps the inductive invariant: rows stay what queries
\* take them for, what "me" has read of the week is still counted for all time, and
\* a walk that nothing disturbs has passed only over what it has shown.
THEOREM BoardsInvariance == Spec => []BoardsIInv
<1>1. BoardsIInv /\ [Next]_boardsVars => BoardsIInv'
  <2> SUFFICES ASSUME BoardsIInv, [Next]_boardsVars PROVE BoardsIInv'
      OBVIOUS
  <2>1. CASE PlaceBet
    <3>1. reader' = reader
        BY <2>1 DEF PlaceBet
    <3>2. QED
        BY <2>1, <3>1, PlaceKeepsTable, TableStepKeeps DEF BoardsIInv
  <2>2. CASE CrashRound \/ NextDay
    <3>1. reader' = reader /\ bet' = bet
        BY <2>2 DEF CrashRound, NextDay
    <3>2. \A i \in AllTimeBets : i \in DOMAIN bet' /\ bet'[i] = bet[i]
        BY <3>1 DEF AllTimeBets
    <3>3. QED
        BY <2>2, <3>1, <3>2, RoundOrDayKeepsTable, TableStepKeeps DEF BoardsIInv
  <2>3. CASE \E i \in DOMAIN bet : Settle(i)
      BY <2>3, SettleKeeps
  <2>4. CASE \E u \in Players : ReadFirstBoard(u)
      BY <2>4, FirstBoardKeeps
  <2>5. CASE ReadSecondBoard
      BY <2>5, SecondBoardKeeps
  <2>6. CASE StartWalk
      BY <2>6, StartWalkKeeps
  <2>7. CASE ReadPage
      BY <2>7, PageKeeps
  <2>8. CASE Leave
      BY <2>8, LeaveKeeps
  <2>9. CASE UNCHANGED boardsVars
    <3>1. bet' = bet /\ crashed' = crashed /\ today' = today /\ reader' = reader
        BY <2>9 DEF boardsVars
    <3>2. TableInv' /\ \A i \in AllTimeBets : i \in DOMAIN bet' /\ bet'[i] = bet[i]
        BY <3>1 DEF BoardsIInv, TableInv, AllTimeBets
    <3>3. QED
        BY <3>1, <3>2, TableStepKeeps
  <2>10. QED
      BY <2>1, <2>2, <2>3, <2>4, <2>5, <2>6, <2>7, <2>8, <2>9 DEF Next
<1>2. QED
    BY <1>1, BoardsStart, PTL DEF Spec

-----------------------------------------------------------------------------
(* What the boards show *)

\* A day up to t is in the week of t exactly if it is not before the start of
\* that week.
LEMMA WeekStarts ==
    ASSUME NEW D \in Nat \ {0}, NEW t \in Nat, NEW c \in Nat, c <= t
    PROVE  c \in (t - (t % D)) .. (t - (t % D) + D) <=> c \div D = t \div D
<1>1. PICK q \in Nat, r \in Nat : q = t \div D /\ r = t % D /\ r < D /\ t = D * q + r
    OBVIOUS
<1>2. PICK k \in Nat, s \in Nat : k = c \div D /\ s < D /\ c = D * k + s
  <2>1. /\ c \div D \in Nat /\ c % D \in Nat /\ c % D < D
        /\ c = D * (c \div D) + (c % D)
      OBVIOUS
  <2>2. QED
      BY <2>1
<1>3. PICK P \in Int : P = D * q
    OBVIOUS
<1>4. PICK Q \in Int : Q = D * k
    OBVIOUS
<1>5. t = P + r /\ c = Q + s /\ t - (t % D) = P
  <2>1. t = P + r /\ c = Q + s
      BY <1>1, <1>2, <1>3, <1>4
  <2>2. t - (t % D) = t - r
      BY <1>1
  <2>3. QED
      BY <2>1, <2>2
<1>6. CASE k = q
    BY <1>1, <1>2, <1>3, <1>4, <1>5, <1>6
<1>7. CASE k < q
  <2>1. PICK j \in Nat : q = k + 1 + j
    <3>1. q - k - 1 \in Nat /\ q = k + 1 + (q - k - 1)
        BY <1>7
    <3>2. QED
        BY <3>1
  <2>2. PICK J \in Nat : J = D * j
      OBVIOUS
  <2>3. P = Q + D + J
      BY <1>3, <1>4, <2>1, <2>2
  <2>4. c < P
      BY <1>2, <1>5, <2>3
  <2>5. QED
      BY <1>1, <1>2, <1>5, <1>7, <2>4
<1>8. CASE k > q
  <2>1. PICK j \in Nat : k = q + 1 + j
    <3>1. k - q - 1 \in Nat /\ k = q + 1 + (k - q - 1)
        BY <1>8
    <3>2. QED
        BY <3>1
  <2>2. PICK J \in Nat : J = D * j
      OBVIOUS
  <2>3. Q = P + D + J
      BY <1>3, <1>4, <2>1, <2>2
  <2>4. QED
      BY <1>1, <1>2, <1>5, <2>3
<1>9. QED
    BY <1>6, <1>7, <1>8

\* Rows and readers have the types that the handlers give them; a walk shows
\* nothing but entries of its list.
THEOREM BoardsTypeCorrectness == Spec => []BoardsTypeOK
<1>1. BoardsIInv => BoardsTypeOK
  <2> SUFFICES ASSUME BoardsIInv PROVE BoardsTypeOK
      OBVIOUS
  <2>1. TableInv /\ ReaderInv
      BY DEF BoardsIInv
  <2>2. reader.at \in {"idle", "second", "me", "walk", "end"}
      BY <2>1 DEF ReaderInv, Idle, Seconds, Answers, Walks
  <2>3. ASSUME reader.at \in {"walk", "end"} PROVE reader.shown \subseteq Items
      BY <2>1, <2>3 DEF ReaderInv, Idle, Seconds, Answers, Walks
  <2>4. QED
      BY <2>1, <2>2, <2>3 DEF BoardsTypeOK, TableInv, Items
<1>2. QED
    BY <1>1, BoardsInvariance, PTL

\* The map that weekly and allTime build and the sums of getStats agree on every
\* player, in whatever order the rows arrive.
THEOREM BoardsAgree == Spec => []BoardsMatchProfiles
<1>1. BoardsIInv => BoardsMatchProfiles
  <2> SUFFICES ASSUME BoardsIInv, NEW order \in SetToSeqs(AllTimeBets), NEW u \in Players
               PROVE  Tally(order)[u] = ProfileOf(u)
      BY DEF BoardsMatchProfiles
  <2>1. bet \in Seq(BetRows)
      BY DEF BoardsIInv, TableInv
  <2>2. AllTimeBets \in SUBSET DOMAIN bet
      BY DEF AllTimeBets
  <2>3. Tally(order) = [v \in Players |-> EntryOf(v, AllTimeBets)]
      BY <2>1, <2>2, TallyCounts
  <2>4. QED
      BY <2>1, <2>3, ProfileIsEntry
<1>2. QED
    BY <1>1, BoardsInvariance, PTL

\* The window of weekly, which closes a day after the week, still counts this
\* calendar week alone, since no bet was created in the future.
THEOREM WeekCounted == Spec => []WeekIsThisWeek
<1>1. BoardsIInv => WeekIsThisWeek
  <2> SUFFICES ASSUME BoardsIInv PROVE WeekIsThisWeek
      OBVIOUS
  <2>1. today \in Nat /\ DaysInWeek \in Nat \ {0}
      BY BoardsAssumption DEF BoardsIInv, TableInv
  <2>2. ASSUME NEW i \in DOMAIN bet
        PROVE  bet[i].createdAt \in StartOfWeek .. StartOfWeek + DaysInWeek
                   <=> bet[i].createdAt \div DaysInWeek = today \div DaysInWeek
    <3>1. PICK c \in Nat : c = bet[i].createdAt /\ c <= today
      <4>1. bet[i] \in BetRows /\ bet[i].createdAt <= today
          BY RowsCount DEF BoardsIInv, TableInv
      <4>2. bet[i].createdAt \in Nat
          BY <4>1, BoardsAssumption DEF BetRows
      <4>3. QED
          BY <4>1, <4>2
    <3>2. QED
        BY <2>1, <3>1, WeekStarts DEF StartOfWeek
  <2>3. QED
      BY <2>2 DEF WeekIsThisWeek, WeeklyBets, AllTimeBets
<1>2. QED
    BY <1>1, BoardsInvariance, PTL

\* The two queries of "me" run at different moments, yet the week never exceeds
\* all time unless a counted bet was settled again in between.
THEOREM MeNeverContradicts == Spec => []MeIsConsistent
<1>1. BoardsIInv => MeIsConsistent
    BY DEF BoardsIInv
<1>2. QED
    BY <1>1, BoardsInvariance, PTL

\* Skip and take, over lists that grow meanwhile, miss no entry of an undisturbed
\* walk but a player whose winnings another one equals.
THEOREM WalksMissNothing == Spec => []WalkMissesNothing
<1>1. BoardsIInv => WalkMissesNothing
  <2> SUFFICES ASSUME BoardsIInv, reader.at = "end", ~reader.disturbed,
                      NEW x \in reader.start \ reader.shown
               PROVE  /\ reader.list = "board"
                      /\ \E y \in reader.start \ {x} :
                            reader.basis[x].totalWinnings = reader.basis[y].totalWinnings
      BY DEF WalkMissesNothing
  <2>1. PICK place : place = Place(reader.list, reader.basis)
      OBVIOUS
  <2>2. /\ reader.start \subseteq DOMAIN place
        /\ reader.list = "board" => reader.start = DOMAIN place
        /\ ~Unrivalled(x, place)
      BY <2>1 DEF BoardsIInv, WalkInv
  <2>3. PICK y \in DOMAIN place : y # x /\ place[y] = place[x]
      BY <2>2 DEF Unrivalled
  <2>4. reader.list = "board"
      BY <2>1, <2>2, <2>3 DEF Place
  <2>5. /\ place[x] = reader.basis[x].totalWinnings
        /\ place[y] = reader.basis[y].totalWinnings
      BY <2>1, <2>2, <2>3, <2>4 DEF Place
  <2>6. y \in reader.start \ {x}
      BY <2>2, <2>3, <2>4
  <2>7. QED
      BY <2>3, <2>4, <2>5, <2>6
<1>2. QED
    BY <1>1, BoardsInvariance, PTL

=============================================================================
