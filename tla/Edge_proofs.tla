----------------------------- MODULE Edge_proofs -----------------------------
(***************************************************************************)
(* Proofs about the edge of the process: RateLimit, for any limit, any      *)
(* window and any spacing of the messages of a connection; and Startup, for *)
(* every environment, every .env file and every set of variables that the   *)
(* guard asks of a merchant.                                                *)
(***************************************************************************)
EXTENDS RateLimit, Startup, FiniteSetTheorems, TLAPS

\* The windows that the messages of a connection were counted in, w[i] being the
\* start of the window of the i-th: a message lies in its window, a new window
\* starts after the old one is over, and no window counts more than the limit.
\* The entry knows the last of them.
Windows(w) ==
    LET n == Len(accepted)
    IN  /\ w \in [1 .. n -> Nat]
        /\ \A i \in 1 .. n : w[i] <= accepted[i] /\ accepted[i] <= w[i] + Window
        /\ \A i, j \in 1 .. n : i < j => w[i] = w[j] \/ w[i] + Window < w[j]
        /\ \A i, j \in 1 .. n : i + Limit <= j => w[i] # w[j]
        /\ entry # NoWindow =>
               \A i \in 1 .. n : IF i > n - entry.count THEN w[i] = entry.lastReset
                                                        ELSE w[i] < entry.lastReset

LimitTypeOK ==
    /\ time \in Nat
    /\ accepted \in Seq(Nat)
    /\ refused \in Nat \cup {-1}
    /\ entry \in {NoWindow} \cup [count : 1 .. Limit, lastReset : 0 .. time]
    /\ IF entry = NoWindow THEN accepted = <<>> ELSE entry.count <= Len(accepted)

\* No message was accepted in the future.
AcceptedInPast == \A i \in 1 .. Len(accepted) : accepted[i] <= time

\* When a message was refused, a limit's worth in a row had been accepted.
RefusedAfterRun ==
    refused >= 0 =>
        \E k \in 0 .. Len(accepted) - Limit :
            \A j \in k + 1 .. k + Limit : accepted[j] \in refused - Window .. refused

\* The inductive invariant.
LimitIInv ==
    /\ LimitTypeOK
    /\ AcceptedInPast
    /\ \E w : Windows(w)
    /\ RefusedAfterRun

-----------------------------------------------------------------------------

LEMMA LimitInitIInv == LimitInit => LimitIInv
<1> SUFFICES ASSUME LimitInit PROVE LimitIInv
    OBVIOUS
<1>1. LimitTypeOK
    BY DEF LimitInit, LimitTypeOK
<1>2. Windows(<<>>)
    BY DEF LimitInit, Windows
<1>3. RefusedAfterRun /\ AcceptedInPast
    BY DEF LimitInit, RefusedAfterRun, AcceptedInPast
<1>4. QED
    BY <1>1, <1>2, <1>3 DEF LimitIInv

\* The parts of an accepted message that do not depend on its window.
LEMMA AcceptAppends ==
    ASSUME LimitIInv, Accept
    PROVE  /\ accepted' \in Seq(Nat)
           /\ Len(accepted') = Len(accepted) + 1
           /\ accepted'[Len(accepted) + 1] = time
           /\ \A i \in 1 .. Len(accepted) : accepted'[i] = accepted[i]
           /\ RefusedAfterRun'
           /\ AcceptedInPast'
<1>1. time \in Nat /\ accepted \in Seq(Nat) /\ accepted' = Append(accepted, time)
    BY DEF LimitIInv, LimitTypeOK, Accept
<1>2. /\ accepted' \in Seq(Nat) /\ Len(accepted') = Len(accepted) + 1
      /\ accepted'[Len(accepted) + 1] = time
      /\ \A i \in 1 .. Len(accepted) : accepted'[i] = accepted[i]
    BY <1>1
<1>3. RefusedAfterRun'
  <2>1. SUFFICES ASSUME refused >= 0
                 PROVE  \E k \in 0 .. Len(accepted') - Limit :
                            \A j \in k + 1 .. k + Limit :
                                accepted'[j] \in refused - Window .. refused
      BY DEF Accept, RefusedAfterRun
  <2>2. PICK k \in 0 .. Len(accepted) - Limit :
            \A j \in k + 1 .. k + Limit : accepted[j] \in refused - Window .. refused
      BY <2>1 DEF LimitIInv, RefusedAfterRun
  <2>3. Len(accepted) \in Nat /\ Limit \in Nat
      BY <1>1, RateLimitAssumption DEF RateLimitAssumption
  <2>4. k \in 0 .. Len(accepted') - Limit
      BY <1>2, <2>2, <2>3
  <2>5. \A j \in k + 1 .. k + Limit : j \in 1 .. Len(accepted)
      BY <2>2, <2>3
  <2>6. QED
      BY <1>2, <2>2, <2>4, <2>5
<1>4. AcceptedInPast'
  <2>1. time' = time
      BY DEF Accept
  <2>2. \A i \in 1 .. Len(accepted) + 1 : i \in 1 .. Len(accepted) \/ i = Len(accepted) + 1
      BY <1>1
  <2>3. QED
      BY <1>1, <1>2, <2>1, <2>2 DEF LimitIInv, AcceptedInPast
<1>5. QED
    BY <1>2, <1>3, <1>4

\* A message counted in the window that starts at s.
LEMMA AcceptKeeps ==
    ASSUME LimitIInv, Accept, NEW s \in Nat, NEW c \in 1 .. Limit,
           entry' = [count |-> c, lastReset |-> s],
           s <= time, time <= s + Window, c <= Len(accepted) + 1,
           NEW w, Windows(w),
           \A i \in 1 .. Len(accepted) : IF i > Len(accepted) + 1 - c THEN w[i] = s
                                                                     ELSE w[i] + Window < s
    PROVE  LimitIInv'
<1> DEFINE n == Len(accepted)
<1>1. n \in Nat /\ Window \in Nat /\ Limit \in Nat \ {0} /\ time \in Nat /\ time' = time
    BY RateLimitAssumption DEF RateLimitAssumption, LimitIInv, LimitTypeOK, Accept
<1>2. entry' # NoWindow /\ entry'.count = c /\ entry'.lastReset = s
    BY <1>1 DEF NoWindow
<1>3. LimitTypeOK'
    BY <1>1, <1>2, AcceptAppends DEF LimitTypeOK, LimitIInv, Accept
<1>4. w \in [1 .. n -> Nat]
    BY DEF Windows
<1>5. PICK x : x \in [1 .. n + 1 -> Nat] /\ x[n + 1] = s /\ \A i \in 1 .. n : x[i] = w[i]
  <2> DEFINE x == [i \in 1 .. n + 1 |-> IF i <= n THEN w[i] ELSE s]
  <2>1. x \in [1 .. n + 1 -> Nat] /\ x[n + 1] = s /\ \A i \in 1 .. n : x[i] = w[i]
      BY <1>1, <1>4
  <2>2. QED
      BY <2>1
<1>6. \A i \in 1 .. n + 1 : i \in 1 .. n \/ i = n + 1
    BY <1>1
<1>7. \A i \in 1 .. n + 1 : x[i] <= accepted'[i] /\ accepted'[i] <= x[i] + Window
    BY <1>5, <1>6, AcceptAppends DEF Windows
<1>8. \A i \in 1 .. n : x[i] = s \/ x[i] + Window < s
    BY <1>5
<1>9. \A i, j \in 1 .. n + 1 : i < j => x[i] = x[j] \/ x[i] + Window < x[j]
  <2>1. SUFFICES ASSUME NEW i \in 1 .. n + 1, NEW j \in 1 .. n + 1, i < j
                 PROVE  x[i] = x[j] \/ x[i] + Window < x[j]
      OBVIOUS
  <2>2. i \in 1 .. n
      BY <1>1, <2>1
  <2>3. CASE j \in 1 .. n
      BY <1>5, <2>1, <2>2, <2>3 DEF Windows
  <2>4. CASE j = n + 1
      BY <1>5, <1>8, <2>2, <2>4
  <2>5. QED
      BY <1>6, <2>3, <2>4
<1>10. \A i, j \in 1 .. n + 1 : i + Limit <= j => x[i] # x[j]
  <2>1. SUFFICES ASSUME NEW i \in 1 .. n + 1, NEW j \in 1 .. n + 1, i + Limit <= j
                 PROVE  x[i] # x[j]
      OBVIOUS
  <2>2. i \in 1 .. n
      BY <1>1, <2>1
  <2>3. CASE j \in 1 .. n
      BY <1>5, <2>1, <2>2, <2>3 DEF Windows
  <2>4. CASE j = n + 1
    <3>1. ~(i > n + 1 - c)
        BY <1>1, <2>1, <2>4
    <3>2. w[i] + Window < s /\ w[i] \in Nat
        BY <1>4, <2>2, <3>1
    <3>3. QED
        BY <1>1, <1>5, <2>2, <2>4, <3>2
  <2>5. QED
      BY <1>6, <2>3, <2>4
<1>11. \A i \in 1 .. n + 1 : IF i > n + 1 - c THEN x[i] = s ELSE x[i] < s
  <2>1. SUFFICES ASSUME NEW i \in 1 .. n + 1
                 PROVE  IF i > n + 1 - c THEN x[i] = s ELSE x[i] < s
      OBVIOUS
  <2>2. CASE i \in 1 .. n
    <3>1. w[i] \in Nat /\ x[i] = w[i]
        BY <1>4, <1>5, <2>2
    <3>2. QED
        BY <1>1, <2>2, <3>1
  <2>3. CASE i = n + 1
      BY <1>1, <1>5, <2>3
  <2>4. QED
      BY <1>6, <2>2, <2>3
<1>12. Windows(x)'
    BY <1>2, <1>5, <1>7, <1>9, <1>10, <1>11, AcceptAppends DEF Windows
<1>13. QED
    BY <1>3, <1>12, AcceptAppends DEF LimitIInv

LEMMA ResetKeeps == ASSUME LimitIInv, Reset PROVE LimitIInv'
<1>1. Window \in Nat /\ Limit \in Nat \ {0} /\ time \in Nat /\ Len(accepted) \in Nat
    BY RateLimitAssumption DEF RateLimitAssumption, LimitIInv, LimitTypeOK
<1>2. PICK w : Windows(w)
    BY DEF LimitIInv
<1>3. w \in [1 .. Len(accepted) -> Nat]
    BY <1>2 DEF Windows
<1>4. \A i \in 1 .. Len(accepted) : w[i] + Window < time
  <2>1. CASE entry = NoWindow
      BY <2>1 DEF LimitIInv, LimitTypeOK
  <2>2. CASE entry # NoWindow
    <3>1. time - entry.lastReset > Window /\ entry.lastReset \in Nat
        BY <1>1, <2>2 DEF Reset, LimitIInv, LimitTypeOK
    <3>2. \A i \in 1 .. Len(accepted) : w[i] <= entry.lastReset
        BY <1>2, <1>3, <2>2, <3>1 DEF Windows
    <3>3. QED
        BY <1>1, <1>3, <3>1, <3>2
  <2>3. QED
      BY <2>1, <2>2
<1>5. \A i \in 1 .. Len(accepted) : ~(i > Len(accepted) + 1 - 1)
    BY <1>1
<1>6. entry' = [count |-> 1, lastReset |-> time] /\ Accept
    BY DEF Reset
<1>7. 1 \in 1 .. Limit /\ time <= time + Window /\ 1 <= Len(accepted) + 1
    BY <1>1
<1>8. QED
    BY <1>1, <1>2, <1>4, <1>5, <1>6, <1>7, AcceptKeeps

LEMMA CountMessageKeeps == ASSUME LimitIInv, CountMessage PROVE LimitIInv'
<1>1. Window \in Nat /\ Limit \in Nat \ {0} /\ time \in Nat /\ Len(accepted) \in Nat
    BY RateLimitAssumption DEF RateLimitAssumption, LimitIInv, LimitTypeOK
<1>2. entry # NoWindow /\ time - entry.lastReset <= Window /\ entry.count < Limit
    BY DEF CountMessage, InWindow
<1>3. /\ entry \in [count : 1 .. Limit, lastReset : 0 .. time]
      /\ entry.count <= Len(accepted)
    BY <1>2 DEF LimitIInv, LimitTypeOK
<1> DEFINE s == entry.lastReset
           c == entry.count + 1
<1>4. s \in Nat /\ s <= time /\ time <= s + Window /\ c \in 1 .. Limit /\ c <= Len(accepted) + 1
    BY <1>1, <1>2, <1>3
<1>5. PICK w : Windows(w)
    BY DEF LimitIInv
<1>6. \A i \in 1 .. Len(accepted) : IF i > Len(accepted) + 1 - c THEN w[i] = s
                                                                ELSE w[i] + Window < s
  <2>1. SUFFICES ASSUME NEW i \in 1 .. Len(accepted)
                 PROVE  IF i > Len(accepted) + 1 - c THEN w[i] = s ELSE w[i] + Window < s
      OBVIOUS
  <2>2. Len(accepted) + 1 - c = Len(accepted) - entry.count
      BY <1>1, <1>3
  <2>3. CASE i > Len(accepted) - entry.count
      BY <1>2, <1>5, <2>2, <2>3 DEF Windows
  <2>4. CASE ~(i > Len(accepted) - entry.count)
    <3>1. w[i] < s
        BY <1>2, <1>5, <2>4 DEF Windows
    <3>2. Len(accepted) \in 1 .. Len(accepted) /\ i < Len(accepted)
        BY <1>1, <1>3, <2>1, <2>4
    <3>3. Len(accepted) > Len(accepted) - entry.count
        BY <1>1, <1>3
    <3>4. w[Len(accepted)] = s
        BY <1>2, <1>5, <3>2, <3>3 DEF Windows
    <3>5. w[i] = w[Len(accepted)] \/ w[i] + Window < w[Len(accepted)]
        BY <1>5, <3>2 DEF Windows
    <3>6. w[i] \in Nat
        BY <1>5 DEF Windows
    <3>7. QED
        BY <1>4, <2>2, <2>4, <3>1, <3>4, <3>5, <3>6
  <2>5. QED
      BY <2>3, <2>4
<1>7. entry' = [count |-> c, lastReset |-> s] /\ Accept
    BY <1>3 DEF CountMessage
<1> HIDE DEF s, c
<1>8. QED
    BY <1>4, <1>5, <1>6, <1>7, AcceptKeeps

\* The window that refuses a message is full: its messages are the last ones.
LEMMA RefuseKeeps == ASSUME LimitIInv, Refuse PROVE LimitIInv'
<1>1. Window \in Nat /\ Limit \in Nat \ {0} /\ time \in Nat /\ Len(accepted) \in Nat
      /\ accepted \in Seq(Nat)
    BY RateLimitAssumption DEF RateLimitAssumption, LimitIInv, LimitTypeOK
<1>2. entry # NoWindow /\ time - entry.lastReset <= Window /\ entry.count >= Limit
    BY DEF Refuse, InWindow
<1>3. /\ entry \in [count : 1 .. Limit, lastReset : 0 .. time]
      /\ entry.count <= Len(accepted)
    BY <1>2 DEF LimitIInv, LimitTypeOK
<1>4. UNCHANGED <<entry, time, accepted>> /\ refused' = time
    BY DEF Refuse
<1>5. PICK w : Windows(w)
    BY DEF LimitIInv
<1>6. Windows(w)'
    BY <1>4, <1>5 DEF Windows
<1>7. RefusedAfterRun'
  <2> DEFINE k == Len(accepted) - Limit
  <2>1. k \in 0 .. Len(accepted) - Limit /\ k = Len(accepted) - entry.count
      BY <1>1, <1>2, <1>3
  <2>2. ASSUME NEW j \in k + 1 .. k + Limit
        PROVE  accepted[j] \in time - Window .. time
    <3>1. j \in 1 .. Len(accepted) /\ j > Len(accepted) - entry.count
        BY <1>1, <2>1, <2>2
    <3>2. w[j] = entry.lastReset /\ w[j] <= accepted[j]
        BY <1>2, <1>5, <3>1 DEF Windows
    <3>3. accepted[j] <= time
        BY <3>1 DEF LimitIInv, AcceptedInPast
    <3>4. accepted[j] \in Nat /\ entry.lastReset \in Nat
        BY <1>1, <1>3, <3>1
    <3>5. QED
        BY <1>1, <1>2, <3>2, <3>3, <3>4
  <2>3. QED
      BY <1>4, <2>1, <2>2 DEF RefusedAfterRun
<1>8. LimitTypeOK' /\ AcceptedInPast'
    BY <1>1, <1>4 DEF LimitIInv, LimitTypeOK, AcceptedInPast
<1>9. QED
    BY <1>6, <1>7, <1>8 DEF LimitIInv

LEMMA StepIInv == LimitIInv /\ [LimitNext]_limitVars => LimitIInv'
<1> SUFFICES ASSUME LimitIInv, [LimitNext]_limitVars PROVE LimitIInv'
    OBVIOUS
<1>1. CASE Disconnect
  <2>1. Windows(<<>>)'
      BY <1>1 DEF Disconnect, Windows
  <2>2. QED
      BY <1>1, <2>1 DEF Disconnect, LimitIInv, LimitTypeOK, AcceptedInPast, RefusedAfterRun
<1>2. CASE Pass
  <2>1. PICK w : Windows(w)
      BY DEF LimitIInv
  <2>2. Windows(w)'
      BY <1>2, <2>1 DEF Pass, Windows
  <2>3. LimitTypeOK'
    <3>1. time' \in Nat /\ 0 .. time \subseteq 0 .. time'
        BY <1>2 DEF Pass, LimitIInv, LimitTypeOK
    <3>2. QED
        BY <1>2, <3>1 DEF Pass, LimitIInv, LimitTypeOK
  <2>4. AcceptedInPast'
    <3>1. ASSUME NEW i \in 1 .. Len(accepted) PROVE accepted[i] <= time + 1
      <4>1. accepted[i] \in Nat /\ time \in Nat /\ accepted[i] <= time
          BY DEF LimitIInv, LimitTypeOK, AcceptedInPast
      <4>2. QED
          BY <4>1
    <3>2. QED
        BY <1>2, <3>1 DEF Pass, AcceptedInPast
  <2>5. RefusedAfterRun'
      BY <1>2 DEF Pass, LimitIInv, RefusedAfterRun
  <2>6. QED
      BY <2>2, <2>3, <2>4, <2>5 DEF LimitIInv
<1>3. CASE UNCHANGED limitVars
  <2>1. UNCHANGED <<entry, time, accepted, refused>>
      BY <1>3 DEF limitVars
  <2>2. PICK w : Windows(w)
      BY DEF LimitIInv
  <2>3. Windows(w)'
      BY <2>1, <2>2 DEF Windows
  <2>4. QED
      BY <2>1, <2>3 DEF LimitIInv, LimitTypeOK, AcceptedInPast, RefusedAfterRun
<1>4. QED
    BY <1>1, <1>2, <1>3, ResetKeeps, CountMessageKeeps, RefuseKeeps DEF LimitNext

\* The windows of a connection, and what the entry knows of them, in every
\* reachable state.
THEOREM WindowsKept == LimitSpec => []LimitIInv
BY LimitInitIInv, StepIInv, PTL DEF LimitSpec

-----------------------------------------------------------------------------
(* What the windows mean for the number of messages in a span of time. *)

LEMMA LeastOf ==
    ASSUME NEW S \in SUBSET Nat, S # {}
    PROVE  \E m \in S : \A k \in S : m <= k
<1>1. PICK m \in S : \A k \in S : ~(<<k, m>> \in OpToRel(<, Nat))
    BY NatLessThanWellFounded, WFMin
<1>2. \A k \in S : ~(k < m)
    BY <1>1 DEF OpToRel
<1>3. QED
    BY <1>2

\* Two messages that are twice the limit apart in number are more than a window
\* apart in time: two full windows lie between them.
LEMMA TwoWindowsApart ==
    ASSUME LimitIInv, NEW i \in 1 .. Len(accepted), NEW j \in 1 .. Len(accepted),
           i + 2 * Limit <= j
    PROVE  accepted[j] > accepted[i] + Window
<1>1. PICK w : Windows(w)
    BY DEF LimitIInv
<1>2. Window \in Nat /\ Limit \in Nat \ {0} /\ Len(accepted) \in Nat /\ accepted \in Seq(Nat)
    BY RateLimitAssumption DEF RateLimitAssumption, LimitIInv, LimitTypeOK
<1> DEFINE k == i + Limit
<1>3. k \in 1 .. Len(accepted) /\ i < k /\ k < j /\ i + Limit <= k /\ k + Limit <= j
    BY <1>2
<1>4. w[i] + Window < w[k] /\ w[k] + Window < w[j]
    BY <1>1, <1>3 DEF Windows
<1>5. accepted[i] <= w[i] + Window /\ w[j] <= accepted[j]
    BY <1>1 DEF Windows
<1>6. w[i] \in Nat /\ w[k] \in Nat /\ w[j] \in Nat /\ accepted[i] \in Nat /\ accepted[j] \in Nat
  <2>1. w \in [1 .. Len(accepted) -> Nat]
      BY <1>1 DEF Windows
  <2> HIDE DEF k
  <2>2. QED
      BY <1>2, <1>3, <2>1
<1>7. QED
    BY <1>2, <1>4, <1>5, <1>6

\* However the messages of a connection are spread around a reset, a span as long
\* as the window sees at most twice the limit.
THEOREM SpansBounded == LimitSpec => []AtMostTwiceTheLimit
<1>1. ASSUME LimitIInv, NEW i \in DOMAIN accepted
      PROVE  Cardinality({j \in DOMAIN accepted :
                             accepted[j] \in accepted[i] .. accepted[i] + Window}) <= 2 * Limit
  <2>1. Window \in Nat /\ Limit \in Nat \ {0} /\ Len(accepted) \in Nat /\ accepted \in Seq(Nat)
        /\ DOMAIN accepted = 1 .. Len(accepted)
      BY <1>1, RateLimitAssumption DEF RateLimitAssumption, LimitIInv, LimitTypeOK
  <2> DEFINE S == {j \in DOMAIN accepted :
                      accepted[j] \in accepted[i] .. accepted[i] + Window}
  <2>2. accepted[i] \in Nat
      BY <1>1, <2>1
  <2>3. i \in S /\ S \in SUBSET Nat
      BY <1>1, <2>1, <2>2
  <2>4. PICK m \in S : \A k \in S : m <= k
      BY <2>3, LeastOf
  <2>5. m \in Nat /\ m + 2 * Limit - 1 \in Int
      BY <2>1, <2>3, <2>4
  <2>6. ASSUME NEW k \in S PROVE k \in m .. m + 2 * Limit - 1
    <3>1. k \in 1 .. Len(accepted) /\ m \in 1 .. Len(accepted) /\ m <= k
        BY <2>1, <2>4
    <3>2. accepted[k] \in Nat /\ accepted[m] \in Nat
        BY <2>1, <3>1
    <3>3. accepted[i] <= accepted[m] /\ accepted[k] <= accepted[i] + Window
        BY <2>2, <2>4, <3>2
    <3>4. ~(accepted[k] > accepted[m] + Window)
        BY <2>1, <2>2, <3>2, <3>3
    <3>5. ~(m + 2 * Limit <= k)
        BY <1>1, <3>1, <3>4, TwoWindowsApart
    <3>6. QED
        BY <2>1, <2>5, <3>1, <3>5
  <2>7. /\ IsFiniteSet(m .. m + 2 * Limit - 1)
        /\ Cardinality(m .. m + 2 * Limit - 1) = 2 * Limit
    <3>1. IF m > m + 2 * Limit - 1 THEN FALSE ELSE (m + 2 * Limit - 1) - m + 1 = 2 * Limit
        BY <2>1, <2>5
    <3>2. QED
        BY <2>5, <3>1, FS_Interval
  <2> HIDE DEF S
  <2>8. S \in SUBSET (m .. m + 2 * Limit - 1)
      BY <2>6
  <2>9. Cardinality(S) <= 2 * Limit
      BY <2>7, <2>8, FS_Subset
  <2>10. QED
      BY <2>9 DEF S
<1>2. LimitIInv => AtMostTwiceTheLimit
    BY <1>1 DEF AtMostTwiceTheLimit
<1>3. QED
    BY <1>2, WindowsKept, PTL

\* A message is refused only where the limit's worth of messages was accepted in
\* the window before it: refused messages count for nothing, and lengthen no window.
THEOREM RefusalsHaveCause == LimitSpec => []RefusedForCause
<1>1. ASSUME LimitIInv, refused >= 0
      PROVE  Cardinality({j \in DOMAIN accepted :
                             accepted[j] \in refused - Window .. refused}) >= Limit
  <2>1. Limit \in Nat \ {0} /\ Len(accepted) \in Nat /\ DOMAIN accepted = 1 .. Len(accepted)
      BY <1>1, RateLimitAssumption DEF RateLimitAssumption, LimitIInv, LimitTypeOK
  <2> DEFINE S == {j \in DOMAIN accepted : accepted[j] \in refused - Window .. refused}
  <2>2. PICK k \in 0 .. Len(accepted) - Limit :
            \A j \in k + 1 .. k + Limit : accepted[j] \in refused - Window .. refused
      BY <1>1 DEF LimitIInv, RefusedAfterRun
  <2>3. k + 1 \in Int /\ k + Limit \in Int /\ \A j \in k + 1 .. k + Limit : j \in 1 .. Len(accepted)
      BY <2>1, <2>2
  <2>4. k + 1 .. k + Limit \in SUBSET S
      BY <2>1, <2>2, <2>3
  <2>5. IsFiniteSet(S)
    <3>1. IsFiniteSet(1 .. Len(accepted))
        BY <2>1, FS_Interval
    <3>2. S \in SUBSET (1 .. Len(accepted))
        BY <2>1
    <3>3. QED
        BY <3>1, <3>2, FS_Subset
  <2>6. Cardinality(k + 1 .. k + Limit) = Limit
    <3>1. ~(k + 1 > k + Limit) /\ (k + Limit) - (k + 1) + 1 = Limit
        BY <2>1, <2>2
    <3>2. QED
        BY <2>3, <3>1, FS_Interval
  <2>7. Cardinality(S) \in Nat
      BY <2>5, FS_CardinalityType
  <2> HIDE DEF S
  <2>8. Limit <= Cardinality(S)
      BY <2>4, <2>5, <2>6, FS_Subset
  <2>9. Cardinality(S) >= Limit
      BY <2>1, <2>7, <2>8
  <2>10. QED
      BY <2>9 DEF S
<1>2. LimitIInv => RefusedForCause
    BY <1>1 DEF RefusedForCause
<1>3. QED
    BY <1>2, WindowsKept, PTL

-----------------------------------------------------------------------------
(* Startup *)

\* What process.env may hold once defaults have been added.
Configurations ==
    [node : Modes, cors : Origins \cup {"demo"},
     profile : {Unset, "public-test", "other"},
     demo : {Unset, "true", "false"},
     database : {Unset, "own", "demo"},
     secrets : {"weak", "strong"},
     instant : {Unset, "true", "false"},
     gate : SUBSET GateVars,
     render : BOOLEAN]

\* Origins that were given from the start outlive every default.
GivenOriginsStay == given.cors # Unset => env.cors = given.cors

\* The gateway was told what getCorsOrigins makes of the environment at first.
SocketsFollowGiven == stage # "imports" => socketOrigins = CorsOrigins(given)

\* Nothing changes the environment after the guard has looked at it.
ServingPasses == stage = "serving" => Passes(env)

\* The inductive invariant of the start.
StartupIInv ==
    /\ given \in Environments
    /\ fromFile \in Files
    /\ env \in Configurations
    /\ stage \in {"imports", "defaults", "guard", "serving", "exited"}
    /\ stage = "imports" => env = given
    /\ GivenOriginsStay
    /\ SocketsFollowGiven
    /\ ServingPasses

-----------------------------------------------------------------------------

\* The demo's defaults make a configuration of a configuration, and leave set
\* origins alone.
LEMMA DemoFillsGaps ==
    ASSUME NEW e \in Configurations
    PROVE  /\ DemoEnv(e) \in Configurations
           /\ e.cors # Unset => DemoEnv(e).cors = e.cors
<1> DEFINE urls == {"SUCCESS_URL", "CANCEL_URL"} \cap GateVars
<1>1. e.gate \cup urls \in SUBSET GateVars
    BY DEF Configurations
<1>2. /\ Or(e.database, "demo") \in {Unset, "own", "demo"}
      /\ Or(e.profile, "public-test") \in {Unset, "public-test", "other"}
      /\ Or(e.node, "production") \in Modes
      /\ Or(e.cors, "demo") \in Origins \cup {"demo"}
      /\ (IF e.instant = "false" THEN "false" ELSE "true") \in {Unset, "true", "false"}
    BY DEF Configurations, Or, Modes
<1>3. DemoEnv(e) = [e EXCEPT !.database = Or(e.database, "demo"),
                             !.profile = Or(e.profile, "public-test"),
                             !.secrets = "strong",
                             !.node = Or(e.node, "production"),
                             !.cors = Or(e.cors, "demo"),
                             !.instant = IF e.instant = "false" THEN "false" ELSE "true",
                             !.gate = e.gate \cup urls]
    BY DEF DemoEnv, Configurations
<1> HIDE DEF urls
<1>4. DemoEnv(e) \in Configurations
    BY <1>1, <1>2, <1>3 DEF Configurations
<1>5. DemoEnv(e).cors = Or(e.cors, "demo")
    BY <1>3 DEF Configurations
<1>6. QED
    BY <1>4, <1>5 DEF Or

\* With origins set, getCorsOrigins looks at nothing else.
LEMMA OriginsDecide ==
    ASSUME NEW d, NEW e, d.cors # Unset, e.cors = d.cors
    PROVE  CorsOrigins(e) = CorsOrigins(d)
BY DEF CorsOrigins

LEMMA StartSatisfies == StartupInit => StartupIInv
<1> SUFFICES ASSUME StartupInit PROVE StartupIInv
    OBVIOUS
<1>1. env \in Configurations
    BY DEF StartupInit, Environments, Configurations
<1>2. QED
    BY <1>1 DEF StartupInit, StartupIInv, GivenOriginsStay, SocketsFollowGiven, ServingPasses

LEMMA LoadKeeps == StartupIInv /\ LoadModules => StartupIInv'
<1> SUFFICES ASSUME StartupIInv, LoadModules PROVE StartupIInv'
    OBVIOUS
<1> USE DEF StartupIInv, LoadModules
<1>1. /\ Or(env.node, fromFile.node) \in Modes
      /\ Or(env.cors, fromFile.cors) \in Origins \cup {"demo"}
    BY DEF Or, Configurations, Files
<1>2. env' \in Configurations /\ env'.cors = Or(env.cors, fromFile.cors)
    BY <1>1 DEF Configurations
<1>3. GivenOriginsStay'
    BY <1>2 DEF GivenOriginsStay, Or
<1>4. SocketsFollowGiven'
    BY DEF SocketsFollowGiven
<1>5. QED
    BY <1>2, <1>3, <1>4 DEF ServingPasses

LEMMA DefaultsKeep == StartupIInv /\ ApplyDefaults => StartupIInv'
<1> SUFFICES ASSUME StartupIInv, ApplyDefaults PROVE StartupIInv'
    OBVIOUS
<1> USE DEF StartupIInv
<1>1. PICK e : /\ e = IF IsDemo(env) THEN DemoEnv(env) ELSE env
               /\ env' = [e EXCEPT !.gate = IF e.render THEN e.gate \cup {"CALLBACK_URL"}
                                                        ELSE e.gate]
    BY DEF ApplyDefaults
<1>2. e \in Configurations /\ (env.cors # Unset => e.cors = env.cors)
    BY <1>1, DemoFillsGaps
<1>3. (IF e.render THEN e.gate \cup {"CALLBACK_URL"} ELSE e.gate) \in SUBSET GateVars
    BY <1>2, StartupAssumption DEF Configurations
<1>4. env' \in Configurations /\ env'.cors = e.cors
    BY <1>1, <1>2, <1>3 DEF Configurations
<1>5. GivenOriginsStay'
    BY <1>2, <1>4 DEF GivenOriginsStay, ApplyDefaults
<1>6. SocketsFollowGiven'
    BY DEF SocketsFollowGiven, ApplyDefaults
<1>7. QED
    BY <1>4, <1>5, <1>6 DEF ServingPasses, ApplyDefaults

LEMMA GuardKeeps == StartupIInv /\ AssertProductionEnvironment => StartupIInv'
BY DEF StartupIInv, AssertProductionEnvironment, GivenOriginsStay, SocketsFollowGiven,
       ServingPasses

\* Start-up keeps its inductive invariant: what the guard has seen is what serves,
\* and origins that were given are the ones in force everywhere.
THEOREM StartupInvariance == StartupSpec => []StartupIInv
<1>1. StartupIInv /\ [StartupNext]_startupVars => StartupIInv'
  <2>1. StartupIInv /\ UNCHANGED startupVars => StartupIInv'
      BY DEF StartupIInv, startupVars, GivenOriginsStay, SocketsFollowGiven, ServingPasses
  <2>2. QED
      BY <2>1, LoadKeeps, DefaultsKeep, GuardKeeps DEF StartupNext
<1>2. QED
    BY <1>1, StartSatisfies, PTL DEF StartupSpec

-----------------------------------------------------------------------------

\* A process that credits deposits at once is not a production process and sends
\* nobody to a checkout, for every environment: depositLegacy credits only where
\* depositSentinelGate refuses.
THEOREM SimulationApart == StartupSpec => []SimulatedMoneyStaysApart
<1>1. SimulatedMoneyStaysApart
    BY DEF SimulatedMoneyStaysApart, OtherDeposit, CardDeposit, DepositsRefused,
           SimulationAllowed, Production, GateEnabled
<1>2. QED
    BY <1>1, PTL

\* A production process that serves and is no public test takes card deposits to
\* their end: assertProductionEnvironment asks for all that the wallet will need,
\* and what it asked for is still there when the wallet runs.
THEOREM GuardSuffices == StartupSpec => []GuardedDeploymentTakesCards
<1>1. StartupIInv => GuardedDeploymentTakesCards
  <2> SUFFICES ASSUME StartupIInv, stage = "serving", Production(env), ~PublicTest(env)
               PROVE  CardDeposit(env) = "checkout"
      BY DEF GuardedDeploymentTakesCards
  <2>1. env.instant # "true" /\ env.gate = GateVars
      BY DEF StartupIInv, ServingPasses, Passes
  <2>2. GateEnabled(env) /\ HasCallback(env) /\ CanVerify(env)
      BY <2>1, StartupAssumption DEF GateEnabled, HasCallback, CanVerify
  <2>3. QED
      BY <2>1, <2>2 DEF CardDeposit, DepositsRefused, SimulationAllowed
<1>2. QED
    BY <1>1, StartupInvariance, PTL

\* Sockets and HTTP accept the same origins whenever origins were given from the
\* start, though the gateway's decorator reads them before any default is added.
THEOREM SocketsAgree == StartupSpec => []SocketsFollowHttp
<1>1. StartupIInv => SocketsFollowHttp
  <2> SUFFICES ASSUME StartupIInv, stage = "serving", given.cors # Unset
               PROVE  socketOrigins = CorsOrigins(env)
      BY DEF SocketsFollowHttp
  <2>1. env.cors = given.cors /\ socketOrigins = CorsOrigins(given)
      BY DEF StartupIInv, GivenOriginsStay, SocketsFollowGiven
  <2>2. QED
      BY <2>1, OriginsDecide
<1>2. QED
    BY <1>1, StartupInvariance, PTL

=============================================================================
