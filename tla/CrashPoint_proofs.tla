-------------------------- MODULE CrashPoint_proofs --------------------------
(***************************************************************************)
(* Proofs about CrashPoint, for every width of the prefix and of the        *)
(* column: a created round is well formed, only the top of the range is     *)
(* refused, and the house keeps its share at every level.                   *)
(***************************************************************************)
EXTENDS CrashPoint, FiniteSetTheorems, TLAPS

\* A quotient that reaches m has a dividend that reaches m divisors.
LEMMA QuotientReaches ==
    ASSUME NEW x \in Nat, NEW y \in Nat \ {0}, NEW m \in Nat, x \div y >= m
    PROVE  x >= m * y
<1> DEFINE d == x \div y
<1>1. d \in Nat /\ x >= y * d
    OBVIOUS
<1>2. PICK k \in Nat : d = m + k
  <2>1. d - m \in Nat /\ d = m + (d - m)
      BY <1>1
  <2>2. QED
      BY <2>1
<1>3. y * d = y * m + y * k
    BY <1>2
<1>4. y * k >= 0 /\ y * m = m * y
    OBVIOUS
<1>5. QED
    BY <1>1, <1>3, <1>4

\* The quotient is the largest number of divisors that the dividend holds.
LEMMA QuotientLargest ==
    ASSUME NEW x \in Nat, NEW y \in Nat \ {0}, NEW k \in Nat, y * k <= x
    PROVE  k <= x \div y
<1>1. PICK d \in Nat : d = x \div y /\ x < y * d + y
    OBVIOUS
<1>2. SUFFICES ASSUME k > d PROVE FALSE
    BY <1>1
<1>3. PICK j \in Nat : k = d + 1 + j
  <2>1. k - d - 1 \in Nat /\ k = d + 1 + (k - d - 1)
      BY <1>2
  <2>2. QED
      BY <2>1
<1>4. y * k = y * d + y + y * j
    BY <1>3
<1>5. y * j >= 0 /\ y * j \in Int /\ y * d \in Int /\ y * k \in Int
    OBVIOUS
<1>6. QED
    BY <1>1, <1>4, <1>5

-----------------------------------------------------------------------------

\* A quotient is a whole number, and a crash point is at least 1.00.
LEMMA CentsBounds ==
    ASSUME NEW prefix \in 0 .. (MaxPrefix - 1)
    PROVE  Cents(prefix) \in Int /\ Cents(prefix) >= 100
<1> DEFINE ratio == Rounded(97 * MaxPrefix, MaxPrefix - prefix)
<1>1. MaxPrefix \in Nat /\ MaxPrefix - prefix \in Nat \ {0}
    BY CrashPointAssumption
<1>2. 2 * (97 * MaxPrefix) + (MaxPrefix - prefix) \in Nat /\ 2 * (MaxPrefix - prefix) \in Nat \ {0}
    BY <1>1
<1>3. ratio \in Int
    BY <1>2 DEF Rounded
<1>4. QED
    BY <1>3 DEF Cents

\* What it takes to reach a level: the share of the draws that is left above
\* the prefix is small enough.
LEMMA ReachingLevel ==
    ASSUME NEW prefix \in 0 .. (MaxPrefix - 1), NEW level \in Nat, level > 100,
           Cents(prefix) >= level
    PROVE  194 * MaxPrefix >= (2 * level - 1) * (MaxPrefix - prefix)
<1> DEFINE b == MaxPrefix - prefix
           x == 2 * (97 * MaxPrefix) + b
<1>1. MaxPrefix \in Nat /\ b \in Nat \ {0} /\ x \in Nat /\ 2 * b \in Nat \ {0}
    BY CrashPointAssumption
<1>2. x \div (2 * b) >= level
  <2>1. x \div (2 * b) \in Int
      BY <1>1
  <2>2. QED
      BY <2>1 DEF Cents, Rounded
<1>3. x >= level * (2 * b)
    BY <1>1, <1>2, QuotientReaches
<1>4. level * (2 * b) = (2 * level - 1) * b + b
    BY <1>1
<1>5. (2 * level - 1) * b \in Int
    BY <1>1
<1>6. QED
    BY <1>1, <1>3, <1>4, <1>5

\* The prefixes that reach a level are the last ones below MaxPrefix, a bounded
\* number of them.
LEMMA FewReach ==
    ASSUME NEW level \in Nat, level > 100
    PROVE  2 * level * Cardinality(Reaching(level)) <= 195 * MaxPrefix
<1> DEFINE n == 2 * level - 1
           K == (194 * MaxPrefix) \div n
           top == (MaxPrefix - K) .. (MaxPrefix - 1)
<1>1. MaxPrefix \in Nat /\ 194 * MaxPrefix \in Nat /\ n \in Nat \ {0} /\ n >= 201
    BY CrashPointAssumption
<1>2. K \in Nat /\ n * K <= 194 * MaxPrefix
    BY <1>1
<1>3. ASSUME NEW k \in Nat, n * k <= 194 * MaxPrefix PROVE k <= K
    BY <1>1, <1>3, QuotientLargest
<1>4. Reaching(level) \subseteq top
  <2>1. SUFFICES ASSUME NEW prefix \in Reaching(level) PROVE prefix \in top
      OBVIOUS
  <2>2. prefix \in 0 .. (MaxPrefix - 1) /\ Cents(prefix) >= level
      BY <1>1, <2>1 DEF Reaching, HashPrefixes, Storable
  <2>3. n * (MaxPrefix - prefix) <= 194 * MaxPrefix /\ MaxPrefix - prefix \in Nat
      BY <1>1, <2>2, ReachingLevel
  <2>4. MaxPrefix - prefix <= K
      BY <2>3, <1>3
  <2>5. QED
      BY <1>1, <1>2, <2>2, <2>4
<1>5. Cardinality(top) = K /\ IsFiniteSet(top)
  <2>1. MaxPrefix - K \in Int /\ MaxPrefix - 1 \in Int
      BY <1>1, <1>2
  <2>2. IsFiniteSet(top) /\ Cardinality(top) = IF MaxPrefix - K > MaxPrefix - 1 THEN 0
                                               ELSE (MaxPrefix - 1) - (MaxPrefix - K) + 1
      BY <2>1, FS_Interval
  <2>3. QED
      BY <1>1, <1>2, <2>2
<1>6. Cardinality(Reaching(level)) \in Nat /\ Cardinality(Reaching(level)) <= K
  <2>1. Reaching(level) \in SUBSET top
      BY <1>4
  <2>2. IsFiniteSet(Reaching(level)) /\ Cardinality(Reaching(level)) <= Cardinality(top)
      BY <1>5, <2>1, FS_Subset
  <2>3. QED
      BY <1>5, <2>2, FS_CardinalityType
<1>7. 2 * level * K <= 195 * MaxPrefix
  <2>1. PICK j \in Nat : n = 201 + j
    <3>1. n - 201 \in Nat /\ n = 201 + (n - 201)
        BY <1>1
    <3>2. QED
        BY <3>1
  <2>2. n * K = 201 * K + j * K /\ j * K >= 0 /\ j * K \in Int
      BY <1>2, <2>1
  <2>3. K <= MaxPrefix
      BY <1>1, <1>2, <2>2
  <2>4. 2 * level * K = n * K + K
      BY <1>2
  <2>5. QED
      BY <1>1, <1>2, <2>2, <2>3, <2>4
<1>8. 2 * level * Cardinality(Reaching(level)) <= 2 * level * K
  <2> DEFINE c == Cardinality(Reaching(level))
  <2>1. PICK j \in Nat : K = c + j
    <3>1. K - c \in Nat /\ K = c + (K - c)
        BY <1>2, <1>6
    <3>2. QED
        BY <3>1
  <2>2. 2 * level * K = 2 * level * c + 2 * level * j
      BY <1>6, <2>1
  <2>3. 2 * level * j >= 0 /\ 2 * level * j \in Int /\ 2 * level * c \in Int
      BY <1>6
  <2>4. QED
      BY <2>2, <2>3
<1>9. QED
  <2>1. 2 * level * Cardinality(Reaching(level)) \in Int /\ 2 * level * K \in Int
      BY <1>2, <1>6
  <2>2. QED
      BY <1>1, <1>7, <1>8, <2>1

-----------------------------------------------------------------------------

\* The inductive invariant: what startWaiting leaves of one draw.
IInv ==
    \/ outcome = NoOutcome
    \/ \E prefix \in HashPrefixes :
        \/ ~Storable(prefix) /\ outcome = [NoOutcome EXCEPT !.prefix = prefix]
        \/ /\ Storable(prefix)
           /\ outcome = [prefix |-> prefix, created |-> TRUE, crashPoint |-> Cents(prefix),
                         crashType |-> CrashTypes[(prefix % 3) + 1]]

\* Every outcome that generateCrashPoint leaves comes of one prefix.
THEOREM OneDraw == CrashPointSpec => []IInv
<1>1. CrashPointInit => IInv
    BY DEF CrashPointInit, IInv
<1>2. IInv /\ [GenerateCrashPoint]_outcome => IInv'
  <2>1. CASE UNCHANGED outcome
      BY <2>1 DEF IInv, HashPrefixes, Storable, Cents, Rounded, NoOutcome, CrashTypes
  <2>2. CASE GenerateCrashPoint
      BY <2>2 DEF GenerateCrashPoint, IInv
  <2>3. QED
      BY <2>1, <2>2
<1>3. QED
    BY <1>1, <1>2, PTL DEF CrashPointSpec

\* Whatever is drawn, a created round has a crash type and a crash point between
\* 1.00 and what the column holds.
THEOREM OutcomeWellFormed == CrashPointSpec => []OutcomeOK
<1>1. IInv => OutcomeOK
  <2> SUFFICES ASSUME IInv, outcome.created PROVE OutcomeOK
      BY DEF OutcomeOK
  <2>1. PICK prefix \in HashPrefixes :
           /\ Storable(prefix)
           /\ outcome = [prefix |-> prefix, created |-> TRUE, crashPoint |-> Cents(prefix),
                         crashType |-> CrashTypes[(prefix % 3) + 1]]
      BY DEF IInv, NoOutcome
  <2>2. prefix \in 0 .. (MaxPrefix - 1) /\ Cents(prefix) <= MaxStored
      BY <2>1, CrashPointAssumption DEF HashPrefixes, Storable
  <2>3. Cents(prefix) \in 100 .. MaxStored
      BY <2>2, CentsBounds, CrashPointAssumption
  <2>4. (prefix % 3) + 1 \in 1 .. 3
      BY <2>2, CrashPointAssumption
  <2>5. QED
      BY <2>1, <2>3, <2>4 DEF OutcomeOK
<1>2. QED
    BY <1>1, OneDraw, PTL

\* For every width, a bet on any level above 1.00 returns at most 97.5 percent:
\* the rounding and the ends of the range do not cost the house its edge.
THEOREM HouseKeepsEdge == CrashPointSpec => []HouseEdge
<1>1. IInv => HouseEdge
  <2> SUFFICES ASSUME IInv, outcome.crashPoint > 100 PROVE HouseEdge
      BY DEF HouseEdge
  <2>1. PICK prefix \in HashPrefixes : Storable(prefix) /\ outcome.crashPoint = Cents(prefix)
      BY DEF IInv, NoOutcome
  <2>2. prefix \in 0 .. (MaxPrefix - 1)
      BY <2>1, CrashPointAssumption DEF HashPrefixes, Storable
  <2>3. outcome.crashPoint \in Nat
      BY <2>1, <2>2, CentsBounds
  <2>4. QED
      BY <2>3, FewReach DEF HouseEdge
<1>2. QED
    BY <1>1, OneDraw, PTL

\* For every width, only the top of the range makes the create throw.
THEOREM OnlyTopRejected == CrashPointSpec => []RejectedOnlyAtTop
<1>1. IInv => RejectedOnlyAtTop
  <2> SUFFICES ASSUME IInv, outcome.prefix >= 0, ~outcome.created
               PROVE (MaxPrefix - outcome.prefix) * (2 * MaxStored + 1) <= 194 * MaxPrefix
      BY DEF RejectedOnlyAtTop
  <2>1. PICK prefix \in HashPrefixes : ~Storable(prefix) /\ outcome.prefix = prefix
      BY DEF IInv, NoOutcome
  <2>2. MaxPrefix \in Nat /\ MaxStored \in Nat /\ MaxStored > 100
      BY CrashPointAssumption
  <2>3. CASE prefix = MaxPrefix
      BY <2>1, <2>2, <2>3
  <2>4. CASE prefix # MaxPrefix
    <3>1. prefix \in 0 .. (MaxPrefix - 1) /\ ~(Cents(prefix) <= MaxStored)
        BY <2>1, <2>2, <2>4 DEF HashPrefixes, Storable
    <3>2. Cents(prefix) >= MaxStored + 1
        BY <2>2, <3>1, CentsBounds
    <3>3. MaxStored + 1 \in Nat /\ MaxStored + 1 > 100
        BY <2>2
    <3>4. 194 * MaxPrefix >= (2 * (MaxStored + 1) - 1) * (MaxPrefix - prefix)
        BY <3>1, <3>2, <3>3, ReachingLevel
    <3>5. (2 * (MaxStored + 1) - 1) * (MaxPrefix - prefix)
             = (MaxPrefix - prefix) * (2 * MaxStored + 1)
      <4>1. 2 * (MaxStored + 1) - 1 = 2 * MaxStored + 1
          BY <2>2
      <4>2. MaxPrefix - prefix \in Int
          BY <2>2, <3>1
      <4>3. QED
          BY <2>2, <4>1, <4>2
    <3>6. QED
        BY <2>1, <2>2, <3>1, <3>4, <3>5
  <2>5. QED
      BY <2>3, <2>4
<1>2. QED
    BY <1>1, OneDraw, PTL

=============================================================================
