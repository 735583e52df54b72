-------------------------------- MODULE Sums --------------------------------
(***************************************************************************)
(* What the folds of the community modules amount to: sums and maxima over  *)
(* finite sets, and enumerations of them.                                   *)
(*                                                                         *)
(* A fold is a recursive function that takes its elements in an order the   *)
(* definition leaves open.  A sum of natural numbers is stated without one: *)
(* it is the number of its units, so that a larger set has the larger sum.  *)
(***************************************************************************)
EXTENDS Integers, SequencesExt, FiniteSetTheorems, SequenceTheorems, TLAPS

\* w[i] units for each i of S.
Units(w, S) == UNION {{i} \X (1 .. w[i]) : i \in S}

\* The sum of w[i] over S.
Total(w, S) == Cardinality(Units(w, S))

\* The largest m[i] over S.
Highest(m, S) == IF S = {} THEN 0 ELSE Max({m[i] : i \in S})

-----------------------------------------------------------------------------
(* Least and greatest elements *)

LEMMA LeastOf ==
    ASSUME NEW S \in SUBSET Nat, S # {}
    PROVE  \E m \in S : \A k \in S : m <= k
<1>1. PICK m \in S : \A k \in S : ~(<<k, m>> \in OpToRel(<, Nat))
    BY NatLessThanWellFounded, WFMin
<1>2. \A k \in S : ~(k < m)
    BY <1>1 DEF OpToRel
<1>3. QED
    BY <1>2

\* A finite set of numbers has a greatest element: the one that has fewest above.
LEMMA GreatestOf ==
    ASSUME NEW S \in SUBSET Nat, IsFiniteSet(S), S # {}
    PROVE  \E m \in S : \A k \in S : k <= m
<1> DEFINE Over(x) == {y \in S : y > x}
           counts == {Cardinality(Over(x)) : x \in S}
<1>1. ASSUME NEW x \in S PROVE IsFiniteSet(Over(x)) /\ Cardinality(Over(x)) \in Nat
  <2>1. Over(x) \in SUBSET S
      OBVIOUS
  <2> HIDE DEF Over
  <2>2. QED
      BY <2>1, FS_Subset, FS_CardinalityType
<1>2. counts \in SUBSET Nat /\ counts # {}
    BY <1>1
<1>3. PICK n \in counts : \A k \in counts : n <= k
  <2> HIDE DEF counts
  <2>1. QED
      BY <1>2, LeastOf
<1>4. PICK m \in S : \A x \in S : Cardinality(Over(m)) <= Cardinality(Over(x))
    BY <1>3
<1>5. ASSUME NEW k \in S, ~(k <= m) PROVE FALSE
  <2>1. Over(k) \in SUBSET Over(m) /\ k \in Over(m) /\ k \notin Over(k)
    <3>1. k \in Nat /\ m \in Nat /\ k > m
        BY <1>5
    <3>2. \A y \in S : y \in Nat /\ (y > k => y > m)
        BY <3>1
    <3>3. ~(k > k)
        BY <3>1
    <3>4. QED
        BY <3>1, <3>2, <3>3
  <2>2. Cardinality(Over(k)) <= Cardinality(Over(m)) /\ Cardinality(Over(m)) # Cardinality(Over(k))
    <3> HIDE DEF Over
    <3>1. QED
        BY <1>1, <2>1, FS_Subset
  <2>3. Cardinality(Over(m)) <= Cardinality(Over(k))
      BY <1>4, <1>5
  <2>4. Cardinality(Over(m)) \in Nat /\ Cardinality(Over(k)) \in Nat
      BY <1>1, <1>5
  <2> HIDE DEF Over
  <2>5. QED
      BY <2>2, <2>3, <2>4
<1>6. QED
    BY <1>5

\* Max is the greatest element.
LEMMA MaxIsGreatest ==
    ASSUME NEW S \in SUBSET Nat, IsFiniteSet(S), S # {}
    PROVE  Max(S) \in S /\ \A k \in S : k <= Max(S)
<1>1. \E m \in S : \A k \in S : m >= k
    BY GreatestOf
<1>2. Max(S) \in S /\ \A k \in S : Max(S) >= k
    BY <1>1 DEF Max
<1>3. QED
    BY <1>2

\* Min of two numbers.
LEMMA MinOfTwo ==
    ASSUME NEW a \in Int, NEW b \in Int
    PROVE  Min({a, b}) = IF a <= b THEN a ELSE b
<1>1. \E x \in {a, b} : \A y \in {a, b} : x =< y
    OBVIOUS
<1>2. Min({a, b}) \in {a, b} /\ \A y \in {a, b} : Min({a, b}) =< y
    BY <1>1 DEF Min
<1>3. QED
    BY <1>2

-----------------------------------------------------------------------------
(* Folds *)

\* Two functions on the subsets of a finite set that agree on {}, and on a subset
\* whenever they agree on it without some element, agree on the whole set.
LEMMA SubsetsAgree ==
    ASSUME NEW D, IsFiniteSet(D), NEW f, NEW g, f[{}] = g[{}],
           \A s \in SUBSET D : s # {} =>
               \E x \in s : f[s \ {x}] = g[s \ {x}] => f[s] = g[s]
    PROVE  f[D] = g[D]
<1> DEFINE Differ == {s \in SUBSET D : f[s] # g[s]}
           counts == {Cardinality(s) : s \in Differ}
<1>1. SUFFICES ASSUME f[D] # g[D] PROVE FALSE
    OBVIOUS
<1>2. \A s \in SUBSET D : IsFiniteSet(s) /\ Cardinality(s) \in Nat
    BY FS_Subset, FS_CardinalityType
<1>3. counts \in SUBSET Nat /\ counts # {}
    BY <1>1, <1>2
<1>4. PICK n \in counts : \A k \in counts : n <= k
  <2> HIDE DEF counts
  <2>1. QED
      BY <1>3, LeastOf
<1>5. PICK s \in Differ : \A t \in Differ : Cardinality(s) <= Cardinality(t)
    BY <1>4
<1>6. PICK x \in s : f[s \ {x}] = g[s \ {x}] => f[s] = g[s]
    BY <1>5
<1>7. s \ {x} \in Differ
    BY <1>5, <1>6
<1>8. Cardinality(s \ {x}) = Cardinality(s) - 1
    BY <1>2, <1>6, FS_RemoveElement
<1>9. QED
    BY <1>2, <1>5, <1>7, <1>8

-----------------------------------------------------------------------------
(* Sums and maxima *)

LEMMA UnitsFinite ==
    ASSUME NEW D, NEW w \in [D -> Nat], NEW S \in SUBSET D, IsFiniteSet(S)
    PROVE  IsFiniteSet(Units(w, S)) /\ Total(w, S) \in Nat
<1> DEFINE parts == {{i} \X (1 .. w[i]) : i \in S}
           part == [i \in S |-> {i} \X (1 .. w[i])]
<1>1. part \in Surjection(S, parts)
    BY DEF Surjection
<1>2. IsFiniteSet(parts)
  <2> HIDE DEF parts, part
  <2>1. QED
      BY <1>1, FS_Surjection
<1>3. ASSUME NEW i \in S PROVE IsFiniteSet({i} \X (1 .. w[i]))
  <2>1. w[i] \in Nat
      OBVIOUS
  <2>2. IsFiniteSet({i})
      BY FS_Singleton
  <2>3. IsFiniteSet(1 .. w[i])
      BY <2>1, FS_Interval
  <2>4. QED
      BY <2>2, <2>3, FS_Product
<1>4. IsFiniteSet(UNION parts)
  <2>1. \A T \in parts : IsFiniteSet(T)
      BY <1>3
  <2> HIDE DEF parts
  <2>2. QED
      BY <1>2, <2>1, FS_UNION
<1>5. QED
    BY <1>4, FS_CardinalityType DEF Units, Total

LEMMA TotalOfNothing == ASSUME NEW w PROVE Total(w, {}) = 0
<1>1. Units(w, {}) = {}
    BY DEF Units
<1>2. QED
    BY <1>1, FS_EmptySet DEF Total

\* One more summand.
LEMMA TotalAdds ==
    ASSUME NEW D, NEW w \in [D -> Nat], NEW S \in SUBSET D, IsFiniteSet(S), NEW x \in D \ S
    PROVE  Total(w, S \cup {x}) = Total(w, S) + w[x]
<1> DEFINE more == {x} \X (1 .. w[x])
<1>1. Units(w, S \cup {x}) = Units(w, S) \cup more
    BY DEF Units
<1>2. Units(w, S) \cap more = {}
    BY DEF Units
<1>3. w[x] \in Nat
    OBVIOUS
<1>4. IsFiniteSet(more) /\ Cardinality(more) = w[x]
  <2>1. IsFiniteSet(1 .. w[x]) /\ Cardinality(1 .. w[x]) = w[x]
      BY <1>3, FS_Interval
  <2>2. IsFiniteSet({x}) /\ Cardinality({x}) = 1
      BY FS_Singleton
  <2>3. IsFiniteSet(more) /\ Cardinality(more) = 1 * w[x]
      BY <2>1, <2>2, FS_Product
  <2>4. QED
      BY <1>3, <2>3
<1>5. IsFiniteSet(Units(w, S)) /\ Cardinality(Units(w, S)) \in Nat
    BY UnitsFinite DEF Total
<1> HIDE DEF more
<1>6. Cardinality(Units(w, S) \cup more) = Cardinality(Units(w, S)) + Cardinality(more) - 0
    BY <1>2, <1>4, <1>5, FS_Union, FS_EmptySet
<1>7. Cardinality(Units(w, S \cup {x})) = Cardinality(Units(w, S)) + w[x]
  <2>1. Cardinality(Units(w, S \cup {x})) = Cardinality(Units(w, S)) + Cardinality(more) - 0
      BY <1>1, <1>6
  <2>2. Cardinality(more) = w[x]
      BY <1>4
  <2>3. PICK a \in Nat, b \in Nat : a = Cardinality(Units(w, S)) /\ b = w[x]
      BY <1>3, <1>5
  <2>4. QED
      BY <2>1, <2>2, <2>3
<1>8. QED
    BY <1>7 DEF Total

\* More summands, or larger ones, make no smaller sum.
LEMMA TotalGrows ==
    ASSUME NEW D, NEW w \in [D -> Nat], NEW S \in SUBSET D,
           NEW E, NEW v \in [E -> Nat], NEW T \in SUBSET E, IsFiniteSet(T),
           S \subseteq T, \A i \in S : v[i] = w[i]
    PROVE  Total(w, S) <= Total(v, T)
<1>1. Units(w, S) \in SUBSET Units(v, T)
    BY DEF Units
<1>2. QED
    BY <1>1, UnitsFinite, FS_Subset DEF Total

LEMMA TotalAlike ==
    ASSUME NEW w, NEW v, NEW S, \A i \in S : v[i] = w[i]
    PROVE  Total(w, S) = Total(v, S)
<1>1. Units(w, S) = Units(v, S)
    BY DEF Units
<1>2. QED
    BY <1>1 DEF Total

\* What SumFunction computes, whatever order it takes.
LEMMA SumIsTotal ==
    ASSUME NEW D, IsFiniteSet(D), NEW w \in [D -> Nat]
    PROVE  SumFunction(w) = Total(w, D)
<1> DEFINE pick(s) == CHOOSE x \in s : TRUE
           Folded(h, s) == IF s = {} THEN 0 ELSE w[pick(s)] + h[s \ {pick(s)}]
           total == [s \in SUBSET D |-> Total(w, s)]
           iter == CHOOSE h : h = [s \in SUBSET D |-> Folded(h, s)]
<1>1. SumFunction(w) = iter[D]
    BY DEF SumFunction, SumFunctionOnSet, FoldFunctionOnSet, MapThenFoldSet
<1>2. ASSUME NEW s \in SUBSET D PROVE total[s] = Folded(total, s)
  <2>1. CASE s = {}
      BY <2>1, TotalOfNothing
  <2>2. CASE s # {}
    <3>1. pick(s) \in s
        BY <2>2
    <3>2. PICK x \in s : x = pick(s)
        BY <3>1
    <3> HIDE DEF pick
    <3>3. s \ {x} \in SUBSET D /\ x \in D \ (s \ {x}) /\ (s \ {x}) \cup {x} = s
        BY <3>2
    <3>4. IsFiniteSet(s \ {x})
        BY <3>3, FS_Subset
    <3>5. Total(w, s) = Total(w, s \ {x}) + w[x]
        BY <3>3, <3>4, TotalAdds
    <3>6. Total(w, s \ {x}) \in Nat /\ w[x] \in Nat
        BY <3>3, <3>4, UnitsFinite
    <3>7. total[s \ {x}] = Total(w, s \ {x})
        BY <3>3
    <3>8. QED
        BY <2>2, <3>2, <3>5, <3>6, <3>7
  <2>3. QED
      BY <2>1, <2>2
<1>3. total = [s \in SUBSET D |-> Folded(total, s)]
    BY <1>2
<1>4. iter = [s \in SUBSET D |-> Folded(iter, s)]
  <2> HIDE DEF Folded, total
  <2>1. QED
      BY <1>3
<1>5. iter[{}] = total[{}]
  <2>1. {} \in SUBSET D
      OBVIOUS
  <2>2. iter[{}] = Folded(iter, {}) /\ total[{}] = Folded(total, {})
    <3> HIDE DEF iter, total, Folded
    <3>1. QED
        BY <1>2, <1>4, <2>1
  <2> HIDE DEF iter, total
  <2>3. QED
      BY <2>2
<1>6. ASSUME NEW s \in SUBSET D, s # {}
      PROVE  \E x \in s : iter[s \ {x}] = total[s \ {x}] => iter[s] = total[s]
  <2>1. pick(s) \in s
      BY <1>6
  <2>2. iter[s] = Folded(iter, s) /\ total[s] = Folded(total, s)
      BY <1>2, <1>4
  <2> HIDE DEF iter, total, pick
  <2>3. QED
      BY <1>6, <2>1, <2>2
<1>7. iter[D] = total[D]
  <2> HIDE DEF iter, total
  <2>1. QED
      BY <1>5, <1>6, SubsetsAgree
<1>8. QED
    BY <1>1, <1>7

\* What Highest is: a bound that is reached.
LEMMA HighestBounds ==
    ASSUME NEW D, NEW m \in [D -> Nat], NEW S \in SUBSET D, IsFiniteSet(S)
    PROVE  /\ Highest(m, S) \in Nat
           /\ \A i \in S : m[i] <= Highest(m, S)
           /\ S # {} => \E i \in S : m[i] = Highest(m, S)
           /\ S = {} => Highest(m, S) = 0
<1> DEFINE values == {m[i] : i \in S}
           value == [i \in S |-> m[i]]
<1>1. CASE S = {}
    BY <1>1 DEF Highest
<1>2. CASE S # {}
  <2>1. value \in Surjection(S, values)
      BY DEF Surjection
  <2>2. values \in SUBSET Nat /\ values # {}
      BY <1>2
  <2>3. IsFiniteSet(values)
    <3> HIDE DEF values, value
    <3>1. QED
        BY <2>1, FS_Surjection
  <2>4. Max(values) \in values /\ \A k \in values : k <= Max(values)
    <3> HIDE DEF values, value
    <3>1. QED
        BY <2>2, <2>3, MaxIsGreatest
  <2>5. Highest(m, S) = Max(values)
      BY <1>2 DEF Highest
  <2>6. QED
      BY <1>2, <2>2, <2>4, <2>5
<1>3. QED
    BY <1>1, <1>2

\* One value more.
LEMMA HighestAdds ==
    ASSUME NEW D, NEW m \in [D -> Nat], NEW S \in SUBSET D, IsFiniteSet(S), NEW x \in D
    PROVE  Highest(m, S \cup {x}) = IF m[x] > Highest(m, S) THEN m[x] ELSE Highest(m, S)
<1> DEFINE T == S \cup {x}
<1>1. T \in SUBSET D /\ IsFiniteSet(T) /\ T # {} /\ x \in T /\ S \subseteq T
    BY FS_AddElement
<1> HIDE DEF T
<1>2. PICK a \in Nat : a = Highest(m, S) /\ \A i \in S : m[i] <= a
    BY HighestBounds
<1>3. PICK b \in Nat : b = Highest(m, T) /\ (\A i \in T : m[i] <= b) /\ \E i \in T : m[i] = b
    BY <1>1, HighestBounds
<1>4. PICK i \in T : m[i] = b
    BY <1>3
<1>5. PICK c \in Nat : c = m[x] /\ c <= b
    BY <1>1, <1>3
<1>6. a <= b
  <2>1. CASE S = {}
      BY <1>2, <2>1, HighestBounds
  <2>2. CASE S # {}
    <3>1. PICK j \in S : m[j] = a
        BY <1>2, <2>2, HighestBounds
    <3>2. QED
        BY <1>1, <1>3, <3>1
  <2>3. QED
      BY <2>1, <2>2
<1>7. b = c \/ b <= a
  <2>1. i \in S \/ i = x
      BY <1>4 DEF T
  <2>2. QED
      BY <1>2, <1>4, <1>5, <2>1
<1>8. b = IF c > a THEN c ELSE a
    BY <1>5, <1>6, <1>7
<1>9. QED
    BY <1>2, <1>3, <1>5, <1>8 DEF T

\* More values, or the same ones, make no smaller maximum.
LEMMA HighestGrows ==
    ASSUME NEW D, NEW m \in [D -> Nat], NEW S \in SUBSET D,
           NEW E, NEW v \in [E -> Nat], NEW T \in SUBSET E, IsFiniteSet(T),
           S \subseteq T, \A i \in S : v[i] = m[i]
    PROVE  Highest(m, S) <= Highest(v, T)
<1>1. IsFiniteSet(S)
    BY FS_Subset
<1>2. Highest(v, T) \in Nat /\ \A i \in T : v[i] <= Highest(v, T)
    BY HighestBounds
<1>3. CASE S = {}
    BY <1>1, <1>2, <1>3, HighestBounds
<1>4. CASE S # {}
  <2>1. PICK i \in S : m[i] = Highest(m, S)
      BY <1>1, <1>4, HighestBounds
  <2>2. i \in T /\ v[i] = m[i]
      BY <2>1
  <2>3. QED
      BY <1>2, <2>1, <2>2
<1>5. QED
    BY <1>3, <1>4

-----------------------------------------------------------------------------
(* Enumerations *)

\* An enumeration of a finite set reaches each of its elements once.
LEMMA EnumerationReaches ==
    ASSUME NEW S, IsFiniteSet(S), NEW order \in SetToSeqs(S)
    PROVE  /\ Cardinality(S) \in Nat
           /\ order \in [1 .. Cardinality(S) -> S]
           /\ order \in Seq(S)
           /\ Len(order) = Cardinality(S)
           /\ \A i, j \in 1 .. Cardinality(S) : i # j => order[i] # order[j]
           /\ \A x \in S : \E i \in 1 .. Cardinality(S) : order[i] = x
<1> DEFINE n == Cardinality(S)
<1>1. n \in Nat
    BY FS_CardinalityType
<1>2. order \in [1 .. n -> S] /\ \A i, j \in 1 .. n : i # j => order[i] # order[j]
    BY DEF SetToSeqs
<1>3. order \in Seq(S) /\ Len(order) = n
    BY <1>1, <1>2
<1>4. order \in Injection(1 .. n, S)
    BY <1>2 DEF Injection, IsInjective
<1>5. Cardinality(1 .. n) = n
    BY <1>1, FS_Interval
<1>6. order \in Surjection(1 .. n, S)
  <2> HIDE DEF n
  <2>1. n = Cardinality(S)
      BY DEF n
  <2>2. QED
      BY <1>4, <1>5, <2>1, FS_Injection
<1>7. QED
    BY <1>1, <1>2, <1>3, <1>6 DEF Surjection

\* SetToSeq is one of the enumerations.
LEMMA SetToSeqEnumerates ==
    ASSUME NEW S, IsFiniteSet(S)
    PROVE  SetToSeq(S) \in SetToSeqs(S)
<1> DEFINE n == Cardinality(S)
<1>1. ExistsBijection(1 .. n, S)
    BY FS_CardinalityType
<1>2. \E f \in [1 .. n -> S] : IsInjective(f)
    BY <1>1 DEF ExistsBijection, Bijection, Injection
<1>3. SetToSeq(S) \in [1 .. n -> S] /\ IsInjective(SetToSeq(S))
    BY <1>2 DEF SetToSeq
<1>4. QED
    BY <1>3 DEF SetToSeqs, IsInjective

=============================================================================
