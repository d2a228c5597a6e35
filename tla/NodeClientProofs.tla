-------------------------- MODULE NodeClientProofs --------------------------
(***************************************************************************)
(* Proofs about the Node client, for any callers, operations, cap and      *)
(* pieces, in four parts:                                                  *)
(*   - the readers of a response, which fold over the pieces of a body; a  *)
(*     least counterexample stands for induction, for the numbers and the  *)
(*     subsets of a finite set are well founded;                           *)
(*   - the cells (CellsKept): one flight each, made once;                  *)
(*   - the calls (CallsKept): how one stands, and how it may end;          *)
(*   - the waits (WaitsKept): whoever waits, waits for something.          *)
(* What an update makes of a record is said once, field by field.          *)
(***************************************************************************)
EXTENDS NodeClient, TLAPS, WellFoundedInduction, FiniteSetTheorems

-----------------------------------------------------------------------------
(* Induction over the numbers, for a set instead of a predicate. *)
LEMMA LeastNumber ==
  ASSUME NEW T \in SUBSET Nat, T # {}
  PROVE  \E n \in T : \A m \in T : n <= m
<1>1. \E n \in T : \A m \in T : <<m, n>> \notin OpToRel(<, Nat)
  BY NatLessThanWellFounded, WFMin, Zenon
<1>2. PICK n \in T : \A m \in T : <<m, n>> \notin OpToRel(<, Nat)
  BY <1>1
<1>3. \A m \in T : ~(m < n)
  BY <1>2 DEF OpToRel
<1> QED
  BY <1>3

LEMMA NumbersInduct ==
  ASSUME NEW T \in SUBSET Nat, 0 \in T, \A n \in T : n + 1 \in T
  PROVE  T = Nat
<1> SUFFICES ASSUME Nat \ T # {} PROVE FALSE
  OBVIOUS
<1>1. PICK n \in Nat \ T : \A m \in Nat \ T : n <= m
  BY LeastNumber
<1>2. n # 0 /\ n - 1 \in T
  BY <1>1
<1> QED
  BY <1>1, <1>2

-----------------------------------------------------------------------------
(* A fold takes the elements of a finite set in an order that choose gives *)
(* and is the value, at the whole set, of a function on its subsets.  That *)
(* function exists: it is built for subsets of any number of elements.     *)
Follows(g, s, base, step, choose) ==
  g[s] = IF s = {} THEN base ELSE step[<<g[s \ {choose[s]}], choose[s]>>]

LEMMA FoldExists ==
  ASSUME NEW D, IsFiniteSet(D), NEW V, NEW base \in V, NEW step \in [V \X D -> V],
         NEW choose \in [(SUBSET D) \ {{}} -> D], \A s \in (SUBSET D) \ {{}} : choose[s] \in s
  PROVE  \E g \in [SUBSET D -> V] : \A s \in SUBSET D : Follows(g, s, base, step, choose)
<1> DEFINE Upto(n) == \E g \in [SUBSET D -> V] :
                        \A s \in SUBSET D : Cardinality(s) <= n => Follows(g, s, base, step, choose)
<1> DEFINE T == {n \in Nat : Upto(n)}
<1>1. \A s \in SUBSET D : IsFiniteSet(s) /\ Cardinality(s) \in Nat /\ (Cardinality(s) = 0 <=> s = {})
  BY FS_Subset, FS_CardinalityType, FS_EmptySet
<1>2. \A s \in (SUBSET D) \ {{}} : Cardinality(s \ {choose[s]}) = Cardinality(s) - 1
  BY <1>1, FS_RemoveElement
<1>3. 0 \in T
  <2>1. [s \in SUBSET D |-> base] \in [SUBSET D -> V]
    OBVIOUS
  <2>2. \A s \in SUBSET D : Cardinality(s) <= 0 => Follows([r \in SUBSET D |-> base], s, base, step, choose)
    BY <1>1 DEF Follows
  <2> QED
    BY <2>1, <2>2
<1>4. ASSUME NEW n \in T PROVE n + 1 \in T
  <2>1. PICK g \in [SUBSET D -> V] :
          \A s \in SUBSET D : Cardinality(s) <= n => Follows(g, s, base, step, choose)
    BY <1>4
  <2> DEFINE h == [s \in SUBSET D |->
                     IF Cardinality(s) <= n THEN g[s] ELSE step[<<g[s \ {choose[s]}], choose[s]>>]]
  <2>2. ASSUME NEW s \in SUBSET D, ~(Cardinality(s) <= n)
        PROVE  s # {} /\ choose[s] \in s /\ choose[s] \in D /\ s \ {choose[s]} \in SUBSET D
    BY <1>1, <1>4, <2>2
  <2>3. h \in [SUBSET D -> V]
    BY <2>2
  <2>4. ASSUME NEW s \in SUBSET D, Cardinality(s) <= n + 1 PROVE Follows(h, s, base, step, choose)
    <3>1. CASE s = {}
      <4>1. Cardinality(s) = 0 /\ n \in Nat
        BY <1>1, <1>4, <3>1
      <4>2. Cardinality(s) <= n
        BY <4>1
      <4>3. h[s] = g[s] /\ g[s] = base
        BY <2>1, <3>1, <4>2 DEF Follows
      <4> QED
        BY <3>1, <4>3 DEF Follows
    <3>2. CASE s # {}
      <4> DEFINE r == s \ {choose[s]}
      <4>1. r \in SUBSET D /\ Cardinality(r) <= n /\ Cardinality(s) \in Nat
        BY <1>1, <1>2, <1>4, <2>4, <3>2
      <4>2. h[r] = g[r]
        BY <4>1
      <4>3. h[s] = step[<<g[r], choose[s]>>]
        BY <2>1, <3>2 DEF Follows
      <4> QED
        BY <3>2, <4>2, <4>3 DEF Follows
    <3> QED
      BY <3>1, <3>2
  <2> HIDE DEF h
  <2> QED
    BY <1>4, <2>3, <2>4
<1>5. Upto(Cardinality(D))
  <2>1. T = Nat
    <3> HIDE DEF T
    <3>1. T \in SUBSET Nat
      BY DEF T
    <3> QED
      BY <1>3, <1>4, <3>1, NumbersInduct
  <2> QED
    BY <2>1, FS_CardinalityType
<1>6. \A s \in SUBSET D : Cardinality(s) <= Cardinality(D)
  BY FS_Subset
<1> QED
  BY <1>5, <1>6
-----------------------------------------------------------------------------
(* A left fold takes the positions of a sequence from the last one down.   *)
LEMMA GreatestIndex ==
  ASSUME NEW m \in Nat, NEW s \in SUBSET (1..m), s # {}
  PROVE  Max(s) \in s /\ \A i \in s : Max(s) >= i
<1>1. {m - i : i \in s} \in SUBSET Nat /\ {m - i : i \in s} # {}
  <2>1. \A i \in s : m - i \in Nat
    OBVIOUS
  <2>2. \E i : i \in s
    OBVIOUS
  <2> QED
    BY <2>1, <2>2
<1>2. PICK n \in {m - i : i \in s} : \A o \in {m - i : i \in s} : n <= o
  BY <1>1, LeastNumber
<1>3. PICK i \in s : n = m - i
  BY <1>2
<1>4. \A j \in s : i >= j
  BY <1>2, <1>3
<1> QED
  BY <1>4 DEF Max

LEMMA LastIndex ==
  ASSUME NEW k \in Nat, k # 0
  PROVE  Max(1..k) = k /\ (1..k) \ {k} = 1..(k - 1)
<1>0. k \in 1..k
  OBVIOUS
<1>1. Max(1..k) \in 1..k /\ \A i \in 1..k : Max(1..k) >= i
  BY <1>0, GreatestIndex
<1> QED
  BY <1>0, <1>1

LEMMA Positions ==
  ASSUME NEW m \in Nat
  PROVE  \A k \in 1..m : (1..k) \in SUBSET (1..m) /\ 1..k # {} /\ k \in 0..m /\ k - 1 \in 0..m
OBVIOUS

LeftFold(g, m, base, step) ==
  \A s \in SUBSET (1..m) : g[s] = IF s = {} THEN base ELSE step[<<g[s \ {Max(s)}], Max(s)>>]

LEMMA LeftFoldExists ==
  ASSUME NEW m \in Nat, NEW V, NEW base \in V, NEW step \in [V \X (1..m) -> V]
  PROVE  \E g \in [SUBSET (1..m) -> V] : LeftFold(g, m, base, step)
<1> DEFINE choose == [s \in (SUBSET (1..m)) \ {{}} |-> Max(s)]
<1>1. choose \in [(SUBSET (1..m)) \ {{}} -> 1..m] /\ \A s \in (SUBSET (1..m)) \ {{}} : choose[s] \in s
  BY GreatestIndex
<1>2. IsFiniteSet(1..m)
  BY FS_Interval
<1>3. PICK g \in [SUBSET (1..m) -> V] : \A s \in SUBSET (1..m) : Follows(g, s, base, step, choose)
  <2> HIDE DEF choose
  <2> QED
    BY <1>1, <1>2, FoldExists
<1> QED
  BY <1>3 DEF Follows, LeftFold

(* Induction over the subsets of an interval, for a set instead of a       *)
(* predicate: a subset is in T if it is once some element is taken away.   *)
LEMMA SubsetsInduct ==
  ASSUME NEW m \in Nat, NEW T, {} \in T,
         \A s \in (SUBSET (1..m)) \ {{}} : \E i \in s : s \ {i} \in T => s \in T
  PROVE  SUBSET (1..m) \subseteq T
<1> DEFINE N == {n \in Nat : \A s \in SUBSET (1..m) : Cardinality(s) = n => s \in T}
<1>1. ASSUME NEW s \in SUBSET (1..m)
      PROVE  /\ Cardinality(s) \in Nat
             /\ \A i \in s : Cardinality(s \ {i}) = Cardinality(s) - 1
             /\ Cardinality(s) = 0 => s = {}
  <2>1. IsFiniteSet(1..m)
    BY FS_Interval
  <2>2. IsFiniteSet(s)
    BY <2>1, FS_Subset
  <2> QED
    BY <2>2, FS_CardinalityType, FS_EmptySet, FS_RemoveElement
<1>2. 0 \in N
  BY <1>1
<1>3. ASSUME NEW n \in N PROVE n + 1 \in N
  <2>0. n \in Nat /\ \A s \in SUBSET (1..m) : Cardinality(s) = n => s \in T
    BY <1>3
  <2>1. ASSUME NEW s \in SUBSET (1..m), Cardinality(s) = n + 1 PROVE s \in T
    <3>1. CASE s = {}
      BY <3>1
    <3>2. CASE s # {}
      <4>1. PICK i \in s : s \ {i} \in T => s \in T
        BY <3>2
      <4>2. Cardinality(s \ {i}) = n /\ s \ {i} \in SUBSET (1..m)
        BY <1>1, <2>0, <2>1
      <4> QED
        BY <2>0, <4>1, <4>2
    <3> QED
      BY <3>1, <3>2
  <2> QED
    BY <2>0, <2>1
<1>4. N = Nat
  <2> HIDE DEF N
  <2>1. N \in SUBSET Nat
    BY DEF N
  <2> QED
    BY <1>2, <1>3, <2>1, NumbersInduct
<1> QED
  BY <1>1, <1>4

(* A sum over the positions of a body, in whatever order they are chosen,  *)
(* loses any position that is taken away.                                  *)
LEMMA SumWithout ==
  ASSUME NEW m \in Nat, NEW p \in [1..m -> Nat], NEW it \in [SUBSET (1..m) -> Nat],
         \A s \in SUBSET (1..m) :
           it[s] = IF s = {} THEN 0 ELSE p[CHOOSE i \in s : TRUE] + it[s \ {CHOOSE i \in s : TRUE}]
  PROVE  \A s \in SUBSET (1..m) : \A i \in s : it[s] = p[i] + it[s \ {i}]
<1> DEFINE Good(s) == \A i \in s : it[s] = p[i] + it[s \ {i}]
<1> DEFINE T == {n \in Nat : \A s \in SUBSET (1..m) : Cardinality(s) = n => Good(s)}
<1>1. ASSUME NEW s \in SUBSET (1..m)
      PROVE  /\ Cardinality(s) \in Nat
             /\ \A i \in s : Cardinality(s \ {i}) = Cardinality(s) - 1
             /\ Cardinality(s) = 0 => s = {}
  <2>1. IsFiniteSet(1..m)
    BY FS_Interval
  <2>2. IsFiniteSet(s)
    BY <2>1, FS_Subset
  <2> QED
    BY <2>2, FS_CardinalityType, FS_EmptySet, FS_RemoveElement
<1>2. 0 \in T
  BY <1>1
<1>3. ASSUME NEW n \in T PROVE n + 1 \in T
  <2>0. n \in Nat /\ \A s \in SUBSET (1..m) : Cardinality(s) = n => Good(s)
    BY <1>3
  <2>1. ASSUME NEW s \in SUBSET (1..m), Cardinality(s) = n + 1, NEW i \in s
        PROVE  it[s] = p[i] + it[s \ {i}]
    <3> DEFINE j == CHOOSE x \in s : TRUE
    <3>1. j \in s
      OBVIOUS
    <3>2. it[s] = p[j] + it[s \ {j}]
      OBVIOUS
    <3> HIDE DEF j
    <3>3. CASE i = j
      BY <3>2, <3>3
    <3>4. CASE i # j
      <4>1. Cardinality(s \ {i}) = n /\ Cardinality(s \ {j}) = n
        BY SMTT(30), <1>1, <2>0, <2>1, <3>1
      <4>2. Good(s \ {i}) /\ Good(s \ {j})
        BY <2>0, <4>1
      <4>3. it[s \ {j}] = p[i] + it[(s \ {j}) \ {i}] /\ it[s \ {i}] = p[j] + it[(s \ {i}) \ {j}]
        BY <3>1, <3>4, <4>2
      <4>4. (s \ {j}) \ {i} = (s \ {i}) \ {j} /\ (s \ {i}) \ {j} \in SUBSET (1..m)
        OBVIOUS
      <4>5. p[i] \in Nat /\ p[j] \in Nat /\ it[(s \ {i}) \ {j}] \in Nat
        BY <3>1, <4>4
      <4>6. it[s] = p[j] + (p[i] + it[(s \ {i}) \ {j}])
        BY <3>2, <4>3, <4>4
      <4>7. it[s \ {i}] = p[j] + it[(s \ {i}) \ {j}]
        BY <4>3
      <4> QED
        BY <4>5, <4>6, <4>7
    <3> QED
      BY <3>3, <3>4
  <2>2. \A s \in SUBSET (1..m) : Cardinality(s) = n + 1 => Good(s)
    BY <2>1
  <2> HIDE DEF Good
  <2> QED
    BY <2>0, <2>2
<1>4. T = Nat
  <2> HIDE DEF T
  <2>1. T \in SUBSET Nat
    BY DEF T
  <2> QED
    BY <1>2, <1>3, <2>1, NumbersInduct
<1>5. \A s \in SUBSET (1..m) : Good(s)
  BY <1>1, <1>4
<1> QED
  BY <1>5

\* The sizes of what has arrived: after no piece, one piece, and so on.
Totals(sum, m, p) == sum \in [0..m -> Nat] /\ sum[0] = 0 /\ \A k \in 1..m : sum[k] = sum[k - 1] + p[k]

(* The size of a body is the sum of its pieces from the first to the last. *)
LEMMA SizeRuns ==
  ASSUME NEW m \in Nat, NEW p \in [1..m -> Nat]
  PROVE  \E sum : Totals(sum, m, p) /\ FoldSeq(+, 0, p) = sum[m]
<1> DEFINE choose == [s \in (SUBSET (1..m)) \ {{}} |-> CHOOSE i \in s : TRUE]
<1> DEFINE step == [w \in Nat \X (1..m) |-> p[w[2]] + w[1]]
<1>1. choose \in [(SUBSET (1..m)) \ {{}} -> 1..m] /\ \A s \in (SUBSET (1..m)) \ {{}} : choose[s] \in s
  OBVIOUS
<1>2. step \in [Nat \X (1..m) -> Nat]
  OBVIOUS
<1>3. PICK g \in [SUBSET (1..m) -> Nat] : \A s \in SUBSET (1..m) : Follows(g, s, 0, step, choose)
  <2> HIDE DEF choose, step
  <2>1. IsFiniteSet(1..m)
    BY FS_Interval
  <2>2. ASSUME NEW V, NEW base \in V, NEW st \in [V \X (1..m) -> V]
        PROVE  \E g \in [SUBSET (1..m) -> V] : \A s \in SUBSET (1..m) : Follows(g, s, base, st, choose)
    BY <1>1, <2>1, FoldExists
  <2> QED
    BY <1>2, <2>2
<1>4. ASSUME NEW s \in SUBSET (1..m)
      PROVE  g[s] = IF s = {} THEN 0 ELSE p[CHOOSE i \in s : TRUE] + g[s \ {CHOOSE i \in s : TRUE}]
  <2>1. CASE s = {}
    BY <1>3, <2>1 DEF Follows
  <2>2. CASE s # {}
    <3>1. choose[s] = (CHOOSE i \in s : TRUE) /\ choose[s] \in 1..m
      BY <1>1, <2>2
    <3>2. g[s \ {choose[s]}] \in Nat
      OBVIOUS
    <3>3. g[s] = step[<<g[s \ {choose[s]}], choose[s]>>]
      BY <1>3, <2>2 DEF Follows
    <3>4. ASSUME NEW v \in Nat, NEW i \in 1..m PROVE step[<<v, i>>] = p[i] + v
      OBVIOUS
    <3> QED
      BY <2>2, <3>1, <3>2, <3>3, <3>4
  <2> QED
    BY <2>1, <2>2
<1> DEFINE Sums(it) == it = [s \in SUBSET (1..m) |->
                               IF s = {} THEN 0
                               ELSE p[CHOOSE i \in s : TRUE] + it[s \ {CHOOSE i \in s : TRUE}]]
<1>5. Sums(g)
  BY <1>4
<1>6. FoldSeq(+, 0, p) = (CHOOSE it : Sums(it))[1..m]
  BY DEF FoldSeq, FoldFunction, FoldFunctionOnSet, MapThenFoldSet
<1>7. PICK it : Sums(it) /\ FoldSeq(+, 0, p) = it[1..m]
  BY <1>5, <1>6
<1>8. \A s \in SUBSET (1..m) : it[s] = g[s]
  <2> DEFINE T == {s \in SUBSET (1..m) : it[s] = g[s]}
  <2>1. {} \in T
    BY <1>4, <1>7
  <2>2. ASSUME NEW s \in (SUBSET (1..m)) \ {{}} PROVE \E i \in s : s \ {i} \in T => s \in T
    <3>1. (CHOOSE i \in s : TRUE) \in s
      OBVIOUS
    <3> DEFINE j == CHOOSE i \in s : TRUE
    <3>2. it[s] = p[j] + it[s \ {j}]
      BY <1>7
    <3>3. g[s] = p[j] + g[s \ {j}]
      BY <1>4
    <3> HIDE DEF j
    <3>4. s \ {j} \in T => s \in T
      BY <3>2, <3>3
    <3> QED
      BY <3>1, <3>4 DEF j
  <2>3. SUBSET (1..m) \subseteq T
    <3>1. \A s \in (SUBSET (1..m)) \ {{}} : \E i \in s : s \ {i} \in T => s \in T
      BY <2>2
    <3> HIDE DEF T
    <3> QED
      BY <2>1, <3>1, SubsetsInduct
  <2> QED
    BY <2>3
<1>9. \A s \in SUBSET (1..m) : \A i \in s : g[s] = p[i] + g[s \ {i}]
  <2>1. \A s \in SUBSET (1..m) :
          g[s] = IF s = {} THEN 0 ELSE p[CHOOSE i \in s : TRUE] + g[s \ {CHOOSE i \in s : TRUE}]
    BY <1>4
  <2> QED
    BY ZenonT(60), <2>1, SumWithout
<1> DEFINE sum == [k \in 0..m |-> g[1..k]]
<1>10. sum \in [0..m -> Nat]
  <2>1. \A k \in 0..m : (1..k) \in SUBSET (1..m)
    OBVIOUS
  <2> QED
    BY <2>1
<1>11. sum[0] = 0
  <2>1. (1..0) = {} /\ sum[0] = g[1..0]
    OBVIOUS
  <2> QED
    BY <1>4, <2>1
<1>12. ASSUME NEW k \in 1..m PROVE sum[k] = sum[k - 1] + p[k]
  <2>1. (1..k) \in SUBSET (1..m) /\ k \in 1..k /\ k \in 0..m /\ k - 1 \in 0..m
    OBVIOUS
  <2>2. (1..k) \ {k} = 1..(k - 1)
    BY LastIndex
  <2>3. g[1..k] = p[k] + g[1..(k - 1)]
    BY <1>9, <2>1, <2>2
  <2>4. sum[k] = g[1..k] /\ sum[k - 1] = g[1..(k - 1)] /\ sum[k - 1] \in Nat
    BY <1>10, <2>1
  <2> QED
    BY <2>3, <2>4
<1>13. FoldSeq(+, 0, p) = sum[m]
  <2>1. (1..m) \in SUBSET (1..m) /\ m \in 0..m
    OBVIOUS
  <2> QED
    BY <1>7, <1>8, <2>1
<1> HIDE DEF sum
<1>14. Totals(sum, m, p)
  BY <1>10, <1>11, <1>12 DEF Totals
<1> QED
  BY <1>13, <1>14

-----------------------------------------------------------------------------
(* The readers of a body, piece after piece. *)
LEMMA UpToLast ==
  ASSUME NEW m \in Nat, NEW T, 0 \in T, \A k \in 1..m : k - 1 \in T => k \in T
  PROVE  \A k \in 0..m : k \in T
<1> DEFINE U == {k \in Nat : k <= m => k \in T}
<1>1. ASSUME NEW n \in U PROVE n + 1 \in U
  BY <1>1
<1>2. U = Nat
  <2>1. 0 \in U /\ U \in SUBSET Nat
    OBVIOUS
  <2> HIDE DEF U
  <2> QED
    BY <1>1, <2>1, NumbersInduct
<1> QED
  BY <1>2

LEMMA LesserAndGreater ==
  ASSUME NEW a \in Int, NEW b \in Int
  PROVE  Min({a, b}) = (IF a <= b THEN a ELSE b) /\ Max({a, b}) = (IF a <= b THEN b ELSE a)
BY DEF Min, Max

\* What a BYOB reader may be in, and what it is in after pieces of a given size.
ByobStates == [len : 0..(Cap + 1), buffer : 0..(Cap + 1), overrun : BOOLEAN]
AfterSize(st, size) ==
  /\ st \in ByobStates
  /\ st.len = (IF size > Cap THEN Cap + 1 ELSE size) /\ st.len <= st.buffer /\ ~st.overrun

LEMMA ReadIntoAdvances ==
  ASSUME NEW st, NEW size \in Nat, NEW n \in Nat, AfterSize(st, size)
  PROVE  AfterSize(ReadInto(st, n), size + n)
<1>1. Cap \in Nat /\ Cap > 0
  BY SizesArePositive
<1>2. st.len \in 0..(Cap + 1) /\ st.buffer \in 0..(Cap + 1)
  BY DEF AfterSize, ByobStates
<1> DEFINE v == Min({n, Cap + 1 - st.len})
           grown == IF st.len + v > st.buffer THEN Min({Max({2 * st.buffer, st.len + v}), Cap + 1}) ELSE st.buffer
<1>3. v = (IF n <= Cap + 1 - st.len THEN n ELSE Cap + 1 - st.len)
  BY <1>1, <1>2, LesserAndGreater
<1>4. v \in Nat /\ st.len + v \in 0..(Cap + 1)
  BY <1>1, <1>2, <1>3
<1> HIDE DEF v
<1>5. Max({2 * st.buffer, st.len + v}) \in Int /\ Max({2 * st.buffer, st.len + v}) >= st.len + v
  <2>1. 2 * st.buffer \in Int /\ st.len + v \in Int
    BY <1>1, <1>2, <1>4
  <2>2. Max({2 * st.buffer, st.len + v}) = (IF 2 * st.buffer <= st.len + v THEN st.len + v ELSE 2 * st.buffer)
    BY <2>1, LesserAndGreater
  <2> QED
    BY <2>1, <2>2
<1>6. grown \in 0..(Cap + 1) /\ st.len + v <= grown
  <2> DEFINE double == Max({2 * st.buffer, st.len + v})
  <2>1. double \in Int /\ double >= st.len + v
    BY <1>5
  <2> HIDE DEF double
  <2>2. Min({double, Cap + 1}) = (IF double <= Cap + 1 THEN double ELSE Cap + 1)
    BY <1>1, <2>1, LesserAndGreater
  <2> QED
    BY <1>1, <1>2, <1>4, <2>1, <2>2 DEF double
<1> HIDE DEF grown
<1>7. ReadInto(st, n) = [len |-> st.len + v, buffer |-> grown, overrun |-> st.overrun \/ st.len + v > grown]
  BY DEF ReadInto, v, grown
<1>8. ~(st.overrun \/ st.len + v > grown)
  BY <1>1, <1>2, <1>4, <1>6 DEF AfterSize
<1>9. st.len + v = (IF size + n > Cap THEN Cap + 1 ELSE size + n)
  BY <1>1, <1>2, <1>3 DEF AfterSize
<1> QED
  BY <1>4, <1>6, <1>7, <1>8, <1>9 DEF AfterSize, ByobStates

\* The BYOB reader, after all pieces, holds what fits in one byte more than the cap.
LEMMA ByobRuns ==
  ASSUME NEW m \in Nat, NEW p \in [1..m -> Nat], NEW sum, Totals(sum, m, p),
         NEW base, AfterSize(base, 0)
  PROVE  AfterSize(FoldLeft(ReadInto, base, p), sum[m])
<1> DEFINE V == {st \in ByobStates : \E size \in Nat : AfterSize(st, size)}
<1> DEFINE step == [w \in V \X (1..m) |-> ReadInto(w[1], p[w[2]])]
<1> DEFINE Folds(it) == it = [s \in SUBSET (1..m) |->
                                IF s = {} THEN base ELSE ReadInto(it[s \ {Max(s)}], p[Max(s)])]
<1>1. base \in V
  BY DEF AfterSize
<1>2. ASSUME NEW st \in V, NEW i \in 1..m PROVE ReadInto(st, p[i]) \in V
  <2>1. PICK size \in Nat : AfterSize(st, size)
    BY <1>2
  <2>2. p[i] \in Nat /\ size + p[i] \in Nat
    BY <1>2
  <2>3. AfterSize(ReadInto(st, p[i]), size + p[i])
    BY <2>1, <2>2, ReadIntoAdvances
  <2> QED
    BY <2>2, <2>3 DEF AfterSize
<1>3. step \in [V \X (1..m) -> V] /\ \A st \in V, i \in 1..m : step[<<st, i>>] = ReadInto(st, p[i])
  <2> HIDE DEF V
  <2> QED
    BY <1>2
<1>4. PICK g \in [SUBSET (1..m) -> V] : LeftFold(g, m, base, step)
  <2> HIDE DEF V, step
  <2> QED
    BY <1>1, <1>3, LeftFoldExists
<1>5. Folds(g)
  <2> HIDE DEF V, step
  <2>1. ASSUME NEW s \in SUBSET (1..m), s # {}
        PROVE  g[s] = ReadInto(g[s \ {Max(s)}], p[Max(s)])
    <3>1. Max(s) \in 1..m /\ g[s \ {Max(s)}] \in V
      BY <2>1, GreatestIndex
    <3> QED
      BY <1>3, <1>4, <2>1, <3>1 DEF LeftFold
  <2>2. g = [s \in SUBSET (1..m) |-> g[s]]
    OBVIOUS
  <2>3. \A s \in SUBSET (1..m) : g[s] = IF s = {} THEN base ELSE ReadInto(g[s \ {Max(s)}], p[Max(s)])
    BY <1>4, <2>1 DEF LeftFold
  <2> QED
    BY <2>2, <2>3
<1> HIDE DEF V, step
<1>6. FoldLeft(ReadInto, base, p) = (CHOOSE it : Folds(it))[1..m]
  BY DEF FoldLeft, MapThenFoldSet
<1>7. PICK it : Folds(it) /\ FoldLeft(ReadInto, base, p) = it[1..m]
  BY <1>5, <1>6
<1> DEFINE T == {k \in 0..m : AfterSize(it[1..k], sum[k])}
<1>8. \A k \in 1..m : (1..k) \in SUBSET (1..m) /\ 1..k # {} /\ k \in 0..m /\ k - 1 \in 0..m
  BY Positions
<1>9. 0 \in T
  <2>1. it[1..0] = base
    BY <1>7
  <2> QED
    BY <2>1 DEF Totals
<1>10. ASSUME NEW k \in 1..m, k - 1 \in T PROVE k \in T
  <2>1. (1..k) \in SUBSET (1..m) /\ 1..k # {} /\ k \in 0..m /\ k - 1 \in 0..m
    BY <1>8, <1>10
  <2>2. Max(1..k) = k /\ (1..k) \ {k} = 1..(k - 1)
    BY <1>10, LastIndex
  <2>3. it[1..k] = ReadInto(it[(1..k) \ {Max(1..k)}], p[Max(1..k)])
    BY <1>7, <2>1
  <2>4. it[1..k] = ReadInto(it[1..(k - 1)], p[k])
    BY <2>2, <2>3
  <2>5. sum[k] = sum[k - 1] + p[k] /\ sum[k - 1] \in Nat /\ p[k] \in Nat
    BY <2>1 DEF Totals
  <2>6. AfterSize(it[1..(k - 1)], sum[k - 1])
    BY <1>10
  <2>7. AfterSize(ReadInto(it[1..(k - 1)], p[k]), sum[k - 1] + p[k])
    BY <2>5, <2>6, ReadIntoAdvances
  <2> QED
    BY <2>1, <2>4, <2>5, <2>7
<1>11. m \in T
  <2> HIDE DEF T
  <2>1. \A k \in 0..m : k \in T
    BY <1>9, <1>10, UpToLast
  <2> QED
    BY <2>1
<1> QED
  BY <1>7, <1>11

\* The reader of chunks adds the pieces up, and stops at the one that passes the cap.
AddPiece(st, n) == IF st > Cap THEN st ELSE st + n
Counted(st, size) == st \in Nat /\ (IF size > Cap THEN st > Cap ELSE st = size)

LEMMA ChunksRun ==
  ASSUME NEW m \in Nat, NEW p \in [1..m -> Nat], NEW sum, Totals(sum, m, p)
  PROVE  Counted(FoldLeft(LAMBDA st, n : IF st > Cap THEN st ELSE st + n, 0, p), sum[m])
<1> DEFINE step == [w \in Nat \X (1..m) |-> AddPiece(w[1], p[w[2]])]
<1> DEFINE Folds(it) == it = [s \in SUBSET (1..m) |->
                                IF s = {} THEN 0
                                ELSE IF it[s \ {Max(s)}] > Cap THEN it[s \ {Max(s)}]
                                     ELSE it[s \ {Max(s)}] + p[Max(s)]]
<1> DEFINE total == FoldLeft(LAMBDA st, n : IF st > Cap THEN st ELSE st + n, 0, p)
<1>1. Cap \in Nat
  BY SizesArePositive
<1>2. step \in [Nat \X (1..m) -> Nat] /\ \A st \in Nat, i \in 1..m : step[<<st, i>>] = AddPiece(st, p[i])
  BY <1>1 DEF AddPiece
<1>3. PICK g \in [SUBSET (1..m) -> Nat] : LeftFold(g, m, 0, step)
  <2> HIDE DEF step
  <2> QED
    BY <1>2, LeftFoldExists
<1>4. Folds(g)
  <2> HIDE DEF step
  <2>1. ASSUME NEW s \in SUBSET (1..m), s # {}
        PROVE  g[s] = IF g[s \ {Max(s)}] > Cap THEN g[s \ {Max(s)}] ELSE g[s \ {Max(s)}] + p[Max(s)]
    <3>1. Max(s) \in 1..m /\ g[s \ {Max(s)}] \in Nat
      BY <2>1, GreatestIndex
    <3> QED
      BY <1>2, <1>3, <2>1, <3>1 DEF AddPiece, LeftFold
  <2> QED
    BY <1>3, <2>1 DEF LeftFold
<1> HIDE DEF step
<1>5. total = (CHOOSE it : Folds(it))[1..m]
  BY DEF FoldLeft, MapThenFoldSet
<1> HIDE DEF total
<1>6. PICK it : Folds(it) /\ total = it[1..m]
  BY <1>4, <1>5
<1> DEFINE T == {k \in 0..m : Counted(it[1..k], sum[k])}
<1>7. 0 \in T
  <2>1. it[1..0] = 0
    BY <1>6
  <2> QED
    BY <1>1, <2>1 DEF Counted, Totals
<1>8. ASSUME NEW k \in 1..m, k - 1 \in T PROVE k \in T
  <2>1. (1..k) \in SUBSET (1..m) /\ 1..k # {} /\ k \in 0..m /\ k - 1 \in 0..m
    BY SMTT(30), <1>8
  <2>2. Max(1..k) = k /\ (1..k) \ {k} = 1..(k - 1)
    BY <1>8, LastIndex
  <2>3. it[1..k] = IF it[(1..k) \ {Max(1..k)}] > Cap THEN it[(1..k) \ {Max(1..k)}]
                   ELSE it[(1..k) \ {Max(1..k)}] + p[Max(1..k)]
    BY <1>6, <2>1
  <2>4. it[1..k] = AddPiece(it[1..(k - 1)], p[k])
    BY <2>2, <2>3 DEF AddPiece
  <2>5. sum[k] = sum[k - 1] + p[k] /\ sum[k - 1] \in Nat /\ p[k] \in Nat
    BY <2>1 DEF Totals
  <2>6. Counted(it[1..(k - 1)], sum[k - 1])
    BY <1>8
  <2> QED
    BY <1>1, <2>1, <2>4, <2>5, <2>6 DEF AddPiece, Counted
<1>9. m \in T
  <2> HIDE DEF T
  <2>1. \A k \in 0..m : k \in T
    BY <1>7, <1>8, UpToLast
  <2> QED
    BY <2>1
<1> QED
  BY <1>6, <1>9 DEF total

\* Either reader refuses a body exactly if it is longer than the cap, and otherwise has it
\* to the end or to where it breaks off: readCapped and readCappedChunks agree, for any cap,
\* any buffer to start with and any pieces, and readCapped never writes past its buffer.
THEOREM ReadersAreExact ==
  \A b \in Bodies, byob \in BOOLEAN :
    /\ Size(b) \in Nat
    /\ ReadCapped(b, byob) = IF Size(b) > Cap THEN "too large" ELSE IF b.breaks THEN "cut" ELSE "whole"
<1> SUFFICES ASSUME NEW b \in Bodies, NEW byob \in BOOLEAN
             PROVE  /\ Size(b) \in Nat
                    /\ ReadCapped(b, byob) = IF Size(b) > Cap THEN "too large"
                                             ELSE IF b.breaks THEN "cut" ELSE "whole"
  OBVIOUS
<1>1. Cap \in Nat /\ ReadChunk \in Nat /\ MaxPieces \in Nat
  BY SizesArePositive
<1>2. PICK m \in 0..MaxPieces : b.pieces \in [1..m -> 1..ReadChunk]
  BY DEF Bodies, SeqOf
<1>3. m \in Nat /\ b.pieces \in [1..m -> Nat]
  BY <1>1, <1>2
<1> DEFINE p == b.pieces
           base == [len |-> 0, buffer |-> Min({ReadChunk, Cap + 1}), overrun |-> FALSE]
<1>4. PICK sum : Totals(sum, m, p) /\ FoldSeq(+, 0, p) = sum[m]
  BY <1>3, SizeRuns
<1>5. Size(b) = sum[m] /\ Size(b) \in Nat
  <2>1. m \in 0..m
    BY <1>3
  <2>2. sum[m] \in Nat
    BY <1>4, <2>1 DEF Totals
  <2> QED
    BY <1>4, <2>2 DEF Size
<1>6. AfterSize(base, 0)
  <2>1. Min({ReadChunk, Cap + 1}) = (IF ReadChunk <= Cap + 1 THEN ReadChunk ELSE Cap + 1)
    BY <1>1, LesserAndGreater
  <2> QED
    BY <1>1, <2>1 DEF AfterSize, ByobStates
<1>7. AfterSize(ReadByob(b), Size(b))
  <2> HIDE DEF base
  <2>1. AfterSize(FoldLeft(ReadInto, base, p), sum[m])
    BY <1>3, <1>4, <1>6, ByobRuns
  <2> QED
    BY <1>5, <2>1 DEF base, ReadByob
<1>8. Counted(ReadChunks(b), Size(b))
  <2>1. Counted(FoldLeft(LAMBDA st, n : IF st > Cap THEN st ELSE st + n, 0, p), sum[m])
    BY <1>3, <1>4, ChunksRun
  <2> QED
    BY <1>5, <2>1 DEF ReadChunks
<1>9. ~ReadByob(b).overrun /\ (ReadByob(b).len > Cap <=> Size(b) > Cap)
  BY <1>1, <1>5, <1>7 DEF AfterSize
<1>10. ReadChunks(b) > Cap <=> Size(b) > Cap
  BY <1>1, <1>5, <1>8 DEF Counted
<1>11. ReadCapped(b, byob) = IF Size(b) > Cap THEN "too large" ELSE IF b.breaks THEN "cut" ELSE "whole"
  BY <1>9, <1>10 DEF ReadCapped
<1> QED
  BY <1>5, <1>11
-----------------------------------------------------------------------------
(* The cells: what is true of each of them whatever flights are under way. *)
Outcomes == {"ok", "Auth", "Transport"}

CellRecords ==
  [held : BOOLEAN, slot : Outcomes \cup {"empty", "pending"}, waits : Outcomes \cup {"pending"},
   by : Callers \cup Cells \cup {Nobody}, out : Nat, made : Nat]

\* One exchange is out exactly while the slot is pending, and nothing is held then; the
\* slot is taken exactly while someone has to unwind it; what is made once is made as it
\* becomes held (the configuration) or is about to be (the admin client).
CellKept(k, s) ==
  /\ s \in CellRecords
  /\ s.out = (IF s.slot = "pending" THEN 1 ELSE 0)
  /\ s.slot = "pending" => ~s.held
  /\ s.slot = "empty" <=> s.by = Nobody
  /\ k = "conf" => s.waits = "ok" /\ s.made = (IF s.held THEN 1 ELSE 0)
  /\ k = "admin" => s.made = (IF s.held \/ s.slot = "ok" THEN 1 ELSE 0)

AllKept(cells) == cells \in [Cells -> CellRecords] /\ \A k \in Cells : CellKept(k, cells[k])
CellsKept == AllKept(cell)

\* The updates of a cell, each with the record it makes.
Started(s, b, w) == [s EXCEPT !.slot = "pending", !.out = @ + 1, !.by = b, !.waits = w]
Settled(s, o, h) == [s EXCEPT !.slot = o, !.held = h, !.out = @ - 1, !.made = IF o = "ok" THEN @ + 1 ELSE @]
Told(s, o) == [s EXCEPT !.waits = o]
Unwound(s, h) == [s EXCEPT !.slot = "empty", !.by = Nobody, !.held = h]
Lapsed(s) == [s EXCEPT !.held = FALSE]

LEMMA StartedFields ==
  ASSUME NEW s \in CellRecords, NEW b \in Callers \cup Cells, NEW w \in Outcomes \cup {"pending"},
         NEW u, u = Started(s, b, w)
  PROVE  u = [held |-> s.held, slot |-> "pending", waits |-> w, by |-> b, out |-> s.out + 1, made |-> s.made]
BY DEF CellRecords, Started

LEMMA SettledFields ==
  ASSUME NEW s \in CellRecords, NEW o \in Outcomes, NEW h \in BOOLEAN, NEW u, u = Settled(s, o, h)
  PROVE  u = [held |-> h, slot |-> o, waits |-> s.waits, by |-> s.by, out |-> s.out - 1,
              made |-> IF o = "ok" THEN s.made + 1 ELSE s.made]
BY DEF CellRecords, Settled

LEMMA ToldFields ==
  ASSUME NEW s \in CellRecords, NEW o \in Outcomes, NEW u, u = Told(s, o)
  PROVE  u = [held |-> s.held, slot |-> s.slot, waits |-> o, by |-> s.by, out |-> s.out, made |-> s.made]
BY DEF CellRecords, Told

LEMMA UnwoundFields ==
  ASSUME NEW s \in CellRecords, NEW h \in BOOLEAN, NEW u, u = Unwound(s, h)
  PROVE  u = [held |-> h, slot |-> "empty", waits |-> s.waits, by |-> Nobody, out |-> s.out, made |-> s.made]
BY DEF CellRecords, Unwound

LEMMA LapsedFields ==
  ASSUME NEW s \in CellRecords, NEW u, u = Lapsed(s)
  PROVE  u = [held |-> FALSE, slot |-> s.slot, waits |-> s.waits, by |-> s.by, out |-> s.out, made |-> s.made]
BY DEF CellRecords, Lapsed

LEMMA StartedKept ==
  ASSUME NEW k \in Cells, NEW s, CellKept(k, s), ~s.held, s.slot = "empty",
         NEW b \in Callers \cup Cells, NEW w \in Outcomes \cup {"pending"}, k = "conf" => w = "ok"
  PROVE  CellKept(k, Started(s, b, w))
<1> DEFINE u == Started(s, b, w)
<1> HIDE DEF u
<1>0. s \in CellRecords
  BY DEF CellKept
<1>1. u = [held |-> s.held, slot |-> "pending", waits |-> w, by |-> b, out |-> s.out + 1, made |-> s.made]
  BY <1>0, StartedFields DEF u
<1>2. u.slot = "pending" /\ u.out = s.out + 1 /\ u.held = s.held /\ u.by = b /\ u.waits = w /\ u.made = s.made
  BY <1>1
<1>3. s.out + 1 \in Nat /\ s.made \in Nat /\ s.held \in BOOLEAN /\ s.out = 0
  BY DEF CellKept, CellRecords
<1>4. u \in CellRecords
  BY <1>1, <1>3 DEF CellRecords
<1>5. b # Nobody
  BY NamesAreDistinct
<1>6. CellKept(k, u)
  BY <1>2, <1>3, <1>4, <1>5 DEF CellKept
<1> QED
  BY <1>6 DEF u

LEMMA SettledKept ==
  ASSUME NEW k \in Cells, NEW s, CellKept(k, s), s.slot = "pending",
         NEW o \in Outcomes, NEW stays \in BOOLEAN,
         k = "conf" => (stays <=> o = "ok"), k = "admin" => ~stays
  PROVE  CellKept(k, Settled(s, o, stays))
<1> DEFINE u == Settled(s, o, stays)
           m == IF o = "ok" THEN s.made + 1 ELSE s.made
<1> HIDE DEF u
<1>0. s \in CellRecords
  BY DEF CellKept
<1>1. u = [held |-> stays, slot |-> o, waits |-> s.waits, by |-> s.by, out |-> s.out - 1, made |-> m]
  BY <1>0, SettledFields DEF u
<1>2. s.out = 1 /\ s.made \in Nat /\ s.by # Nobody /\ ~s.held
  BY DEF CellKept, CellRecords
<1>3. o # "empty" /\ o # "pending"
  BY DEF Outcomes
<1>4. k = "conf" \/ k = "admin" => s.made = 0
  BY <1>2 DEF CellKept
<1>5. k = "conf" => s.waits = "ok"
  BY DEF CellKept
<1>6. m \in Nat
  BY <1>2
<1>8. k = "conf" \/ k = "admin" => m = (IF o = "ok" THEN 1 ELSE 0)
  BY <1>4
<1> HIDE DEF m
<1>7. /\ u.slot = o /\ u.held = stays /\ u.out = 0 /\ u.by = s.by /\ u.waits = s.waits
      /\ u.made = m
  BY <1>1, <1>2
<1>9. u \in CellRecords
  <2>1. s.waits \in Outcomes \cup {"pending"} /\ s.by \in Callers \cup Cells \cup {Nobody}
    BY <1>0 DEF CellRecords
  <2>2. s.out - 1 \in Nat
    BY <1>2
  <2> QED
    BY <1>1, <1>6, <2>1, <2>2 DEF CellRecords
<1>10. CellKept(k, u)
  BY <1>2, <1>3, <1>5, <1>7, <1>8, <1>9 DEF CellKept
<1> QED
  BY <1>10 DEF u

LEMMA ToldKept ==
  ASSUME NEW k \in Cells, k # "conf", NEW s, CellKept(k, s), NEW o \in Outcomes
  PROVE  CellKept(k, Told(s, o))
<1> DEFINE u == Told(s, o)
<1> HIDE DEF u
<1>1. s \in CellRecords
  BY DEF CellKept
<1>2. u = [held |-> s.held, slot |-> s.slot, waits |-> o, by |-> s.by, out |-> s.out, made |-> s.made]
  BY <1>1, ToldFields DEF u
<1>3. u \in CellRecords
  BY <1>1, <1>2 DEF CellRecords
<1>4. u.held = s.held /\ u.slot = s.slot /\ u.by = s.by /\ u.out = s.out /\ u.made = s.made
  BY <1>2
<1>5. CellKept(k, u)
  BY <1>3, <1>4 DEF CellKept
<1> QED
  BY <1>5 DEF u

LEMMA UnwoundKept ==
  ASSUME NEW k \in Cells, NEW s, CellKept(k, s), s.slot # "pending",
         NEW h \in BOOLEAN, h <=> s.held \/ (k = "admin" /\ s.slot = "ok")
  PROVE  CellKept(k, Unwound(s, h))
<1> DEFINE u == Unwound(s, h)
<1> HIDE DEF u
<1>1. s \in CellRecords
  BY DEF CellKept
<1>2. u = [held |-> h, slot |-> "empty", waits |-> s.waits, by |-> Nobody, out |-> s.out, made |-> s.made]
  BY <1>1, UnwoundFields DEF u
<1>3. u \in CellRecords
  BY <1>1, <1>2 DEF CellRecords
<1>4. u.held = h /\ u.slot = "empty" /\ u.by = Nobody /\ u.out = s.out /\ u.made = s.made /\ u.waits = s.waits
  BY <1>2
<1>5. CellKept(k, u)
  BY <1>3, <1>4 DEF CellKept
<1> QED
  BY <1>5 DEF u

LEMMA LapsedKept ==
  ASSUME NEW s, CellKept("token", s)
  PROVE  CellKept("token", Lapsed(s))
<1> DEFINE u == Lapsed(s)
<1> HIDE DEF u
<1>1. s \in CellRecords
  BY DEF CellKept
<1>2. u = [held |-> FALSE, slot |-> s.slot, waits |-> s.waits, by |-> s.by, out |-> s.out, made |-> s.made]
  BY <1>1, LapsedFields DEF u
<1>3. u \in CellRecords
  BY <1>1, <1>2 DEF CellRecords
<1>4. u.held = FALSE /\ u.slot = s.slot /\ u.by = s.by /\ u.out = s.out
  BY <1>2
<1>5. CellKept("token", u)
  BY <1>3, <1>4 DEF CellKept
<1> QED
  BY <1>5 DEF u

\* What awaiting a cell gives.
LEMMA AwaitingGives ==
  ASSUME CellsKept, NEW k \in Cells
  PROVE  /\ Awaiting(k) \in Outcomes \cup {"pending"}
         /\ Awaiting(k) \notin {"ok", "pending"} => Awaiting(k) = cell[k].slot
<1>1. CellKept(k, cell[k])
  BY DEF CellsKept, AllKept
<1>2. /\ cell[k].slot \in Outcomes \cup {"empty", "pending"} /\ cell[k].held \in BOOLEAN
  BY <1>1 DEF CellKept, CellRecords
<1>3. CASE cell[k].held
  BY <1>3 DEF Awaiting, Outcomes
<1>4. CASE ~cell[k].held /\ cell[k].slot = "empty"
  BY <1>4 DEF Awaiting, Idle
<1>5. CASE ~cell[k].held /\ cell[k].slot # "empty"
  BY <1>2, <1>5 DEF Awaiting, Idle
<1> QED
  BY <1>2, <1>3, <1>4, <1>5

\* Only idle cells are started, each by the caller or by a cell that needs it.
LEMMA StartsAreIdle ==
  ASSUME NEW k \in Cells, NEW j \in Starts(k)
  PROVE  /\ j \in Cells /\ Idle(j)
         /\ j # k => (CHOOSE i \in Cells : Needs[i] = j) \in Cells
<1>1. Needs["admin"] = "token" /\ Needs["token"] = "conf" /\ Needs["conf"] = "none"
  BY DEF Needs, Cells
<1> DEFINE from(i) == IF i # "none" /\ Idle(i) THEN {i} ELSE {}
           first == IF from(k) = {} THEN {}
                    ELSE from(k) \cup (IF k \in from(k) /\ Needs[k] # "none" THEN from(Needs[k]) ELSE {})
           second == IF first = {} THEN {}
                     ELSE first \cup (IF Needs[k] \in first /\ Needs[Needs[k]] # "none"
                                      THEN from(Needs[Needs[k]]) ELSE {})
<1>2. Starts(k) = second
  BY Zenon DEF Starts
<1>3. CASE k = "admin"
  BY <1>1, <1>2, <1>3 DEF Cells
<1>4. CASE k = "token"
  BY <1>1, <1>2, <1>4 DEF Cells
<1>5. CASE k = "conf"
  BY <1>1, <1>2, <1>5 DEF Cells
<1> QED
  BY <1>3, <1>4, <1>5 DEF Cells

\* The three ways in which an action changes the cells.
LEMMA AfterKept ==
  ASSUME CellsKept, NEW k \in Cells, NEW asker \in Callers
  PROVE  AllKept(After(k, asker))
<1> DEFINE b(j) == IF j = k THEN asker ELSE CHOOSE i \in Cells : Needs[i] = j
           w(j) == IF Needs[j] = "none" THEN "ok" ELSE Awaiting(Needs[j])
<1>1. \A j \in Cells : CellKept(j, cell[j])
  BY DEF CellsKept, AllKept
<1>2. ASSUME NEW j \in Cells, j \in Starts(k)
      PROVE  b(j) \in Callers \cup Cells /\ w(j) \in Outcomes \cup {"pending"} /\ (j = "conf" => w(j) = "ok")
  <2>1. b(j) \in Callers \cup Cells
    BY <1>2, StartsAreIdle
  <2>2. Needs[j] \in Cells \/ Needs[j] = "none"
    BY DEF Needs, Cells
  <2>3. w(j) \in Outcomes \cup {"pending"}
    BY <2>2, AwaitingGives DEF Outcomes
  <2>4. j = "conf" => w(j) = "ok"
    BY DEF Needs, Cells
  <2> QED
    BY <2>1, <2>3, <2>4
<1>3. After(k, asker) = [j \in Cells |-> IF j \notin Starts(k) THEN cell[j] ELSE Started(cell[j], b(j), w(j))]
  BY Zenon DEF After, Started
<1> HIDE DEF b, w
<1>4. ASSUME NEW j \in Cells, j \in Starts(k) PROVE CellKept(j, Started(cell[j], b(j), w(j)))
  <2>1. Idle(j)
    BY <1>4, StartsAreIdle
  <2>2. ~cell[j].held /\ cell[j].slot = "empty" /\ CellKept(j, cell[j])
    BY <1>1, <2>1 DEF Idle
  <2> QED
    BY <1>2, <1>4, <2>2, StartedKept
<1>5. \A j \in Cells : CellKept(j, After(k, asker)[j])
  BY <1>1, <1>3, <1>4
<1>6. \A j \in Cells : After(k, asker)[j] \in CellRecords
  BY <1>5 DEF CellKept
<1>7. After(k, asker) = [j \in Cells |-> After(k, asker)[j]]
  BY <1>3
<1>8. After(k, asker) \in [Cells -> CellRecords]
  BY <1>6, <1>7
<1> QED
  BY <1>5, <1>8 DEF AllKept

LEMMA SettleKept ==
  ASSUME CellsKept, NEW k \in Cells, cell[k].slot = "pending", NEW o \in Outcomes, NEW stays \in BOOLEAN,
         k = "conf" => (stays <=> o = "ok"), k = "admin" => ~stays, Settle(k, o, stays)
  PROVE  CellsKept'
<1>1. \A j \in Cells : CellKept(j, cell[j])
  BY DEF CellsKept, AllKept
<1>2. cell' = [j \in Cells |->
                IF j = k THEN Settled(cell[k], o, stays)
                ELSE IF Needs[j] = k /\ cell[j].waits = "pending" THEN Told(cell[j], o) ELSE cell[j]]
  BY Zenon DEF Settle, Settled, Told
<1>3. CellKept(k, Settled(cell[k], o, stays))
  BY <1>1, SettledKept
<1>4. ASSUME NEW j \in Cells, Needs[j] = k PROVE CellKept(j, Told(cell[j], o))
  <2>1. j # "conf"
    BY <1>4 DEF Needs, Cells
  <2> QED
    BY <1>1, <2>1, ToldKept
<1>5. \A j \in Cells : CellKept(j, cell'[j])
  BY <1>1, <1>2, <1>3, <1>4
<1>6. \A j \in Cells : cell'[j] \in CellRecords
  BY <1>5 DEF CellKept
<1>7. cell' = [j \in Cells |-> cell'[j]]
  BY <1>2
<1>8. cell' \in [Cells -> CellRecords]
  BY <1>6, <1>7
<1> QED
  BY <1>5, <1>8 DEF CellsKept, AllKept

LEMMA ChangedKept ==
  ASSUME CellsKept, NEW k \in Cells, NEW s, CellKept(k, s), cell' = [cell EXCEPT ![k] = s]
  PROVE  CellsKept'
<1>1. s \in CellRecords
  BY DEF CellKept
<1>2. cell' \in [Cells -> CellRecords]
  BY <1>1 DEF CellsKept, AllKept
<1>3. \A j \in Cells : cell'[j] = IF j = k THEN s ELSE cell[j]
  BY DEF CellsKept, AllKept
<1> QED
  BY <1>2, <1>3 DEF CellsKept, AllKept

LEMMA UnwindKept ==
  ASSUME CellsKept, NEW k \in Cells, Unwind(k)
  PROVE  CellsKept'
<1> DEFINE h == cell[k].held \/ (k = "admin" /\ cell[k].slot = "ok")
<1>1. cell' = [cell EXCEPT ![k] = Unwound(cell[k], h)]
  <2> DEFINE v == [cell[k] EXCEPT !.slot = SlotAfter(k), !.by = Nobody, !.held = h]
  <2>1. cell' = [cell EXCEPT ![k] = v]
    BY Zenon DEF Unwind
  <2>2. v = Unwound(cell[k], h)
    BY Zenon DEF SlotAfter, Unwound
  <2> HIDE DEF v
  <2> QED
    BY <2>1, <2>2
<1>2. CellKept(k, cell[k]) /\ cell[k].slot # "pending"
  BY DEF CellsKept, AllKept, Unwind
<1>3. CellKept(k, Unwound(cell[k], h))
  <2>1. h \in BOOLEAN /\ (h <=> cell[k].held \/ (k = "admin" /\ cell[k].slot = "ok"))
    OBVIOUS
  <2> HIDE DEF h
  <2> QED
    BY <1>2, <2>1, UnwoundKept
<1> QED
  BY <1>1, <1>3, ChangedKept

LEMMA ExpiryKept ==
  ASSUME CellsKept, TokenExpires
  PROVE  CellsKept'
<1>1. cell' = [cell EXCEPT !["token"] = Lapsed(cell["token"])]
  BY Zenon DEF TokenExpires, Lapsed
<1>2. "token" \in Cells /\ CellKept("token", cell["token"])
  BY DEF CellsKept, AllKept, Cells
<1> QED
  BY <1>1, <1>2, LapsedKept, ChangedKept

\* What an answer, a failure and a settled need make of a cell.
LEMMA SettlesAs ==
  ASSUME CellsKept, NEW k \in Cells, Answered(k) \/ (\E t \in FailedInTransport : Fails(k, t)) \/ Proceed(k)
  PROVE  /\ cell[k].slot = "pending" /\ UNCHANGED config
         /\ \E o \in Outcomes, stays \in BOOLEAN :
              /\ Settle(k, o, stays) /\ (k = "conf" => (stays <=> o = "ok")) /\ (k = "admin" => ~stays)
<1>1. cell[k] \in CellRecords
  BY DEF CellsKept, AllKept
<1>2. CASE Answered(k)
  <2>1. cell[k].slot = "pending" /\ k # "admin"
    BY <1>2 DEF Answered, Requesting
  <2>2. CASE k = "conf" /\ Settle(k, "ok", TRUE)
    BY <1>2, <2>1, <2>2 DEF Answered, Outcomes
  <2>3. CASE k = "token" /\ \E t \in Tokens :
               IF tokenSetFromResponse(t) /\ sendableBearer(t) THEN Settle(k, "ok", Outlives(t))
               ELSE Settle(k, "Auth", FALSE)
    <3>1. PICK t \in Tokens : IF tokenSetFromResponse(t) /\ sendableBearer(t) THEN Settle(k, "ok", Outlives(t))
                              ELSE Settle(k, "Auth", FALSE)
      BY <2>3
    <3>2. Outlives(t) \in BOOLEAN
      BY DEF Outlives
    <3>3. Settle(k, "ok", Outlives(t)) \/ Settle(k, "Auth", FALSE)
      BY <3>1
    <3>4. \E o \in Outcomes, stays \in BOOLEAN : Settle(k, o, stays)
      BY <3>2, <3>3 DEF Outcomes
    <3> QED
      BY <1>2, <2>1, <2>3, <3>4 DEF Answered
  <2> QED
    BY <1>2, <2>2, <2>3 DEF Answered
<1>3. CASE \E t \in FailedInTransport : Fails(k, t)
  <2>1. PICK t \in FailedInTransport : Fails(k, t)
    BY <1>3
  <2>2. Surfaces(k, t) \in Outcomes /\ Surfaces(k, t) # "ok"
    BY DEF Surfaces, Outcomes
  <2>3. cell[k].slot = "pending" /\ Settle(k, Surfaces(k, t), FALSE) /\ UNCHANGED config
    BY <2>1 DEF Fails, Requesting
  <2> QED
    BY <2>2, <2>3
<1>4. CASE Proceed(k)
  <2> DEFINE got == cell[k].waits
  <2>1. /\ cell[k].slot = "pending" /\ got # "pending" /\ UNCHANGED config
        /\ \/ got # "ok" /\ Settle(k, got, FALSE)
           \/ got = "ok" /\ k = "admin" /\ Settle(k, "ok", FALSE)
    BY <1>4 DEF Proceed
  <2>2. got \in Outcomes
    BY <1>1, <2>1 DEF CellRecords
  <2>3. "ok" \in Outcomes
    BY DEF Outcomes
  <2> QED
    BY <2>1, <2>2, <2>3
<1> QED
  BY <1>2, <1>3, <1>4

LEMMA AskingKept ==
  ASSUME CellsKept, NEW c \in Callers, NEW op \in Ops, Ask(c, op)
  PROVE  CellsKept'
<1>1. "admin" \in Cells /\ "conf" \in Cells
  BY DEF Cells
<1>2. CASE cell' = After("admin", c)
  BY <1>1, <1>2, AfterKept DEF CellsKept
<1>3. CASE cell' = After("conf", c)
  BY <1>1, <1>3, AfterKept DEF CellsKept
<1>4. CASE UNCHANGED cell
  BY <1>4 DEF CellsKept
<1> QED
  BY <1>2, <1>3, <1>4 DEF Ask, AskAdmin, AskAuth, AskFor

LEMMA CellsStep ==
  ASSUME CellsKept, [Next]_vars
  PROVE  CellsKept'
<1>1. CASE \E i \in Inputs : Create(i)
  BY <1>1 DEF Create, CellsKept
<1>2. ASSUME NEW k \in Cells, Answered(k) \/ (\E t \in FailedInTransport : Fails(k, t)) \/ Proceed(k)
      PROVE  CellsKept'
  BY <1>2, SettlesAs, SettleKept
<1>3. ASSUME NEW k \in Cells, Unwind(k) PROVE CellsKept'
  BY <1>3, UnwindKept
<1>4. CASE TokenExpires
  BY <1>4, ExpiryKept
<1>5. ASSUME NEW c \in Callers, NEW op \in Ops, Ask(c, op) PROVE CellsKept'
  BY <1>5, AskingKept
<1>6. ASSUME NEW c \in Callers, Resume(c) \/ Reply(c) PROVE CellsKept'
  BY <1>6 DEF Resume, Reply, Replies, NoReply, AuthReplies, AuthFails, CellsKept
<1>7. ASSUME NEW c \in Callers, UseClient(c) PROVE CellsKept'
  <2>1. "token" \in Cells
    BY DEF Cells
  <2>2. CASE cell' = After("token", c)
    BY <2>1, <2>2, AfterKept DEF CellsKept
  <2>3. CASE UNCHANGED cell
    BY <2>3 DEF CellsKept
  <2> QED
    BY <1>7, <2>2, <2>3 DEF UseClient, AskFor
<1>8. CASE UNCHANGED vars
  BY <1>8 DEF vars, CellsKept
<1> QED
  BY <1>1, <1>2, <1>3, <1>4, <1>5, <1>6, <1>7, <1>8 DEF Next, Flight

LEMMA CellsAtFirst ==
  ASSUME Init
  PROVE  CellsKept
<1> DEFINE s == [held |-> FALSE, slot |-> "empty", waits |-> "ok", by |-> Nobody, out |-> 0, made |-> 0]
<1>1. cell = [k \in Cells |-> s]
  BY DEF Init
<1>2. s \in CellRecords
  BY DEF CellRecords, Outcomes
<1>3. \A k \in Cells : CellKept(k, s)
  BY <1>2 DEF CellKept
<1> HIDE DEF s
<1> QED
  BY <1>1, <1>2, <1>3 DEF CellsKept, AllKept

LEMMA CellsAlwaysKept == Spec => []CellsKept
<1> QED
  BY CellsAtFirst, CellsStep, PTL DEF Spec

\* The configuration, the admin token and the admin client: never two exchanges for one of
\* them at a time, and the first and the last are made once, whatever calls run, fail, time
\* out and resume in whatever order.
THEOREM OneOfEachKept == Spec => []OneOfEach
<1>1. ASSUME CellsKept PROVE OneOfEach
  <2>1. ASSUME NEW k \in Cells PROVE cell[k].out <= 1 /\ (k # "token" => cell[k].made <= 1)
    <3>1. CellKept(k, cell[k])
      BY <1>1 DEF CellsKept, AllKept
    <3>2. k = "conf" \/ k = "token" \/ k = "admin"
      BY DEF Cells
    <3> QED
      BY <3>1, <3>2 DEF CellKept
  <2> QED
    BY <2>1 DEF OneOfEach
<1> QED
  BY <1>1, CellsAlwaysKept, PTL
-----------------------------------------------------------------------------
(* The calls: each update of a call's record, with the record it makes. *)
Results == {"none", "ok", "raw", "Config", "Auth", "Transport", "Forbidden", "NotFound", "Conflict", "Admin"}

CallRecords ==
  [op : Ops \cup {"none"}, at : {"idle", "sent", "client"} \cup Cells, got : Outcomes \cup {"none", "pending"},
   res : Results, applied : BOOLEAN, answer : {"none"} \cup Statuses \cup IdTokens,
   body : {"none", "within", "over"}, calls : Nat, hit : BOOLEAN]

Begun(r, op, u) ==
  [r EXCEPT !.op = op, !.at = "sent", !.got = "none", !.res = "none", !.applied = FALSE,
            !.answer = "none", !.body = "none", !.calls = @ + 1, !.hit = u]
Moved(r, a) == [r EXCEPT !.at = a]
Waiting(r, a, g) == [r EXCEPT !.at = a, !.got = g]
Rejected(r) == [r EXCEPT !.at = "idle", !.res = "Config"]
Hears(r, g, h) == [r EXCEPT !.got = g, !.hit = h]
EndedAs(r, x) == [r EXCEPT !.at = "idle", !.got = "none", !.res = x]
Marked(r, h) == [r EXCEPT !.hit = h]
Applied(r, d) == [r EXCEPT !.applied = d]
Answers(r, d, s) == [r EXCEPT !.applied = d, !.answer = s]
Judged(r, a, b) == [r EXCEPT !.answer = a, !.body = b]

LEMMA BegunFields ==
  ASSUME NEW r \in CallRecords, NEW op \in Ops, NEW u \in BOOLEAN, NEW w, w = Begun(r, op, u)
  PROVE  w = [op |-> op, at |-> "sent", got |-> "none", res |-> "none", applied |-> FALSE, answer |-> "none",
              body |-> "none", calls |-> r.calls + 1, hit |-> u]
BY DEF CallRecords, Begun

LEMMA MovedFields ==
  ASSUME NEW r \in CallRecords, NEW a, NEW w, w = Moved(r, a)
  PROVE  w = [op |-> r.op, at |-> a, got |-> r.got, res |-> r.res, applied |-> r.applied, answer |-> r.answer,
              body |-> r.body, calls |-> r.calls, hit |-> r.hit]
BY DEF CallRecords, Moved

LEMMA WaitingFields ==
  ASSUME NEW r \in CallRecords, NEW a, NEW g, NEW w, w = Waiting(r, a, g)
  PROVE  w = [op |-> r.op, at |-> a, got |-> g, res |-> r.res, applied |-> r.applied, answer |-> r.answer,
              body |-> r.body, calls |-> r.calls, hit |-> r.hit]
BY DEF CallRecords, Waiting

LEMMA RejectedFields ==
  ASSUME NEW r \in CallRecords, NEW w, w = Rejected(r)
  PROVE  w = [op |-> r.op, at |-> "idle", got |-> r.got, res |-> "Config", applied |-> r.applied,
              answer |-> r.answer, body |-> r.body, calls |-> r.calls, hit |-> r.hit]
BY DEF CallRecords, Rejected

LEMMA HearsFields ==
  ASSUME NEW r \in CallRecords, NEW g, NEW h, NEW w, w = Hears(r, g, h)
  PROVE  w = [op |-> r.op, at |-> r.at, got |-> g, res |-> r.res, applied |-> r.applied, answer |-> r.answer,
              body |-> r.body, calls |-> r.calls, hit |-> h]
BY DEF CallRecords, Hears

LEMMA EndedFields ==
  ASSUME NEW r \in CallRecords, NEW x, NEW w, w = EndedAs(r, x)
  PROVE  w = [op |-> r.op, at |-> "idle", got |-> "none", res |-> x, applied |-> r.applied, answer |-> r.answer,
              body |-> r.body, calls |-> r.calls, hit |-> r.hit]
BY DEF CallRecords, EndedAs

LEMMA MarkedFields ==
  ASSUME NEW r \in CallRecords, NEW h, NEW w, w = Marked(r, h)
  PROVE  w = [op |-> r.op, at |-> r.at, got |-> r.got, res |-> r.res, applied |-> r.applied, answer |-> r.answer,
              body |-> r.body, calls |-> r.calls, hit |-> h]
BY DEF CallRecords, Marked

LEMMA AppliedFields ==
  ASSUME NEW r \in CallRecords, NEW d, NEW w, w = Applied(r, d)
  PROVE  w = [op |-> r.op, at |-> r.at, got |-> r.got, res |-> r.res, applied |-> d, answer |-> r.answer,
              body |-> r.body, calls |-> r.calls, hit |-> r.hit]
BY DEF CallRecords, Applied

LEMMA AnswersFields ==
  ASSUME NEW r \in CallRecords, NEW d, NEW s, NEW w, w = Answers(r, d, s)
  PROVE  w = [op |-> r.op, at |-> r.at, got |-> r.got, res |-> r.res, applied |-> d, answer |-> s,
              body |-> r.body, calls |-> r.calls, hit |-> r.hit]
BY DEF CallRecords, Answers

LEMMA JudgedFields ==
  ASSUME NEW r \in CallRecords, NEW a, NEW b, NEW w, w = Judged(r, a, b)
  PROVE  w = [op |-> r.op, at |-> r.at, got |-> r.got, res |-> r.res, applied |-> r.applied, answer |-> a,
              body |-> b, calls |-> r.calls, hit |-> r.hit]
BY DEF CallRecords, Judged

(* What is true of every call. *)
Clean(r) == r.res = "none" /\ r.applied = FALSE /\ r.answer = "none" /\ r.body = "none"

TruthOf(r) ==
  r.op \in ResourceOps =>
    /\ r.res = "ok" => r.applied = TRUE
    /\ r.res \in {"Config", "Auth", "NotFound", "Conflict", "Forbidden"} => r.applied = FALSE
    /\ r.answer \in {"403", "404", "409", "other"} => r.res = ByStatus[r.answer]
    /\ r.answer = "2xx" /\ r.op \notin {"read", "readOne"} => r.res \in {"ok", "raw"}
JudgedOf(r) ==
  /\ r.op = "exchange" /\ r.res = "ok" => r.answer \in {"none", "good"}
  /\ r.body # "none" => (r.res = "ok" <=> r.body = "within")

\* Until it ends, a call shows no outcome, and it was hit if it is told of a failure or
\* could still be (u: some flight that failed has not been unwound).
CallKept(r, u) ==
  /\ r \in CallRecords
  /\ r.at # "idle" => Clean(r)
  /\ TruthOf(r) /\ JudgedOf(r)
  /\ r.at # "idle" /\ (u = TRUE \/ r.got \notin {"none", "ok", "pending"}) => r.hit = TRUE
  /\ r.res \in {"none", "ok", "Config"} \/ r.hit = TRUE

LEMMA BusyKept ==
  ASSUME NEW w \in CallRecords, Clean(w), NEW u,
         u = TRUE \/ w.got \notin {"none", "ok", "pending"} => w.hit = TRUE
  PROVE  CallKept(w, u)
<1>1. TruthOf(w) /\ JudgedOf(w)
  BY DEF Clean, TruthOf, JudgedOf
<1> QED
  BY <1>1 DEF CallKept, Clean

LEMMA DoneKept ==
  ASSUME NEW w \in CallRecords, w.at = "idle", NEW u, TruthOf(w), JudgedOf(w),
         w.res \in {"none", "ok", "Config"} \/ w.hit = TRUE
  PROVE  CallKept(w, u)
BY DEF CallKept

LEMMA BegunKept ==
  ASSUME NEW r \in CallRecords, NEW op \in Ops, NEW u \in BOOLEAN
  PROVE  CallKept(Begun(r, op, u), u) /\ Begun(r, op, u).at = "sent"
<1> DEFINE w == Begun(r, op, u)
<1> HIDE DEF w
<1>1. w = [op |-> op, at |-> "sent", got |-> "none", res |-> "none", applied |-> FALSE, answer |-> "none",
           body |-> "none", calls |-> r.calls + 1, hit |-> u]
  BY BegunFields DEF w
<1>2. r.calls + 1 \in Nat
  BY DEF CallRecords
<1>3. w \in CallRecords
  BY <1>1, <1>2 DEF CallRecords, Results
<1>4. Clean(w) /\ w.at = "sent" /\ w.got = "none" /\ w.hit = u
  BY <1>1 DEF Clean
<1>5. CallKept(w, u)
  BY <1>3, <1>4, BusyKept
<1> QED
  BY <1>4, <1>5 DEF w

LEMMA WaitingKept ==
  ASSUME NEW r, NEW u \in BOOLEAN, CallKept(r, u), r.at # "idle", NEW a \in {"sent", "client"} \cup Cells,
         NEW g \in Outcomes \cup {"none", "pending"}, g \notin {"none", "ok", "pending"} => u = TRUE
  PROVE  CallKept(Waiting(r, a, g), u)
<1> DEFINE w == Waiting(r, a, g)
<1> HIDE DEF w
<1>1. r \in CallRecords /\ Clean(r) /\ (u = TRUE => r.hit = TRUE)
  BY DEF CallKept
<1>2. w = [op |-> r.op, at |-> a, got |-> g, res |-> r.res, applied |-> r.applied, answer |-> r.answer,
           body |-> r.body, calls |-> r.calls, hit |-> r.hit]
  BY <1>1, WaitingFields DEF w
<1>3. w \in CallRecords
  BY <1>1, <1>2 DEF CallRecords
<1>4. Clean(w) /\ w.got = g /\ w.hit = r.hit
  BY <1>1, <1>2 DEF Clean
<1>5. CallKept(w, u)
  BY <1>1, <1>3, <1>4, BusyKept
<1> QED
  BY <1>5 DEF w

LEMMA MovedKept ==
  ASSUME NEW r, NEW u \in BOOLEAN, CallKept(r, u), r.at # "idle", NEW a \in {"sent", "client"} \cup Cells
  PROVE  CallKept(Moved(r, a), u) /\ Moved(r, a).at = a
<1> DEFINE w == Moved(r, a)
<1> HIDE DEF w
<1>1. r \in CallRecords /\ Clean(r) /\ (u = TRUE \/ r.got \notin {"none", "ok", "pending"} => r.hit = TRUE)
  BY DEF CallKept
<1>2. w = [op |-> r.op, at |-> a, got |-> r.got, res |-> r.res, applied |-> r.applied, answer |-> r.answer,
           body |-> r.body, calls |-> r.calls, hit |-> r.hit]
  BY <1>1, MovedFields DEF w
<1>3. w \in CallRecords
  BY <1>1, <1>2 DEF CallRecords
<1>4. Clean(w) /\ w.at = a /\ w.got = r.got /\ w.hit = r.hit
  BY <1>1, <1>2 DEF Clean
<1>5. CallKept(w, u)
  BY <1>1, <1>3, <1>4, BusyKept
<1> QED
  BY <1>4, <1>5 DEF w

LEMMA RejectedKept ==
  ASSUME NEW r, NEW u \in BOOLEAN, CallKept(r, u), r.at # "idle"
  PROVE  CallKept(Rejected(r), u)
<1> DEFINE w == Rejected(r)
<1> HIDE DEF w
<1>1. r \in CallRecords /\ Clean(r)
  BY DEF CallKept
<1>2. w = [op |-> r.op, at |-> "idle", got |-> r.got, res |-> "Config", applied |-> r.applied,
           answer |-> r.answer, body |-> r.body, calls |-> r.calls, hit |-> r.hit]
  BY <1>1, RejectedFields DEF w
<1>3. w \in CallRecords
  BY <1>1, <1>2 DEF CallRecords, Results
<1>4. w.at = "idle" /\ w.res = "Config" /\ w.applied = FALSE /\ w.answer = "none" /\ w.body = "none"
  BY <1>1, <1>2 DEF Clean
<1>5. CallKept(w, u)
  BY <1>3, <1>4, DoneKept DEF TruthOf, JudgedOf
<1> QED
  BY <1>5 DEF w

LEMMA HearsKept ==
  ASSUME NEW r, NEW u \in BOOLEAN, CallKept(r, u), NEW o \in Outcomes, NEW g, NEW h \in BOOLEAN,
         g = o \/ g = r.got, h = (r.hit = TRUE \/ o # "ok"),
         NEW v \in BOOLEAN, v = TRUE => u = TRUE \/ o # "ok"
  PROVE  CallKept(Hears(r, g, h), v)
<1> DEFINE w == Hears(r, g, h)
<1> HIDE DEF w
<1>1. r \in CallRecords
  BY DEF CallKept
<1>2. w = [op |-> r.op, at |-> r.at, got |-> g, res |-> r.res, applied |-> r.applied, answer |-> r.answer,
           body |-> r.body, calls |-> r.calls, hit |-> h]
  BY <1>1, HearsFields DEF w
<1>3. w \in CallRecords
  BY <1>1, <1>2 DEF CallRecords
<1>4. /\ w.op = r.op /\ w.at = r.at /\ w.got = g /\ w.res = r.res /\ w.applied = r.applied
      /\ w.answer = r.answer /\ w.body = r.body /\ w.hit = h
  BY <1>2
<1>5. TruthOf(w) /\ JudgedOf(w) /\ (w.at # "idle" => Clean(w))
  BY <1>4 DEF CallKept, TruthOf, JudgedOf, Clean
<1>6. w.at # "idle" /\ (v = TRUE \/ w.got \notin {"none", "ok", "pending"}) => w.hit = TRUE
  BY <1>4 DEF CallKept
<1>7. w.res \in {"none", "ok", "Config"} \/ w.hit = TRUE
  BY <1>4 DEF CallKept
<1>8. CallKept(w, v)
  BY <1>3, <1>5, <1>6, <1>7 DEF CallKept
<1> QED
  BY <1>8 DEF w

LEMMA MarkedKept ==
  ASSUME NEW r, NEW u \in BOOLEAN, CallKept(r, u), NEW h \in BOOLEAN, r.hit = TRUE => h = TRUE
  PROVE  CallKept(Marked(r, h), u)
<1> DEFINE w == Marked(r, h)
<1> HIDE DEF w
<1>1. r \in CallRecords
  BY DEF CallKept
<1>2. w = [op |-> r.op, at |-> r.at, got |-> r.got, res |-> r.res, applied |-> r.applied, answer |-> r.answer,
           body |-> r.body, calls |-> r.calls, hit |-> h]
  BY <1>1, MarkedFields DEF w
<1>3. w \in CallRecords
  BY <1>1, <1>2 DEF CallRecords
<1>4. /\ w.op = r.op /\ w.at = r.at /\ w.got = r.got /\ w.res = r.res /\ w.applied = r.applied
      /\ w.answer = r.answer /\ w.body = r.body /\ w.hit = h
  BY <1>2
<1>5. TruthOf(w) /\ JudgedOf(w) /\ (w.at # "idle" => Clean(w))
  BY <1>4 DEF CallKept, TruthOf, JudgedOf, Clean
<1>6. w.at # "idle" /\ (u = TRUE \/ w.got \notin {"none", "ok", "pending"}) => w.hit = TRUE
  BY <1>4 DEF CallKept
<1>7. w.res \in {"none", "ok", "Config"} \/ w.hit = TRUE
  BY <1>4 DEF CallKept
<1>8. CallKept(w, u)
  BY <1>3, <1>5, <1>6, <1>7 DEF CallKept
<1> QED
  BY <1>8 DEF w

\* A call ends; without an answer of its own, it is judged by its outcome alone.
LEMMA EndedKept ==
  ASSUME NEW r, NEW u \in BOOLEAN, CallKept(r, u), r.at # "idle", NEW x \in Results
  PROVE  /\ EndedAs(r, x) \in CallRecords
         /\ EndedAs(r, x) = [op |-> r.op, at |-> "idle", got |-> "none", res |-> x, applied |-> FALSE,
                             answer |-> "none", body |-> "none", calls |-> r.calls, hit |-> r.hit]
         /\ (r.op \in ResourceOps => x # "ok") /\ (x \in {"none", "ok", "Config"} \/ r.hit = TRUE)
              => CallKept(EndedAs(r, x), u)
<1> DEFINE w == EndedAs(r, x)
<1> HIDE DEF w
<1>1. r \in CallRecords /\ Clean(r)
  BY DEF CallKept
<1>2. w = [op |-> r.op, at |-> "idle", got |-> "none", res |-> x, applied |-> r.applied, answer |-> r.answer,
           body |-> r.body, calls |-> r.calls, hit |-> r.hit]
  BY <1>1, EndedFields DEF w
<1>3. r.applied = FALSE /\ r.answer = "none" /\ r.body = "none"
  BY <1>1 DEF Clean
<1>4. w \in CallRecords
  BY <1>1, <1>2 DEF CallRecords
<1>5. /\ w.op = r.op /\ w.at = "idle" /\ w.res = x /\ w.applied = FALSE /\ w.answer = "none"
      /\ w.body = "none" /\ w.hit = r.hit
  BY <1>2, <1>3
<1>6. (r.op \in ResourceOps => x # "ok") => TruthOf(w) /\ JudgedOf(w)
  BY <1>5 DEF TruthOf, JudgedOf
<1>7. (r.op \in ResourceOps => x # "ok") /\ (x \in {"none", "ok", "Config"} \/ r.hit = TRUE) => CallKept(w, u)
  BY <1>4, <1>5, <1>6, DoneKept
<1> QED
  BY <1>2, <1>3, <1>4, <1>7 DEF w

\* The names of the operations.
LEMMA ResourceOpsAre ==
  ResourceOps = {"create", "readOne", "read", "write"}
<1>1. Range(UsersResource) = {"create", "readOne", "read", "write"}
  BY DEF Range, UsersResource
<1>2. Range(ClientsResource) = {"create", "readOne", "read", "write"}
  BY DEF Range, ClientsResource
<1>3. Range(RealmsResource) = {"create", "readOne", "read", "write"}
  BY DEF Range, RealmsResource
<1>4. Range(RolesResource) = {"create", "readOne", "read", "write"}
  BY DEF Range, RolesResource
<1>5. Range(GroupsResource) = {"create", "readOne", "read", "write"}
  BY DEF Range, GroupsResource
<1> QED
  BY <1>1, <1>2, <1>3, <1>4, <1>5 DEF ResourceOps

\* A resource request is answered: how its outcome x fits the answer.
Fits(op, s, d, breaks, location, x) ==
  /\ d \in BOOLEAN /\ x \in Results /\ breaks \in BOOLEAN /\ location \in BOOLEAN
  /\ x = "ok" => s = "2xx" /\ d = TRUE
  /\ x \in {"Config", "Auth", "NotFound", "Conflict", "Forbidden"} => d = FALSE
  /\ s # "2xx" => x = ByStatus[s]
  /\ s = "2xx" /\ op \notin {"read", "readOne"} => x \in {"ok", "raw"}
  /\ s = "2xx" /\ breaks = FALSE /\ location = TRUE => x = "ok"

LEMMA ResultsAre ==
  ASSUME NEW op \in ResourceOps, NEW s \in Statuses, NEW text \in ErrorTexts,
         NEW breaks \in BOOLEAN, NEW location \in BOOLEAN, NEW d \in MayApply(s),
         NEW x, x = Result(op, s, text, breaks, location)
  PROVE  Fits(op, s, d, breaks, location, x)
<1>1. text \in {"empty", "text"}
  BY DEF ErrorTexts, ErrorText
<1>2. CASE s = "2xx"
  <2>1. d = TRUE
    BY <1>2 DEF MayApply
  <2>2. x = SuccessResult(op, breaks, location)
    BY <1>2 DEF Result
  <2>3. /\ x \in {"Transport", "ok", "raw"} /\ (op \notin {"read", "readOne"} => x \in {"ok", "raw"})
        /\ breaks = FALSE /\ location = TRUE => x = "ok"
    BY <2>2 DEF SuccessResult
  <2> QED
    BY <1>2, <2>1, <2>3 DEF Fits, Results
<1>3. CASE s # "2xx"
  <2>1. x = ByStatus[s]
    BY <1>1, <1>3 DEF Result
  <2>2. s \in {"403", "404", "409", "other"}
    BY <1>3 DEF Statuses
  <2>3. x \in {"Forbidden", "NotFound", "Conflict", "Admin"} /\ (s = "other" => x = "Admin")
    BY <2>1, <2>2 DEF ByStatus
  <2>4. d \in BOOLEAN /\ (s # "other" => d = FALSE)
    BY <1>3 DEF MayApply
  <2>5. x \in Results /\ x # "ok" /\ (x \in {"Config", "Auth", "NotFound", "Conflict", "Forbidden"} => d = FALSE)
    BY <2>3, <2>4 DEF Results
  <2> QED
    BY <1>3, <2>1, <2>4, <2>5 DEF Fits
<1> QED
  BY <1>2, <1>3

Replied(r, x, d, s, h) == Marked(Answers(EndedAs(r, x), d, s), h)

\* An answer ends the call, and does not by itself mark it.
LEMMA RepliedEnds ==
  ASSUME NEW r \in CallRecords, NEW x \in Results, NEW d, NEW s, NEW h
  PROVE  Replied(r, x, d, s, h).at = "idle"
BY DEF CallRecords, Replied, Marked, Answers, EndedAs

LEMMA AnsweredHit ==
  ASSUME NEW r \in CallRecords, NEW x, NEW d, NEW s
  PROVE  Answers(EndedAs(r, x), d, s).hit = r.hit /\ Judged(EndedAs(r, x), d, s).hit = r.hit
<1>1. Answers(EndedAs(r, x), d, s).hit = r.hit
  BY DEF CallRecords, Answers, EndedAs
<1>2. Judged(EndedAs(r, x), d, s).hit = r.hit
  BY DEF CallRecords, Judged, EndedAs
<1> QED
  BY <1>1, <1>2

LEMMA ReplyKept ==
  ASSUME NEW r, NEW u \in BOOLEAN, CallKept(r, u), r.at # "idle", r.op \in ResourceOps,
         NEW s \in Statuses, NEW breaks, NEW location, NEW d, NEW x, Fits(r.op, s, d, breaks, location, x),
         NEW h \in BOOLEAN, r.hit = TRUE \/ s # "2xx" \/ breaks = TRUE \/ location = FALSE => h = TRUE
  PROVE  CallKept(Replied(r, x, d, s, h), u)
<1> DEFINE e == EndedAs(r, x)
           a == Answers(e, d, s)
           w == Marked(a, h)
<1> HIDE DEF e, a, w
<1>1. Fits(r.op, s, d, breaks, location, x) /\ breaks \in BOOLEAN /\ location \in BOOLEAN
  BY DEF Fits
<1>2. /\ e \in CallRecords
      /\ e = [op |-> r.op, at |-> "idle", got |-> "none", res |-> x, applied |-> FALSE,
              answer |-> "none", body |-> "none", calls |-> r.calls, hit |-> r.hit]
  <2>1. x \in Results
    BY <1>1 DEF Fits
  <2> QED
    BY <2>1, EndedKept DEF e
<1>3. a = [op |-> e.op, at |-> e.at, got |-> e.got, res |-> e.res, applied |-> d, answer |-> s,
           body |-> e.body, calls |-> e.calls, hit |-> e.hit]
  BY <1>2, AnswersFields DEF a
<1>4. a \in CallRecords
  BY <1>1, <1>2, <1>3 DEF CallRecords, Fits
<1>5. w = [op |-> a.op, at |-> a.at, got |-> a.got, res |-> a.res, applied |-> a.applied, answer |-> a.answer,
           body |-> a.body, calls |-> a.calls, hit |-> h]
  BY <1>4, MarkedFields DEF w
<1>6. w \in CallRecords
  BY <1>4, <1>5 DEF CallRecords
<1>7. a.op = r.op /\ a.at = "idle" /\ a.res = x /\ a.applied = d /\ a.answer = s /\ a.body = "none"
  BY <1>2, <1>3
<1>8. w.op = r.op /\ w.at = "idle" /\ w.res = x /\ w.applied = d /\ w.answer = s /\ w.body = "none" /\ w.hit = h
  BY <1>5, <1>7
<1>9. TruthOf(w)
  BY <1>1, <1>8 DEF TruthOf, Fits
<1>10. JudgedOf(w)
  <2>1. w.op # "exchange"
    BY <1>8, ResourceOpsAre
  <2> QED
    BY <1>8, <2>1 DEF JudgedOf
<1>11. w.res \in {"none", "ok", "Config"} \/ w.hit = TRUE
  BY <1>1, <1>8 DEF Fits
<1>12. CallKept(w, u)
  BY <1>6, <1>8, <1>9, <1>10, <1>11, DoneKept
<1> QED
  BY <1>12 DEF Replied, w, a, e

\* No answer to it.
LEMMA NoReplyKept ==
  ASSUME NEW r, NEW u \in BOOLEAN, CallKept(r, u), r.at # "idle", r.op \in ResourceOps, NEW d \in BOOLEAN
  PROVE  /\ CallKept(Marked(Applied(EndedAs(r, "Transport"), d), TRUE), u)
         /\ Marked(Applied(EndedAs(r, "Transport"), d), TRUE).at = "idle"
<1> DEFINE e == EndedAs(r, "Transport")
           a == Applied(e, d)
           w == Marked(a, TRUE)
<1> HIDE DEF e, a, w
<1>1. "Transport" \in Results
  BY DEF Results
<1>2. /\ e \in CallRecords
      /\ e = [op |-> r.op, at |-> "idle", got |-> "none", res |-> "Transport", applied |-> FALSE,
              answer |-> "none", body |-> "none", calls |-> r.calls, hit |-> r.hit]
  BY <1>1, EndedKept DEF e
<1>3. a = [op |-> e.op, at |-> e.at, got |-> e.got, res |-> e.res, applied |-> d, answer |-> e.answer,
           body |-> e.body, calls |-> e.calls, hit |-> e.hit]
  BY <1>2, AppliedFields DEF a
<1>4. a \in CallRecords
  BY <1>2, <1>3 DEF CallRecords
<1>5. w = [op |-> a.op, at |-> a.at, got |-> a.got, res |-> a.res, applied |-> a.applied, answer |-> a.answer,
           body |-> a.body, calls |-> a.calls, hit |-> TRUE]
  BY <1>4, MarkedFields DEF w
<1>6. w \in CallRecords
  BY <1>4, <1>5 DEF CallRecords
<1>7. a.op = r.op /\ a.at = "idle" /\ a.res = "Transport" /\ a.answer = "none" /\ a.body = "none"
  BY <1>2, <1>3
<1>8. w.op = r.op /\ w.at = "idle" /\ w.res = "Transport" /\ w.answer = "none" /\ w.body = "none" /\ w.hit = TRUE
  BY <1>5, <1>7
<1>9. TruthOf(w) /\ JudgedOf(w)
  BY <1>8 DEF TruthOf, JudgedOf
<1>10. CallKept(w, u)
  BY <1>6, <1>8, <1>9, DoneKept
<1> QED
  BY <1>8, <1>10 DEF w, a, e

\* The token endpoint answers.
AuthReplied(r, x, a, b, h) == Marked(Judged(EndedAs(r, x), a, b), h)

LEMMA AuthRepliedEnds ==
  ASSUME NEW r \in CallRecords, NEW x \in Results, NEW a, NEW b, NEW h
  PROVE  AuthReplied(r, x, a, b, h).at = "idle"
BY DEF CallRecords, AuthReplied, Marked, Judged, EndedAs

LEMMA AuthReplyKept ==
  ASSUME NEW r, NEW u \in BOOLEAN, CallKept(r, u), r.at # "idle", r.op \in GrantOps \cup {"logout"},
         NEW x \in {"ok", "Auth"}, NEW a \in {"none"} \cup IdTokens, NEW b \in {"none", "within", "over"},
         NEW h \in BOOLEAN, r.hit = TRUE \/ x = "Auth" => h = TRUE,
         r.op = "exchange" /\ x = "ok" => a \in {"none", "good"}, b # "none" => (x = "ok" <=> b = "within")
  PROVE  CallKept(AuthReplied(r, x, a, b, h), u)
<1> DEFINE e == EndedAs(r, x)
           j == Judged(e, a, b)
           w == Marked(j, h)
<1> HIDE DEF e, j, w
<1>1. x \in Results
  BY DEF Results
<1>2. /\ e \in CallRecords
      /\ e = [op |-> r.op, at |-> "idle", got |-> "none", res |-> x, applied |-> FALSE,
              answer |-> "none", body |-> "none", calls |-> r.calls, hit |-> r.hit]
  BY <1>1, EndedKept DEF e
<1>3. j = [op |-> e.op, at |-> e.at, got |-> e.got, res |-> e.res, applied |-> e.applied, answer |-> a,
           body |-> b, calls |-> e.calls, hit |-> e.hit]
  <2>1. e \in CallRecords
    BY <1>2
  <2> QED
    BY <2>1, JudgedFields, Zenon DEF j
<1>4. j \in CallRecords
  BY <1>2, <1>3 DEF CallRecords
<1>5. w = [op |-> j.op, at |-> j.at, got |-> j.got, res |-> j.res, applied |-> j.applied, answer |-> j.answer,
           body |-> j.body, calls |-> j.calls, hit |-> h]
  BY <1>4, MarkedFields DEF w
<1>6. w \in CallRecords
  BY <1>4, <1>5 DEF CallRecords
<1>7. j.op = r.op /\ j.at = "idle" /\ j.res = x /\ j.answer = a /\ j.body = b
  BY <1>2, <1>3
<1>8. w.op = r.op /\ w.at = "idle" /\ w.res = x /\ w.answer = a /\ w.body = b /\ w.hit = h
  BY <1>5, <1>7
<1>9. TruthOf(w)
  <2>1. r.op \notin ResourceOps
    BY ResourceOpsAre DEF GrantOps
  <2> QED
    BY <1>8, <2>1 DEF TruthOf
<1>10. JudgedOf(w)
  BY <1>8 DEF JudgedOf
<1>11. w.res \in {"none", "ok", "Config"} \/ w.hit = TRUE
  BY <1>8
<1>12. CallKept(w, u)
  BY <1>6, <1>8, <1>9, <1>10, <1>11, DoneKept
<1> QED
  BY <1>12 DEF AuthReplied, w, j, e

LEMMA AuthFailureKept ==
  ASSUME NEW r, NEW u \in BOOLEAN, CallKept(r, u), r.at # "idle"
  PROVE  CallKept(Marked(EndedAs(r, "Auth"), TRUE), u) /\ Marked(EndedAs(r, "Auth"), TRUE).at = "idle"
<1> DEFINE e == EndedAs(r, "Auth")
           w == Marked(e, TRUE)
<1> HIDE DEF e, w
<1>1. "Auth" \in Results
  BY DEF Results
<1>2. /\ e \in CallRecords
      /\ e = [op |-> r.op, at |-> "idle", got |-> "none", res |-> "Auth", applied |-> FALSE,
              answer |-> "none", body |-> "none", calls |-> r.calls, hit |-> r.hit]
  BY <1>1, EndedKept DEF e
<1>3. w = [op |-> e.op, at |-> e.at, got |-> e.got, res |-> e.res, applied |-> e.applied, answer |-> e.answer,
           body |-> e.body, calls |-> e.calls, hit |-> TRUE]
  BY <1>2, MarkedFields DEF w
<1>4. w \in CallRecords
  BY <1>2, <1>3 DEF CallRecords
<1>5. /\ w.at = "idle" /\ w.res = "Auth" /\ w.applied = FALSE /\ w.answer = "none" /\ w.body = "none" /\ w.hit = TRUE
  BY <1>2, <1>3
<1>6. TruthOf(w) /\ JudgedOf(w)
  BY <1>5 DEF TruthOf, JudgedOf
<1>7. CallKept(w, u)
  BY <1>4, <1>5, <1>6, DoneKept
<1> QED
  BY <1>5, <1>7 DEF w, e
-----------------------------------------------------------------------------
(* The calls together with the cells: no failed flight is left to unwind   *)
(* that was not there before, unless every call under way was hit by it.   *)
AllCallsKept(calls, u) == calls \in [Callers -> CallRecords] /\ \A c \in Callers : CallKept(calls[c], u)
CallsKept == AllCallsKept(call, Unwinding)

LEMMA UnwindingIsBoolean == Unwinding \in BOOLEAN
BY DEF Unwinding

LEMMA KeptLess ==
  ASSUME NEW calls, NEW u \in BOOLEAN, AllCallsKept(calls, u), NEW v \in BOOLEAN, v = TRUE => u = TRUE
  PROVE  AllCallsKept(calls, v)
BY DEF AllCallsKept, CallKept

LEMMA CallChanged ==
  ASSUME NEW u \in BOOLEAN, AllCallsKept(call, u), NEW c \in Callers, NEW w, CallKept(w, u),
         call' = [call EXCEPT ![c] = w]
  PROVE  AllCallsKept(call', u)
<1>1. w \in CallRecords
  BY DEF CallKept
<1>2. call' \in [Callers -> CallRecords]
  BY <1>1 DEF AllCallsKept
<1>3. \A d \in Callers : call'[d] = IF d = c THEN w ELSE call[d]
  BY DEF AllCallsKept
<1> QED
  BY <1>2, <1>3 DEF AllCallsKept

LEMMA CallsStay ==
  ASSUME AllCallsKept(call', Unwinding), Unwinding' => Unwinding
  PROVE  CallsKept'
<1>1. Unwinding' \in BOOLEAN /\ Unwinding \in BOOLEAN
  BY DEF Unwinding
<1>2. Unwinding' = TRUE => Unwinding = TRUE
  BY <1>1
<1>3. AllCallsKept(call', Unwinding')
  BY <1>1, <1>2, KeptLess
<1> QED
  BY <1>3 DEF CallsKept

\* What is left to unwind after each change of the cells.
LEMMA UnwindingAfter ==
  ASSUME CellsKept, NEW k \in Cells, NEW asker \in Callers, cell' = After(k, asker), Unwinding'
  PROVE  Unwinding
<1>1. PICK j \in Cells : cell'[j].by # Nobody /\ cell'[j].slot \notin {"pending", "ok"}
  BY DEF Unwinding
<1>2. CASE j \notin Starts(k)
  <2>1. cell'[j] = cell[j]
    BY <1>2, Zenon DEF After
  <2> QED
    BY <1>1, <2>1 DEF Unwinding
<1>3. CASE j \in Starts(k)
  <2> DEFINE b == IF j = k THEN asker ELSE CHOOSE i \in Cells : Needs[i] = j
             w == IF Needs[j] = "none" THEN "ok" ELSE Awaiting(Needs[j])
  <2>1. cell'[j] = Started(cell[j], b, w)
    BY <1>3, Zenon DEF After, Started
  <2>2. cell[j] \in CellRecords
    BY DEF CellsKept, AllKept
  <2>3. b \in Callers \cup Cells
    BY <1>3, StartsAreIdle
  <2>4. w \in Outcomes \cup {"pending"}
    <3>1. Needs[j] \in Cells \/ Needs[j] = "none"
      BY DEF Needs, Cells
    <3> QED
      BY <3>1, AwaitingGives DEF Outcomes
  <2> HIDE DEF b, w
  <2>5. cell'[j] = [held |-> cell[j].held, slot |-> "pending", waits |-> w, by |-> b, out |-> cell[j].out + 1,
                    made |-> cell[j].made]
    BY <2>1, <2>2, <2>3, <2>4, StartedFields
  <2>6. cell'[j].slot = "pending"
    BY <2>5
  <2> QED
    BY <1>1, <2>6
<1> QED
  BY <1>2, <1>3

LEMMA UnwindingSettled ==
  ASSUME CellsKept, NEW k \in Cells, NEW o \in Outcomes, NEW stays \in BOOLEAN, Settle(k, o, stays), Unwinding'
  PROVE  Unwinding \/ o # "ok"
<1>1. PICK j \in Cells : cell'[j].by # Nobody /\ cell'[j].slot \notin {"pending", "ok"}
  BY DEF Unwinding
<1>2. cell' = [i \in Cells |->
                IF i = k THEN Settled(cell[k], o, stays)
                ELSE IF Needs[i] = k /\ cell[i].waits = "pending" THEN Told(cell[i], o) ELSE cell[i]]
  BY Zenon DEF Settle, Settled, Told
<1>3. cell[j] \in CellRecords
  BY DEF CellsKept, AllKept
<1>4. CASE cell'[j] = Settled(cell[j], o, stays)
  <2>1. cell'[j] = [held |-> stays, slot |-> o, waits |-> cell[j].waits, by |-> cell[j].by, out |-> cell[j].out - 1,
                    made |-> IF o = "ok" THEN cell[j].made + 1 ELSE cell[j].made]
    BY <1>3, <1>4, SettledFields
  <2>2. cell'[j].slot = o
    BY <2>1
  <2> QED
    BY <1>1, <2>2
<1>5. CASE cell'[j] = Told(cell[j], o)
  <2>1. cell'[j] = [held |-> cell[j].held, slot |-> cell[j].slot, waits |-> o, by |-> cell[j].by,
                    out |-> cell[j].out, made |-> cell[j].made]
    BY <1>3, <1>5, ToldFields
  <2>2. cell'[j].slot = cell[j].slot /\ cell'[j].by = cell[j].by
    BY <2>1
  <2> QED
    BY <1>1, <2>2 DEF Unwinding
<1>6. CASE cell'[j] = cell[j]
  BY <1>1, <1>6 DEF Unwinding
<1> QED
  BY <1>2, <1>4, <1>5, <1>6

LEMMA UnwindingChanged ==
  ASSUME CellsKept, NEW k \in Cells, NEW s, cell' = [cell EXCEPT ![k] = s],
         s.by # Nobody /\ s.slot \notin {"pending", "ok"}
           => cell[k].by # Nobody /\ cell[k].slot \notin {"pending", "ok"},
         Unwinding'
  PROVE  Unwinding
<1>1. PICK j \in Cells : cell'[j].by # Nobody /\ cell'[j].slot \notin {"pending", "ok"}
  BY DEF Unwinding
<1>2. cell'[j] = IF j = k THEN s ELSE cell[j]
  BY DEF CellsKept, AllKept
<1> QED
  BY <1>1, <1>2 DEF Unwinding

\* A call asks for a cell: it goes on, or waits.
LEMMA AskForKept ==
  ASSUME CellsKept, CallsKept, NEW c \in Callers, NEW k \in Cells, NEW next, CallKept(next, Unwinding),
         next.at # "idle", AskFor(c, k, next)
  PROVE  CallsKept'
<1> DEFINE w == IF cell[k].held THEN next ELSE Waiting(next, k, Awaiting(k))
<1>1. cell' = After(k, c)
  BY DEF AskFor
<1>2. call' = [call EXCEPT ![c] = w]
  BY Zenon DEF AskFor, Waiting
<1>3. CallKept(Waiting(next, k, Awaiting(k)), Unwinding)
  <2>1. Awaiting(k) \in Outcomes \cup {"none", "pending"}
    BY AwaitingGives
  <2>2. ASSUME Awaiting(k) \notin {"none", "ok", "pending"} PROVE Unwinding
    <3>1. Awaiting(k) = cell[k].slot
      BY <2>2, AwaitingGives
    <3>2. CellKept(k, cell[k])
      BY DEF CellsKept, AllKept
    <3>3. cell[k].slot # "empty"
      BY <2>1, <3>1 DEF Outcomes
    <3> QED
      BY <2>2, <3>1, <3>2, <3>3 DEF CellKept, Unwinding
  <2>3. Awaiting(k) \notin {"none", "ok", "pending"} => Unwinding = TRUE
    BY <2>2, UnwindingIsBoolean
  <2> QED
    BY <2>1, <2>3, UnwindingIsBoolean, WaitingKept
<1>4. CallKept(w, Unwinding)
  BY <1>3
<1> HIDE DEF w
<1>5. AllCallsKept(call', Unwinding)
  BY <1>2, <1>4, CallChanged, UnwindingIsBoolean DEF CallsKept
<1>6. Unwinding' => Unwinding
  BY <1>1, UnwindingAfter
<1> QED
  BY <1>5, <1>6, CallsStay

\* A call starts.
LEMMA FreshKept ==
  ASSUME CallsKept, NEW c \in Callers, NEW op \in Ops
  PROVE  CallKept(Fresh(c, op), Unwinding) /\ Fresh(c, op).at = "sent"
<1>1. Fresh(c, op) = Begun(call[c], op, Unwinding)
  BY Zenon DEF Fresh, Begun
<1>2. call[c] \in CallRecords
  BY DEF CallsKept, AllCallsKept
<1>3. CallKept(Begun(call[c], op, Unwinding), Unwinding) /\ Begun(call[c], op, Unwinding).at = "sent"
  BY <1>2, UnwindingIsBoolean, BegunKept
<1> QED
  BY <1>1, <1>3

LEMMA OneCallKept ==
  ASSUME CallsKept, NEW c \in Callers, NEW w, CallKept(w, Unwinding), call' = [call EXCEPT ![c] = w],
         UNCHANGED cell
  PROVE  CallsKept'
<1>1. AllCallsKept(call', Unwinding)
  BY CallChanged, UnwindingIsBoolean DEF CallsKept
<1>2. Unwinding' => Unwinding
  BY DEF Unwinding
<1> QED
  BY <1>1, <1>2, CallsStay

LEMMA AskKept ==
  ASSUME CellsKept, CallsKept, NEW c \in Callers, NEW op \in Ops, Ask(c, op)
  PROVE  CallsKept'
<1> DEFINE f == Fresh(c, op)
<1> HIDE DEF f
<1>1. CallKept(f, Unwinding) /\ f.at = "sent"
  BY FreshKept DEF f
<1>2. "admin" \in Cells /\ "conf" \in Cells
  BY DEF Cells
<1>3. CASE AskFor(c, "admin", Moved(f, "client"))
  <2>1. CallKept(Moved(f, "client"), Unwinding) /\ Moved(f, "client").at = "client"
    BY <1>1, MovedKept, UnwindingIsBoolean
  <2> QED
    BY <1>2, <1>3, <2>1, AskForKept
<1>4. CASE call' = [call EXCEPT ![c] = Rejected(f)] /\ UNCHANGED cell
  <2>1. CallKept(Rejected(f), Unwinding)
    BY <1>1, RejectedKept, UnwindingIsBoolean
  <2> QED
    BY <1>4, <2>1, OneCallKept
<1>5. CASE AskFor(c, "conf", f)
  BY <1>1, <1>2, <1>5, AskForKept
<1>6. CASE call' = [call EXCEPT ![c] = f] /\ UNCHANGED cell
  BY <1>1, <1>6, OneCallKept
<1>7. CASE AskAdmin(c, op)
  <2>1. CASE config.secret
    <3>1. AskFor(c, "admin", [Fresh(c, op) EXCEPT !.at = "client"])
      BY <1>7, <2>1 DEF AskAdmin
    <3>2. AskFor(c, "admin", Moved(f, "client"))
      BY <3>1, Zenon DEF Moved, f
    <3> QED
      BY <1>3, <3>2
  <2>2. CASE ~config.secret
    <3>1. call' = [call EXCEPT ![c] = [Fresh(c, op) EXCEPT !.at = "idle", !.res = "Config"]] /\ UNCHANGED cell
      BY <1>7, <2>2 DEF AskAdmin
    <3>2. call' = [call EXCEPT ![c] = Rejected(f)]
      BY <3>1, Zenon DEF Rejected, f
    <3> QED
      BY <1>4, <3>1, <3>2
  <2> QED
    BY <2>1, <2>2
<1>8. CASE AskAuth(c, op)
  BY <1>5, <1>6, <1>8 DEF AskAuth, f
<1> QED
  BY <1>7, <1>8 DEF Ask

\* A flight settles: whoever waits hears of it.
LEMMA SettledCallsKept ==
  ASSUME CellsKept, CallsKept, NEW k \in Cells, NEW o \in Outcomes, NEW stays \in BOOLEAN, Settle(k, o, stays)
  PROVE  CallsKept'
<1> DEFINE g(c) == IF call[c].at = k /\ call[c].got = "pending" THEN o ELSE call[c].got
           h(c) == call[c].hit \/ o # "ok"
<1>1. call' = [c \in Callers |-> Hears(call[c], g(c), h(c))]
  BY Zenon DEF Settle, Hears
<1>2. Unwinding' \in BOOLEAN /\ (Unwinding' = TRUE => Unwinding = TRUE \/ o # "ok")
  <2>1. Unwinding' \in BOOLEAN /\ Unwinding \in BOOLEAN
    BY DEF Unwinding
  <2>2. Unwinding' => Unwinding \/ o # "ok"
    BY UnwindingSettled
  <2> QED
    BY <2>1, <2>2
<1>3. ASSUME NEW c \in Callers PROVE CallKept(Hears(call[c], g(c), h(c)), Unwinding')
  <2>1. CallKept(call[c], Unwinding)
    BY DEF CallsKept, AllCallsKept
  <2>2. call[c].hit \in BOOLEAN
    BY <2>1 DEF CallKept, CallRecords
  <2>3. h(c) \in BOOLEAN /\ h(c) = (call[c].hit = TRUE \/ o # "ok")
    BY <2>2
  <2>4. g(c) = o \/ g(c) = call[c].got
    OBVIOUS
  <2> HIDE DEF g, h
  <2> QED
    BY <1>2, <2>1, <2>3, <2>4, HearsKept, UnwindingIsBoolean
<1> HIDE DEF g, h
<1>4. \A c \in Callers : CallKept(call'[c], Unwinding')
  BY <1>1, <1>3
<1>5. \A c \in Callers : call'[c] \in CallRecords
  BY <1>4 DEF CallKept
<1>6. call' = [c \in Callers |-> call'[c]]
  BY <1>1
<1>7. call' \in [Callers -> CallRecords]
  BY <1>5, <1>6
<1> QED
  BY <1>4, <1>7 DEF CallsKept, AllCallsKept

\* The call that started a flight resumes, or a token expires: no call changes.
LEMMA UnwoundCallsKept ==
  ASSUME CellsKept, CallsKept, (\E k \in Cells : Unwind(k)) \/ TokenExpires
  PROVE  CallsKept'
<1>1. UNCHANGED call
  BY DEF Unwind, TokenExpires
<1>2. AllCallsKept(call', Unwinding)
  BY <1>1 DEF CallsKept
<1>3. ASSUME NEW k \in Cells, Unwind(k), Unwinding' PROVE Unwinding
  <2> DEFINE h == cell[k].held \/ (k = "admin" /\ cell[k].slot = "ok")
             s == Unwound(cell[k], h)
  <2>1. cell' = [cell EXCEPT ![k] = s]
    <3> DEFINE v == [cell[k] EXCEPT !.slot = SlotAfter(k), !.by = Nobody, !.held = h]
    <3>1. cell' = [cell EXCEPT ![k] = v]
      BY <1>3, Zenon DEF Unwind
    <3>2. v = s
      BY Zenon DEF SlotAfter, Unwound
    <3> HIDE DEF v, s
    <3> QED
      BY <3>1, <3>2
  <2>2. cell[k] \in CellRecords /\ h \in BOOLEAN
    BY DEF CellsKept, AllKept
  <2> HIDE DEF h
  <2>3. s = [held |-> h, slot |-> "empty", waits |-> cell[k].waits, by |-> Nobody, out |-> cell[k].out,
             made |-> cell[k].made]
    BY <2>2, UnwoundFields
  <2> HIDE DEF s
  <2>4. s.by = Nobody
    BY <2>3
  <2> QED
    BY <1>3, <2>1, <2>4, UnwindingChanged
<1>4. ASSUME TokenExpires, Unwinding' PROVE Unwinding
  <2> DEFINE s == Lapsed(cell["token"])
  <2> HIDE DEF s
  <2>1. cell' = [cell EXCEPT !["token"] = s]
    BY <1>4, Zenon DEF TokenExpires, Lapsed, s
  <2>2. "token" \in Cells /\ cell["token"] \in CellRecords
    BY DEF CellsKept, AllKept, Cells
  <2>3. s = [held |-> FALSE, slot |-> cell["token"].slot, waits |-> cell["token"].waits, by |-> cell["token"].by,
             out |-> cell["token"].out, made |-> cell["token"].made]
    BY <2>2, LapsedFields DEF s
  <2>4. s.slot = cell["token"].slot /\ s.by = cell["token"].by
    BY <2>3
  <2> QED
    BY <1>4, <2>1, <2>2, <2>4, UnwindingChanged
<1> QED
  BY <1>2, <1>3, <1>4, CallsStay

\* The promise a call awaits has settled: it goes on, or ends with the failure.
LEMMA ResumeKept ==
  ASSUME CallsKept, NEW c \in Callers, Resume(c)
  PROVE  CallsKept'
<1> DEFINE r == call[c]
           a == IF call[c].at = "admin" THEN "client" ELSE "sent"
<1>1. CallKept(r, Unwinding)
  BY DEF CallsKept, AllCallsKept
<1>2. r \in CallRecords
  BY <1>1 DEF CallKept
<1>3. r.at \in Cells /\ r.got # "pending" /\ UNCHANGED cell
  BY DEF Resume
<1>4. r.at # "idle"
  BY <1>3 DEF Cells
<1>5. CASE r.got = "ok"
  <2>1. call' = [call EXCEPT ![c] = Waiting(r, a, "none")]
    BY <1>5, Zenon DEF Resume, Waiting
  <2>2. CallKept(Waiting(r, a, "none"), Unwinding)
    <3>1. a \in {"sent", "client"} \cup Cells
      OBVIOUS
    <3> HIDE DEF a, r
    <3> QED
      BY <1>1, <1>4, <3>1, UnwindingIsBoolean, WaitingKept
  <2> QED
    BY <1>3, <2>1, <2>2, OneCallKept
<1>6. CASE r.got # "ok"
  <2>1. call' = [call EXCEPT ![c] = EndedAs(r, r.got)]
    BY <1>6, Zenon DEF Resume, Ends, EndedAs
  <2>2. r.got \in Results
    BY <1>2, <1>3 DEF CallRecords, Outcomes, Results
  <2>3. r.got \in {"none", "ok", "Config"} \/ r.hit = TRUE
    BY <1>1, <1>3, <1>4 DEF CallKept
  <2> HIDE DEF r
  <2>4. CallKept(EndedAs(r, r.got), Unwinding)
    BY <1>1, <1>4, <1>6, <2>2, <2>3, UnwindingIsBoolean, EndedKept
  <2> QED
    BY <1>3, <2>1, <2>4, OneCallKept
<1> QED
  BY <1>5, <1>6

\* A call that holds the client: admin() returns it, the others ask for a token.
LEMMA UseClientKept ==
  ASSUME CellsKept, CallsKept, NEW c \in Callers, UseClient(c)
  PROVE  CallsKept'
<1> DEFINE r == call[c]
<1>1. CallKept(r, Unwinding)
  BY DEF CallsKept, AllCallsKept
<1>2. r.at # "idle"
  BY DEF UseClient
<1>3. CASE r.op = "admin"
  <2>1. call' = [call EXCEPT ![c] = EndedAs(r, "ok")] /\ UNCHANGED cell
    BY <1>3, Zenon DEF UseClient, Ends, EndedAs
  <2>2. "ok" \in Results
    BY DEF Results
  <2>3. r.op \notin ResourceOps
    BY <1>3, ResourceOpsAre
  <2> HIDE DEF r
  <2>4. CallKept(EndedAs(r, "ok"), Unwinding)
    BY <1>1, <1>2, <2>2, <2>3, UnwindingIsBoolean, EndedKept
  <2> QED
    BY <2>1, <2>4, OneCallKept
<1>4. CASE r.op # "admin"
  <2>1. AskFor(c, "token", Moved(r, "sent"))
    BY <1>4, Zenon DEF UseClient, Moved
  <2> HIDE DEF r
  <2>2. CallKept(Moved(r, "sent"), Unwinding) /\ Moved(r, "sent").at = "sent"
    BY <1>1, <1>2, MovedKept, UnwindingIsBoolean
  <2>3. "token" \in Cells
    BY DEF Cells
  <2> QED
    BY <2>1, <2>2, <2>3, AskForKept
<1> QED
  BY <1>3, <1>4

\* A call ends on an answer of the realm, or for want of one; if that was a failure, it is
\* marked on every call.  Nothing else of the others changes.
OnlyEnds(c) ==
  /\ call'[c].at = "idle"
  /\ \A d \in Callers \ {c} : call'[d].at = call[d].at /\ call'[d].got = call[d].got
LEMMA EndedCallsKept ==
  ASSUME CallsKept, UNCHANGED cell, NEW c \in Callers, NEW rec, NEW fault \in BOOLEAN, Ended(c, rec, fault),
         CallKept(Marked(rec, rec.hit \/ fault), Unwinding), Marked(rec, rec.hit \/ fault).at = "idle"
  PROVE  CallsKept' /\ OnlyEnds(c)
<1> DEFINE m(d) == IF d = c THEN rec ELSE call[d]
           h(d) == m(d).hit \/ fault
<1>1. call' = [d \in Callers |-> Marked(m(d), h(d))]
  BY Zenon DEF Ended, Marked
<1>2. ASSUME NEW d \in Callers PROVE CallKept(Marked(m(d), h(d)), Unwinding)
  <2>1. CASE d = c
    <3>1. m(d) = rec /\ h(d) = (rec.hit \/ fault)
      BY <2>1
    <3> QED
      BY <3>1
  <2>2. CASE d # c
    <3>1. m(d) = call[d]
      BY <2>2
    <3>2. CallKept(call[d], Unwinding)
      BY DEF CallsKept, AllCallsKept
    <3>3. call[d].hit \in BOOLEAN
      BY <3>2 DEF CallKept, CallRecords
    <3>4. h(d) \in BOOLEAN /\ (m(d).hit = TRUE => h(d) = TRUE)
      BY <3>1, <3>3
    <3> HIDE DEF m, h
    <3>5. CallKept(m(d), Unwinding)
      BY <3>1, <3>2
    <3> QED
      BY <3>4, <3>5, UnwindingIsBoolean, MarkedKept
  <2> QED
    BY <2>1, <2>2
<1>9. call'[c].at = "idle"
  <2>1. m(c) = rec /\ h(c) = (rec.hit \/ fault)
    OBVIOUS
  <2> QED
    BY <1>1, <2>1
<1>10. ASSUME NEW d \in Callers \ {c} PROVE call'[d].at = call[d].at /\ call'[d].got = call[d].got
  <2>1. call[d] \in CallRecords
    BY DEF CallsKept, AllCallsKept
  <2>2. call'[d] = Marked(call[d], h(d))
    BY <1>1
  <2> HIDE DEF m, h
  <2>3. call'[d] = [op |-> call[d].op, at |-> call[d].at, got |-> call[d].got, res |-> call[d].res,
                    applied |-> call[d].applied, answer |-> call[d].answer, body |-> call[d].body,
                    calls |-> call[d].calls, hit |-> h(d)]
    BY <2>1, <2>2, MarkedFields
  <2> QED
    BY <2>3
<1> HIDE DEF m, h
<1>3. \A d \in Callers : CallKept(call'[d], Unwinding)
  BY <1>1, <1>2
<1>4. \A d \in Callers : call'[d] \in CallRecords
  BY <1>3 DEF CallKept
<1>5. call' = [d \in Callers |-> call'[d]]
  BY <1>1
<1>6. call' \in [Callers -> CallRecords]
  BY <1>4, <1>5
<1>7. AllCallsKept(call', Unwinding)
  BY <1>3, <1>6 DEF AllCallsKept
<1>8. Unwinding' => Unwinding
  BY DEF Unwinding
<1>11. CallsKept'
  BY <1>7, <1>8, CallsStay
<1> QED
  BY <1>9, <1>10, <1>11 DEF OnlyEnds

LEMMA RepliesKept ==
  ASSUME CallsKept, NEW c \in Callers, Replies(c)
  PROVE  CallsKept' /\ OnlyEnds(c)
<1> DEFINE r == call[c]
           a(s, text, breaks, location, d) == Answers(EndedAs(r, Result(r.op, s, text, breaks, location)), d, s)
<1>1. CallKept(r, Unwinding) /\ r.op \in ResourceOps /\ r.at = "sent" /\ UNCHANGED cell
  BY DEF CallsKept, AllCallsKept, Replies
<1>2. PICK s \in Statuses, text \in ErrorTexts, breaks \in BOOLEAN, location \in BOOLEAN :
        \E done \in MayApply(s) :
          Ended(c, a(s, text, breaks, location, done), s # "2xx" \/ breaks \/ ~location)
  BY Zenon DEF Replies, Answers, EndedAs, Ends
<1>3. PICK done \in MayApply(s) :
        Ended(c, a(s, text, breaks, location, done), s # "2xx" \/ breaks \/ ~location)
  BY <1>2
<1> DEFINE rec == a(s, text, breaks, location, done)
           fault == s # "2xx" \/ breaks \/ ~location
<1>4. r.hit \in BOOLEAN
  BY <1>1 DEF CallKept, CallRecords
<1> DEFINE h == r.hit \/ fault
<1>5. /\ h \in BOOLEAN /\ fault \in BOOLEAN
      /\ r.hit = TRUE \/ s # "2xx" \/ breaks = TRUE \/ location = FALSE => h = TRUE
  BY <1>4
<1>6. rec.hit = r.hit /\ CallKept(Marked(rec, h), Unwinding) /\ Marked(rec, h).at = "idle"
  <2> DEFINE x == Result(r.op, s, text, breaks, location)
  <2>1. rec = Answers(EndedAs(r, x), done, s) /\ x = Result(r.op, s, text, breaks, location)
    OBVIOUS
  <2>2. r.at # "idle" /\ CallKept(r, Unwinding) /\ r.op \in ResourceOps
    BY <1>1
  <2> HIDE DEF r, h, fault, rec, a, x
  <2>3. Fits(r.op, s, done, breaks, location, x)
    BY <2>1, <2>2, ResultsAre
  <2>4. CallKept(Replied(r, x, done, s, h), Unwinding)
    BY <1>5, <2>2, <2>3, UnwindingIsBoolean, ReplyKept
  <2>6. r \in CallRecords /\ x \in Results
    BY <2>2, <2>3 DEF CallKept, Fits
  <2>7. Replied(r, x, done, s, h).at = "idle"
    BY <2>6, RepliedEnds
  <2>5. Answers(EndedAs(r, x), done, s).hit = r.hit
    BY <2>2, AnsweredHit DEF CallKept
  <2> QED
    BY <2>1, <2>4, <2>5, <2>7, Zenon DEF Replied
<1>7. Ended(c, rec, fault)
  BY <1>3
<1> HIDE DEF rec, fault, r, a
<1>8. CallKept(Marked(rec, rec.hit \/ fault), Unwinding) /\ Marked(rec, rec.hit \/ fault).at = "idle"
  BY <1>6, Zenon
<1> QED
  BY <1>1, <1>5, <1>7, <1>8, EndedCallsKept

LEMMA NoReplyCallsKept ==
  ASSUME CallsKept, NEW c \in Callers, NoReply(c)
  PROVE  CallsKept' /\ OnlyEnds(c)
<1> DEFINE r == call[c]
           rec(d) == Applied(EndedAs(r, "Transport"), d)
<1>1. CallKept(r, Unwinding) /\ r.op \in ResourceOps /\ r.at = "sent" /\ UNCHANGED cell
  BY DEF CallsKept, AllCallsKept, NoReply
<1>2. PICK d \in BOOLEAN : Ended(c, rec(d), TRUE)
  BY Zenon DEF NoReply, Applied, EndedAs, Ends
<1>3. CallKept(Marked(rec(d), TRUE), Unwinding) /\ Marked(rec(d), TRUE).at = "idle"
  <2> HIDE DEF r
  <2> QED
    BY <1>1, UnwindingIsBoolean, NoReplyKept
<1> DEFINE w == rec(d)
<1> HIDE DEF rec, r
<1>4. (w.hit \/ TRUE) = TRUE
  OBVIOUS
<1>5. CallKept(Marked(w, w.hit \/ TRUE), Unwinding) /\ Marked(w, w.hit \/ TRUE).at = "idle"
  BY <1>3, <1>4
<1>6. Ended(c, w, TRUE)
  BY <1>2
<1> HIDE DEF w
<1> QED
  BY <1>1, <1>5, <1>6, EndedCallsKept

LEMMA AuthFailsKept ==
  ASSUME CallsKept, NEW c \in Callers, AuthFails(c)
  PROVE  CallsKept' /\ OnlyEnds(c)
<1> DEFINE r == call[c]
           w == EndedAs(r, "Auth")
<1>1. CallKept(r, Unwinding) /\ r.at = "sent" /\ UNCHANGED cell
  BY DEF CallsKept, AllCallsKept, AuthFails
<1>2. Ended(c, w, TRUE)
  BY Zenon DEF AuthFails, EndedAs, Ends
<1>3. CallKept(Marked(w, TRUE), Unwinding) /\ Marked(w, TRUE).at = "idle"
  <2> HIDE DEF r
  <2> QED
    BY <1>1, UnwindingIsBoolean, AuthFailureKept
<1>4. (w.hit \/ TRUE) = TRUE
  OBVIOUS
<1>5. CallKept(Marked(w, w.hit \/ TRUE), Unwinding) /\ Marked(w, w.hit \/ TRUE).at = "idle"
  BY <1>3, <1>4
<1> HIDE DEF w
<1> QED
  BY <1>1, <1>2, <1>5, EndedCallsKept

\* What a reader makes of a body it may be given, by the size of the body.
LEMMA ReadsAre ==
  ASSUME NEW b \in Reads
  PROVE  /\ b.breaks \in BOOLEAN
         /\ Bounded(b.size) \in {"within", "over"}
         /\ b.breaks = FALSE => (b.got = "whole" <=> Bounded(b.size) = "within")
<1>1. PICK x \in Bodies, byob \in BOOLEAN : b = [size |-> Size(x), breaks |-> x.breaks, got |-> ReadCapped(x, byob)]
  BY DEF Reads
<1>2. x.breaks \in BOOLEAN
  BY DEF Bodies
<1>3. /\ Size(x) \in Nat
      /\ ReadCapped(x, byob) = IF Size(x) > Cap THEN "too large" ELSE IF x.breaks THEN "cut" ELSE "whole"
  BY ReadersAreExact
<1>4. b.size = Size(x) /\ b.breaks = x.breaks /\ b.got = ReadCapped(x, byob)
  BY <1>1
<1>5. Bounded(b.size) = IF Size(x) > Cap THEN "over" ELSE "within"
  <2>1. Cap \in Nat /\ Size(x) \in Nat
    BY <1>3, SizesArePositive
  <2>2. Bounded(Size(x)) = IF Size(x) <= Cap THEN "within" ELSE "over"
    BY Zenon DEF Bounded
  <2>3. Size(x) <= Cap <=> ~(Size(x) > Cap)
    BY <2>1
  <2>4. Bounded(b.size) = Bounded(Size(x))
    BY <1>4, Zenon
  <2> QED
    BY <2>2, <2>3, <2>4, Zenon
<1>6. b.breaks = FALSE => b.got = IF Size(x) > Cap THEN "too large" ELSE "whole"
  BY <1>3, <1>4
<1> QED
  BY <1>2, <1>4, <1>5, <1>6

LEMMA AuthRepliesKept ==
  ASSUME CallsKept, NEW c \in Callers, AuthReplies(c)
  PROVE  CallsKept' /\ OnlyEnds(c)
<1> DEFINE r == call[c]
           read(acc, b) == acc /\ (r.op \in GrantOps => b.got = "whole")
           good(acc, b, nonce, id) == read(acc, b) /\ (r.op = "exchange" => Exchange(nonce, id))
           told(nonce, id) == IF r.op = "exchange" /\ nonce THEN id ELSE "none"
           size(acc, b, was) == IF acc /\ r.op = "grant" THEN Bounded(b.size) ELSE was
           out(g) == EndedAs(r, IF g THEN "ok" ELSE "Auth")
<1>1. CallKept(r, Unwinding) /\ r.op \in GrantOps \cup {"logout"} /\ r.at = "sent" /\ UNCHANGED cell
  BY DEF CallsKept, AllCallsKept, AuthReplies
<1>2. PICK acc \in BOOLEAN, b \in Reads, nonce \in BOOLEAN, id \in IdTokens :
        /\ acc => ~b.breaks
        /\ Ended(c, Judged(out(good(acc, b, nonce, id)), told(nonce, id),
                           size(acc, b, out(good(acc, b, nonce, id)).body)), ~good(acc, b, nonce, id))
  BY Zenon DEF AuthReplies, Judged, EndedAs, Ends
<1> DEFINE g == good(acc, b, nonce, id)
           x == IF g THEN "ok" ELSE "Auth"
           t == told(nonce, id)
           s == size(acc, b, "none")
           rec == Judged(EndedAs(r, x), t, s)
           h == r.hit \/ ~g
<1>3. g \in BOOLEAN /\ x \in {"ok", "Auth"} /\ (x = "ok" <=> g) /\ x \in Results
  BY DEF Results
<1>4. EndedAs(r, x).body = "none"
  <2> HIDE DEF r, x
  <2>1. EndedAs(r, x) = [op |-> r.op, at |-> "idle", got |-> "none", res |-> x, applied |-> FALSE,
                         answer |-> "none", body |-> "none", calls |-> r.calls, hit |-> r.hit]
    BY <1>1, <1>3, UnwindingIsBoolean, EndedKept
  <2> HIDE DEF x
  <2> QED
    BY <2>1
<1>5. Ended(c, rec, ~g)
  BY <1>2, <1>4, Zenon
<1>6. t \in {"none"} \cup IdTokens /\ (r.op = "exchange" /\ x = "ok" => t \in {"none", "good"})
  BY DEF Exchange, VerifyIdToken
<1>7. s \in {"none", "within", "over"} /\ (s # "none" => (x = "ok" <=> s = "within"))
  <2>1. Bounded(b.size) \in {"within", "over"} /\ (acc => (b.got = "whole" <=> Bounded(b.size) = "within"))
    BY <1>2, ReadsAre
  <2>2. r.op = "grant" => r.op \in GrantOps /\ r.op # "exchange"
    BY DEF GrantOps
  <2> HIDE DEF r
  <2> QED
    BY <2>1, <2>2
<1>8. r.hit \in BOOLEAN
  BY <1>1 DEF CallKept, CallRecords
<1>9. h \in BOOLEAN /\ (r.hit = TRUE \/ x = "Auth" => h = TRUE)
  BY <1>8
<1>10. rec.hit = r.hit /\ CallKept(Marked(rec, h), Unwinding) /\ Marked(rec, h).at = "idle"
  <2>1. rec = Judged(EndedAs(r, x), t, s)
    OBVIOUS
  <2> HIDE DEF r, g, x, t, s, h, rec
  <2>2. CallKept(AuthReplied(r, x, t, s, h), Unwinding)
    BY <1>1, <1>3, <1>6, <1>7, <1>9, UnwindingIsBoolean, AuthReplyKept
  <2>4. r \in CallRecords
    BY <1>1 DEF CallKept
  <2>5. AuthReplied(r, x, t, s, h).at = "idle"
    BY <1>3, <2>4, AuthRepliedEnds
  <2>3. Judged(EndedAs(r, x), t, s).hit = r.hit
    BY <1>1, AnsweredHit DEF CallKept
  <2> QED
    BY <2>1, <2>2, <2>3, <2>5, Zenon DEF AuthReplied
<1> DEFINE f == ~g
<1>11. f \in BOOLEAN /\ h = (r.hit \/ f)
  BY <1>3
<1> HIDE DEF rec, h, r
<1>12. CallKept(Marked(rec, rec.hit \/ f), Unwinding) /\ Marked(rec, rec.hit \/ f).at = "idle"
  BY <1>10, <1>11
<1>13. Ended(c, rec, f)
  BY <1>5
<1> HIDE DEF f
<1> QED
  BY <1>1, <1>11, <1>12, <1>13, EndedCallsKept

LEMMA CallsStep ==
  ASSUME CellsKept, CallsKept, [Next]_vars
  PROVE  CallsKept'
<1>1. ASSUME UNCHANGED <<cell, call>> PROVE CallsKept'
  BY <1>1 DEF CallsKept, Unwinding
<1>2. CASE (\E i \in Inputs : Create(i)) \/ UNCHANGED vars
  BY <1>1, <1>2 DEF Create, vars
<1>3. ASSUME NEW k \in Cells, Answered(k) \/ (\E t \in FailedInTransport : Fails(k, t)) \/ Proceed(k)
      PROVE  CallsKept'
  <2>1. PICK o \in Outcomes, stays \in BOOLEAN : Settle(k, o, stays)
    BY <1>3, SettlesAs
  <2> QED
    BY <2>1, SettledCallsKept
<1>4. CASE (\E k \in Cells : Unwind(k)) \/ TokenExpires
  BY <1>4, UnwoundCallsKept
<1>5. ASSUME NEW c \in Callers, NEW op \in Ops, Ask(c, op) PROVE CallsKept'
  BY <1>5, AskKept
<1>6. ASSUME NEW c \in Callers, Resume(c) \/ UseClient(c) PROVE CallsKept'
  BY <1>6, ResumeKept, UseClientKept
<1>7. ASSUME NEW c \in Callers, Reply(c) PROVE CallsKept'
  BY <1>7, RepliesKept, NoReplyCallsKept, AuthRepliesKept, AuthFailsKept DEF Reply
<1> QED
  BY <1>2, <1>3, <1>4, <1>5, <1>6, <1>7 DEF Next, Flight

LEMMA CallsAtFirst ==
  ASSUME Init
  PROVE  CallsKept
<1> DEFINE r == [op |-> "none", at |-> "idle", got |-> "none", res |-> "none",
                 applied |-> FALSE, answer |-> "none", body |-> "none", calls |-> 0, hit |-> FALSE]
<1>1. call = [c \in Callers |-> r]
  BY DEF Init
<1>2. r \in CallRecords
  BY DEF CallRecords, Results
<1>3. r.at = "idle" /\ r.res = "none" /\ Clean(r) /\ TruthOf(r) /\ JudgedOf(r)
  BY DEF Clean, TruthOf, JudgedOf
<1> HIDE DEF r
<1>4. CallKept(r, Unwinding)
  BY <1>2, <1>3, DoneKept
<1> QED
  BY <1>1, <1>2, <1>4 DEF CallsKept, AllCallsKept

LEMMA CallsAlwaysKept == Spec => []CallsKept
<1>1. CellsKept /\ CallsKept /\ [Next]_vars => CallsKept'
  BY CallsStep
<1> QED
  BY <1>1, CallsAtFirst, CellsAlwaysKept, PTL DEF Spec

\* No failure outlives the flight that met it: whatever the cells are doing, a call fails
\* only if something failed while it ran, or if the promise it was given had failed and the
\* call that started it had not yet come to its finally block.
THEOREM FailuresFresh == Spec => []FailuresAreFresh
<1>1. ASSUME CallsKept PROVE FailuresAreFresh
  <2>1. ASSUME NEW c \in Callers PROVE call[c].res \in {"none", "ok", "Config"} \/ call[c].hit
    <3>1. CallKept(call[c], Unwinding)
      BY <1>1 DEF CallsKept, AllCallsKept
    <3> QED
      BY <3>1 DEF CallKept
  <2> QED
    BY <2>1 DEF FailuresAreFresh
<1> QED
  BY <1>1, CallsAlwaysKept, PTL

\* What a resource operation reports agrees with what the realm did to the request and with
\* the status it answered, for every operation, body and interleaving with the shared cells.
THEOREM OutcomesTrue == Spec => []OutcomesTellTheTruth
<1>1. ASSUME CallsKept PROVE OutcomesTellTheTruth
  <2>1. ASSUME NEW c \in Callers
        PROVE  LET r == call[c] IN
               r.op \in ResourceOps =>
                 /\ r.res = "ok" => r.applied
                 /\ r.res \in {"Config", "Auth", "NotFound", "Conflict", "Forbidden"} => ~r.applied
                 /\ r.answer \in {"403", "404", "409", "other"} => r.res = ByStatus[r.answer]
                 /\ r.answer = "2xx" /\ r.op \notin {"read", "readOne"} => r.res \in {"ok", "raw"}
    <3>1. TruthOf(call[c])
      BY <1>1 DEF CallsKept, AllCallsKept, CallKept
    <3> QED
      BY <3>1 DEF TruthOf
  <2> QED
    BY <2>1, Zenon DEF OutcomesTellTheTruth
<1> QED
  BY <1>1, CallsAlwaysKept, PTL

\* An exchange with a nonce gives tokens only with a good id_token, and an accepted grant
\* fails exactly if its body is longer than the cap, for every cap, chunk and body.
THEOREM RepliesJudged == Spec => []RepliesAreJudged
<1>1. ASSUME CallsKept PROVE RepliesAreJudged
  <2>1. \A c \in Callers : JudgedOf(call[c])
    BY <1>1 DEF CallsKept, AllCallsKept, CallKept
  <2> QED
    BY <2>1, Zenon DEF RepliesAreJudged, NonceBinds, CapIsExact, JudgedOf
<1> QED
  BY <1>1, CallsAlwaysKept, PTL
-----------------------------------------------------------------------------
(* Nobody waits in vain: what a call or a flight waits for is under way, or *)
(* has settled, and then nothing of its own holds it back.                  *)
WaitsAreServed ==
  /\ \A c \in Callers : call[c].at \in Cells =>
       IF call[c].got = "pending" THEN cell[call[c].at].slot = "pending"
       ELSE Originates(c, call[c].at) => cell[call[c].at].slot # "pending"
  /\ \A k \in Cells : cell[k].slot = "pending" /\ Needs[k] # "none" =>
       IF cell[k].waits = "pending" THEN cell[Needs[k]].slot = "pending"
       ELSE Originates(k, Needs[k]) => cell[Needs[k]].slot # "pending"

\* What holds at every step: whoever started a flight that is under way waits for it.
CallServed(c) == call[c].at \in Cells /\ call[c].got = "pending" => cell[call[c].at].slot = "pending"
NeedServed(k) ==
  cell[k].slot = "pending" /\ cell[k].waits = "pending" => Needs[k] \in Cells /\ cell[Needs[k]].slot = "pending"
StarterWaits(k) ==
  cell[k].slot = "pending" =>
    /\ cell[k].by \in Callers => call[cell[k].by].at = k /\ call[cell[k].by].got = "pending"
    /\ cell[k].by \in Cells =>
         Needs[cell[k].by] = k /\ cell[cell[k].by].slot = "pending" /\ cell[cell[k].by].waits = "pending"
WaitsKept == (\A c \in Callers : CallServed(c)) /\ (\A k \in Cells : NeedServed(k) /\ StarterWaits(k))

LEMMA NeedsAre ==
  Needs["admin"] = "token" /\ Needs["token"] = "conf" /\ Needs["conf"] = "none"
BY DEF Needs, Cells

LEMMA StartsAreClosed ==
  ASSUME NEW k \in Cells
  PROVE  /\ k \in Starts(k) <=> Idle(k)
         /\ \A j \in Starts(k) :
              /\ Needs[j] \in Cells /\ Idle(Needs[j]) => Needs[j] \in Starts(k)
              /\ j # k => \E i \in Starts(k) : Needs[i] = j /\ i = CHOOSE h \in Cells : Needs[h] = j
<1> DEFINE from(i) == IF i # "none" /\ Idle(i) THEN {i} ELSE {}
           first == IF from(k) = {} THEN {}
                    ELSE from(k) \cup (IF k \in from(k) /\ Needs[k] # "none" THEN from(Needs[k]) ELSE {})
           second == IF first = {} THEN {}
                     ELSE first \cup (IF Needs[k] \in first /\ Needs[Needs[k]] # "none"
                                      THEN from(Needs[Needs[k]]) ELSE {})
<1>1. Starts(k) = second
  BY Zenon DEF Starts
<1>2. (CHOOSE h \in Cells : Needs[h] = "token") = "admin" /\ (CHOOSE h \in Cells : Needs[h] = "conf") = "token"
  BY NeedsAre DEF Cells
<1>3. CASE k = "admin"
  <2>1. second = IF ~Idle("admin") THEN {}
                 ELSE {"admin"} \cup (IF Idle("token")
                                      THEN {"token"} \cup (IF Idle("conf") THEN {"conf"} ELSE {}) ELSE {})
    BY <1>3, NeedsAre DEF Cells
  <2> HIDE DEF second
  <2> QED
    BY <1>1, <1>2, <1>3, <2>1, NeedsAre DEF Cells
<1>4. CASE k = "token"
  <2>1. second = IF ~Idle("token") THEN {} ELSE {"token"} \cup (IF Idle("conf") THEN {"conf"} ELSE {})
    BY <1>4, NeedsAre DEF Cells
  <2> HIDE DEF second
  <2> QED
    BY <1>1, <1>2, <1>4, <2>1, NeedsAre DEF Cells
<1>5. CASE k = "conf"
  <2>1. second = IF ~Idle("conf") THEN {} ELSE {"conf"}
    BY <1>5, NeedsAre DEF Cells
  <2> HIDE DEF second
  <2> QED
    BY <1>1, <1>2, <1>5, <2>1, NeedsAre DEF Cells
<1> QED
  BY <1>3, <1>4, <1>5 DEF Cells

\* What a start and a settling leave to be seen of the cells.
LEMMA AfterSeen ==
  ASSUME CellsKept, NEW k \in Cells, NEW c \in Callers, cell' = After(k, c), NEW j \in Cells
  PROVE  /\ j \notin Starts(k) => cell'[j] = cell[j]
         /\ j \in Starts(k) =>
              /\ cell'[j].slot = "pending"
              /\ cell'[j].by = IF j = k THEN c ELSE CHOOSE i \in Cells : Needs[i] = j
              /\ cell'[j].waits = IF Needs[j] = "none" THEN "ok" ELSE Awaiting(Needs[j])
<1>1. CASE j \notin Starts(k)
  BY <1>1, Zenon DEF After
<1>2. CASE j \in Starts(k)
  <2> DEFINE b == IF j = k THEN c ELSE CHOOSE i \in Cells : Needs[i] = j
             w == IF Needs[j] = "none" THEN "ok" ELSE Awaiting(Needs[j])
  <2>1. cell'[j] = Started(cell[j], b, w)
    BY <1>2, Zenon DEF After, Started
  <2>2. cell[j] \in CellRecords
    BY DEF CellsKept, AllKept
  <2>3. b \in Callers \cup Cells
    BY <1>2, StartsAreIdle
  <2>4. w \in Outcomes \cup {"pending"}
    <3>1. Needs[j] \in Cells \/ Needs[j] = "none"
      BY DEF Needs, Cells
    <3> QED
      BY <3>1, AwaitingGives DEF Outcomes
  <2> HIDE DEF b, w
  <2>5. cell'[j] = [held |-> cell[j].held, slot |-> "pending", waits |-> w, by |-> b, out |-> cell[j].out + 1,
                    made |-> cell[j].made]
    BY <2>1, <2>2, <2>3, <2>4, StartedFields
  <2>6. cell'[j].slot = "pending" /\ cell'[j].by = b /\ cell'[j].waits = w
    BY <2>5
  <2> QED
    BY <1>2, <2>6 DEF b, w
<1> QED
  BY <1>1, <1>2

LEMMA SettleSeen ==
  ASSUME CellsKept, NEW k \in Cells, NEW o \in Outcomes, NEW stays \in BOOLEAN, Settle(k, o, stays), NEW j \in Cells
  PROVE  /\ cell'[j].slot = IF j = k THEN o ELSE cell[j].slot
         /\ cell'[j].by = cell[j].by
         /\ cell'[j].waits = IF j # k /\ Needs[j] = k /\ cell[j].waits = "pending" THEN o ELSE cell[j].waits
<1>1. cell' = [i \in Cells |->
                IF i = k THEN Settled(cell[k], o, stays)
                ELSE IF Needs[i] = k /\ cell[i].waits = "pending" THEN Told(cell[i], o) ELSE cell[i]]
  BY Zenon DEF Settle, Settled, Told
<1>2. cell[j] \in CellRecords
  BY DEF CellsKept, AllKept
<1>3. CASE j = k
  <2>1. cell'[j] = Settled(cell[j], o, stays)
    BY <1>1, <1>3
  <2>2. cell'[j] = [held |-> stays, slot |-> o, waits |-> cell[j].waits, by |-> cell[j].by, out |-> cell[j].out - 1,
                    made |-> IF o = "ok" THEN cell[j].made + 1 ELSE cell[j].made]
    BY <1>2, <2>1, SettledFields
  <2>3. cell'[j].slot = o /\ cell'[j].by = cell[j].by /\ cell'[j].waits = cell[j].waits
    BY <2>2
  <2> QED
    BY <1>3, <2>3
<1>4. CASE j # k /\ Needs[j] = k /\ cell[j].waits = "pending"
  <2>1. cell'[j] = Told(cell[j], o)
    BY <1>1, <1>4
  <2>2. cell'[j] = [held |-> cell[j].held, slot |-> cell[j].slot, waits |-> o, by |-> cell[j].by,
                    out |-> cell[j].out, made |-> cell[j].made]
    BY <1>2, <2>1, ToldFields
  <2>3. cell'[j].slot = cell[j].slot /\ cell'[j].by = cell[j].by /\ cell'[j].waits = o
    BY <2>2
  <2> QED
    BY <1>4, <2>3
<1>5. CASE j # k /\ ~(Needs[j] = k /\ cell[j].waits = "pending")
  <2>1. cell'[j] = cell[j]
    BY <1>1, <1>5
  <2> QED
    BY <1>5, <2>1
<1> QED
  BY <1>3, <1>4, <1>5

\* A call asks: it goes on without waiting, or waits for the cell it asked for.
LEMMA AskedWaits ==
  ASSUME CellsKept, WaitsKept, NEW k \in Cells, NEW c \in Callers, cell' = After(k, c), call[c].at \notin Cells,
         \A d \in Callers : d # c => call'[d] = call[d],
         call'[c].at \in Cells => call'[c].at = k /\ call'[c].got = Awaiting(k),
         ~cell[k].held => call'[c].at = k
  PROVE  WaitsKept'
<1>1. ASSUME NEW j \in Cells, cell[j].slot = "pending" PROVE cell'[j] = cell[j] /\ j \notin Starts(k)
  <2>1. ~Idle(j)
    BY <1>1 DEF Idle
  <2>2. j \notin Starts(k)
    BY <2>1, StartsAreIdle
  <2> QED
    BY <2>2, AfterSeen
<1>2. ASSUME NEW j \in Cells, Awaiting(j) = "pending", Idle(j) => j \in Starts(k) PROVE cell'[j].slot = "pending"
  <2>1. CASE Idle(j)
    BY <1>2, <2>1, AfterSeen
  <2>2. CASE ~Idle(j)
    <3>1. cell[j].slot = "pending"
      BY <1>2, <2>2 DEF Awaiting
    <3> QED
      BY <1>1, <3>1
  <2> QED
    BY <2>1, <2>2
<1>3. ASSUME NEW d \in Callers PROVE CallServed(d)'
  <2>1. CASE d = c
    BY <1>2, <2>1, StartsAreClosed DEF CallServed
  <2>2. CASE d # c
    BY <1>1, <2>2 DEF WaitsKept, CallServed
  <2> QED
    BY <2>1, <2>2
<1>4. ASSUME NEW j \in Cells PROVE NeedServed(j)'
  <2>1. CASE j \in Starts(k)
    <3>1. Needs[j] \in Cells \/ Needs[j] = "none"
      BY DEF Needs, Cells
    <3>2. cell'[j].waits = IF Needs[j] = "none" THEN "ok" ELSE Awaiting(Needs[j])
      BY <2>1, AfterSeen
    <3>3. Needs[j] \in Cells /\ Idle(Needs[j]) => Needs[j] \in Starts(k)
      BY <2>1, StartsAreClosed
    <3> QED
      BY <1>2, <3>1, <3>2, <3>3 DEF NeedServed
  <2>2. CASE j \notin Starts(k)
    <3>1. cell'[j] = cell[j]
      BY <2>2, AfterSeen
    <3>2. NeedServed(j)
      BY DEF WaitsKept
    <3> QED
      BY <1>1, <3>1, <3>2 DEF NeedServed
  <2> QED
    BY <2>1, <2>2
<1>5. ASSUME NEW j \in Cells PROVE StarterWaits(j)'
  <2>1. CASE j \notin Starts(k)
    <3>1. cell'[j] = cell[j] /\ StarterWaits(j)
      BY <2>1, AfterSeen DEF WaitsKept
    <3>2. ASSUME cell[j].slot = "pending", cell[j].by \in Callers PROVE call'[cell[j].by] = call[cell[j].by]
      BY <3>1, <3>2 DEF StarterWaits
    <3>3. ASSUME cell[j].slot = "pending", cell[j].by \in Cells PROVE cell'[cell[j].by] = cell[cell[j].by]
      BY <1>1, <3>1, <3>3 DEF StarterWaits
    <3> QED
      BY <3>1, <3>2, <3>3 DEF StarterWaits
  <2>2. CASE j \in Starts(k) /\ j = k
    <3>1. Idle(k) /\ cell'[j].by = c
      BY <2>2, StartsAreIdle, AfterSeen
    <3>2. call'[c].at = k /\ call'[c].got = "pending"
      BY <3>1 DEF Idle, Awaiting
    <3>3. c \notin Cells
      BY NamesAreDistinct
    <3> QED
      BY <2>2, <3>1, <3>2, <3>3 DEF StarterWaits
  <2>3. CASE j \in Starts(k) /\ j # k
    <3>1. PICK i \in Starts(k) : Needs[i] = j /\ i = CHOOSE h \in Cells : Needs[h] = j
      BY <2>3, StartsAreClosed
    <3>2. i \in Cells /\ Idle(j)
      BY <2>3, StartsAreIdle
    <3>3. Awaiting(j) = "pending" /\ j # "none"
      BY <3>2 DEF Idle, Awaiting, Cells
    <3>4. cell'[j].by = i
      BY <2>3, <3>1, AfterSeen
    <3>5. cell'[i].slot = "pending" /\ cell'[i].waits = "pending"
      BY <3>1, <3>2, <3>3, AfterSeen
    <3>6. i \notin Callers
      BY <3>2, NamesAreDistinct
    <3> QED
      BY <3>1, <3>4, <3>5, <3>6 DEF StarterWaits
  <2> QED
    BY <2>1, <2>2, <2>3
<1> QED
  BY <1>3, <1>4, <1>5 DEF WaitsKept

\* A flight settles.
LEMMA SettledWaits ==
  ASSUME CellsKept, CallsKept, WaitsKept, NEW k \in Cells, NEW o \in Outcomes, NEW stays \in BOOLEAN,
         cell[k].waits # "pending", Settle(k, o, stays)
  PROVE  WaitsKept'
<1> DEFINE g(d) == IF call[d].at = k /\ call[d].got = "pending" THEN o ELSE call[d].got
           h(d) == call[d].hit \/ o # "ok"
<1>1. ASSUME NEW d \in Callers PROVE call'[d].at = call[d].at /\ call'[d].got = g(d)
  <2>1. call'[d] = Hears(call[d], g(d), h(d))
    BY Zenon DEF Settle, Hears
  <2>2. call[d] \in CallRecords
    BY DEF CallsKept, AllCallsKept
  <2> HIDE DEF g, h
  <2>3. call'[d] = [op |-> call[d].op, at |-> call[d].at, got |-> g(d), res |-> call[d].res,
                    applied |-> call[d].applied, answer |-> call[d].answer, body |-> call[d].body,
                    calls |-> call[d].calls, hit |-> h(d)]
    BY <2>1, <2>2, HearsFields
  <2> QED
    BY <2>3
<1>2. o # "pending"
  BY DEF Outcomes
<1>3. ASSUME NEW d \in Callers PROVE CallServed(d)'
  <2>1. CallServed(d)
    BY DEF WaitsKept
  <2>2. call'[d].at = call[d].at /\ call'[d].got = g(d)
    BY <1>1
  <2> QED
    BY <1>2, <2>1, <2>2, SettleSeen DEF CallServed
<1>4. ASSUME NEW j \in Cells PROVE NeedServed(j)'
  <2>1. NeedServed(j)
    BY DEF WaitsKept
  <2> QED
    BY <1>2, <2>1, SettleSeen DEF NeedServed
<1>5. ASSUME NEW j \in Cells PROVE StarterWaits(j)'
  <2>1. StarterWaits(j)
    BY DEF WaitsKept
  <2> SUFFICES ASSUME cell'[j].slot = "pending" PROVE StarterWaits(j)'
    BY DEF StarterWaits
  <2>2. j # k /\ cell[j].slot = "pending" /\ cell'[j].by = cell[j].by
    BY <1>2, SettleSeen
  <2>3. CASE cell[j].by \in Callers
    <3>1. call[cell[j].by].at = j /\ call[cell[j].by].got = "pending"
      BY <2>1, <2>2, <2>3 DEF StarterWaits
    <3>2. call'[cell[j].by].at = j /\ call'[cell[j].by].got = "pending"
      BY <1>1, <2>2, <2>3, <3>1
    <3>3. cell[j].by \notin Cells
      BY <2>3, NamesAreDistinct
    <3> QED
      BY <2>2, <3>2, <3>3 DEF StarterWaits
  <2>4. CASE cell[j].by \in Cells
    <3> DEFINE i == cell[j].by
    <3>1. Needs[i] = j /\ cell[i].slot = "pending" /\ cell[i].waits = "pending" /\ i \in Cells
      BY <2>1, <2>2, <2>4 DEF StarterWaits
    <3>2. i # k
      BY <3>1
    <3> HIDE DEF i
    <3>3. cell'[i].slot = "pending" /\ cell'[i].waits = "pending"
      BY <2>2, <3>1, <3>2, SettleSeen
    <3>4. i \notin Callers
      BY <3>1, NamesAreDistinct
    <3> QED
      BY <2>2, <3>1, <3>3, <3>4 DEF StarterWaits, i
  <2> QED
    BY <2>2, <2>3, <2>4 DEF StarterWaits
<1> QED
  BY <1>3, <1>4, <1>5 DEF WaitsKept

\* Cells change, but not those of flights under way.
LEMMA QuietWaits ==
  ASSUME WaitsKept, UNCHANGED call,
         \A j \in Cells : /\ cell'[j].slot = "pending" => cell[j].slot = "pending"
                          /\ cell[j].slot = "pending" =>
                               cell'[j].slot = "pending" /\ cell'[j].by = cell[j].by /\ cell'[j].waits = cell[j].waits
  PROVE  WaitsKept'
<1>1. ASSUME NEW d \in Callers PROVE CallServed(d)'
  BY DEF WaitsKept, CallServed
<1>2. ASSUME NEW j \in Cells PROVE NeedServed(j)'
  BY DEF WaitsKept, NeedServed
<1>3. ASSUME NEW j \in Cells PROVE StarterWaits(j)'
  BY DEF WaitsKept, StarterWaits
<1> QED
  BY <1>1, <1>2, <1>3 DEF WaitsKept

LEMMA UnwoundWaits ==
  ASSUME CellsKept, WaitsKept, (\E k \in Cells : Unwind(k)) \/ TokenExpires
  PROVE  WaitsKept'
<1>1. ASSUME NEW k \in Cells, Unwind(k) PROVE WaitsKept'
  <2> DEFINE h == cell[k].held \/ (k = "admin" /\ cell[k].slot = "ok")
             v == [cell[k] EXCEPT !.slot = SlotAfter(k), !.by = Nobody, !.held = h]
             s == Unwound(cell[k], h)
  <2>1. cell' = [cell EXCEPT ![k] = v] /\ UNCHANGED call /\ cell[k].slot # "pending"
    BY <1>1, Zenon DEF Unwind
  <2>2. v = s
    BY Zenon DEF SlotAfter, Unwound
  <2>3. cell[k] \in CellRecords /\ h \in BOOLEAN /\ cell \in [Cells -> CellRecords]
    BY DEF CellsKept, AllKept
  <2> HIDE DEF h, v
  <2>4. s = [held |-> h, slot |-> "empty", waits |-> cell[k].waits, by |-> Nobody, out |-> cell[k].out,
             made |-> cell[k].made]
    BY <2>3, UnwoundFields
  <2> HIDE DEF s
  <2>5. s.slot = "empty"
    BY <2>4
  <2>6. \A j \in Cells : cell'[j] = IF j = k THEN s ELSE cell[j]
    BY <2>1, <2>2, <2>3
  <2> QED
    BY <2>1, <2>5, <2>6, QuietWaits
<1>2. CASE TokenExpires
  <2> DEFINE s == Lapsed(cell["token"])
  <2> HIDE DEF s
  <2>1. cell' = [cell EXCEPT !["token"] = s] /\ UNCHANGED call
    BY <1>2, Zenon DEF TokenExpires, Lapsed, s
  <2>2. "token" \in Cells /\ cell["token"] \in CellRecords /\ cell \in [Cells -> CellRecords]
    BY DEF CellsKept, AllKept, Cells
  <2>3. s = [held |-> FALSE, slot |-> cell["token"].slot, waits |-> cell["token"].waits, by |-> cell["token"].by,
             out |-> cell["token"].out, made |-> cell["token"].made]
    BY <2>2, LapsedFields DEF s
  <2>4. s.slot = cell["token"].slot /\ s.by = cell["token"].by /\ s.waits = cell["token"].waits
    BY <2>3
  <2>5. \A j \in Cells : cell'[j] = IF j = "token" THEN s ELSE cell[j]
    BY <2>1, <2>2
  <2> QED
    BY <2>1, <2>4, <2>5, QuietWaits
<1> QED
  BY <1>1, <1>2

\* A call that waits for nothing goes on, to something else than a wait.
LEMMA MovedWaits ==
  ASSUME WaitsKept, UNCHANGED cell, NEW c \in Callers, call[c].at \in Cells => call[c].got # "pending",
         call'[c].at \notin Cells,
         \A d \in Callers \ {c} : call'[d].at = call[d].at /\ call'[d].got = call[d].got
  PROVE  WaitsKept'
<1>1. ASSUME NEW d \in Callers PROVE CallServed(d)'
  BY DEF WaitsKept, CallServed
<1>2. ASSUME NEW j \in Cells PROVE NeedServed(j)'
  BY DEF WaitsKept, NeedServed
<1>3. ASSUME NEW j \in Cells PROVE StarterWaits(j)'
  <2>1. StarterWaits(j)
    BY DEF WaitsKept
  <2>2. ASSUME cell[j].slot = "pending", cell[j].by \in Callers PROVE cell[j].by # c
    BY <2>1, <2>2 DEF StarterWaits
  <2> QED
    BY <2>1, <2>2 DEF StarterWaits
<1> QED
  BY <1>1, <1>2, <1>3 DEF WaitsKept
LEMMA EndedEnds ==
  ASSUME NEW r \in CallRecords, NEW x \in Results
  PROVE  EndedAs(r, x).at = "idle"
BY DEF CallRecords, EndedAs

LEMMA OneCallWaits ==
  ASSUME CallsKept, WaitsKept, UNCHANGED cell, NEW c \in Callers, NEW w, w.at \notin Cells,
         call[c].at \in Cells => call[c].got # "pending", call' = [call EXCEPT ![c] = w]
  PROVE  WaitsKept'
<1>1. call \in [Callers -> CallRecords]
  BY DEF CallsKept, AllCallsKept
<1>2. call'[c] = w /\ \A d \in Callers \ {c} : call'[d] = call[d]
  BY <1>1
<1>3. call'[c].at \notin Cells
  BY <1>2, Zenon
<1>4. \A d \in Callers \ {c} : call'[d].at = call[d].at /\ call'[d].got = call[d].got
  BY <1>2
<1> QED
  BY <1>3, <1>4, MovedWaits

LEMMA AskForWaits ==
  ASSUME CellsKept, CallsKept, WaitsKept, NEW c \in Callers, NEW k \in Cells, NEW next \in CallRecords,
         next.at \notin Cells, call[c].at \notin Cells, AskFor(c, k, next)
  PROVE  WaitsKept'
<1> DEFINE w == IF cell[k].held THEN next ELSE Waiting(next, k, Awaiting(k))
<1>1. cell' = After(k, c)
  BY DEF AskFor
<1>2. call' = [call EXCEPT ![c] = w]
  BY Zenon DEF AskFor, Waiting
<1>3. call \in [Callers -> CallRecords]
  BY DEF CallsKept, AllCallsKept
<1>4. (w.at \in Cells => w.at = k /\ w.got = Awaiting(k)) /\ (~cell[k].held => w.at = k)
  <2>1. CASE cell[k].held
    <3>1. w = next
      BY <2>1
    <3> QED
      BY <2>1, <3>1, Zenon
  <2>2. CASE ~cell[k].held
    <3> DEFINE g == Awaiting(k)
    <3>1. w = Waiting(next, k, g)
      BY <2>2
    <3> HIDE DEF g, w
    <3>2. w = [op |-> next.op, at |-> k, got |-> g, res |-> next.res, applied |-> next.applied,
               answer |-> next.answer, body |-> next.body, calls |-> next.calls, hit |-> next.hit]
      BY <3>1, WaitingFields
    <3>3. w.at = k /\ w.got = g
      BY <3>2
    <3> QED
      BY <3>3 DEF g
  <2> QED
    BY <2>1, <2>2
<1> HIDE DEF w
<1>5. call'[c] = w /\ \A d \in Callers : d # c => call'[d] = call[d]
  BY <1>2, <1>3
<1>6. (call'[c].at \in Cells => call'[c].at = k /\ call'[c].got = Awaiting(k)) /\ (~cell[k].held => call'[c].at = k)
  BY <1>4, <1>5, Zenon
<1> QED
  BY <1>1, <1>5, <1>6, AskedWaits

LEMMA AskWaits ==
  ASSUME CellsKept, CallsKept, WaitsKept, NEW c \in Callers, NEW op \in Ops, Ask(c, op)
  PROVE  WaitsKept'
<1> DEFINE f == Fresh(c, op)
<1> HIDE DEF f
<1>1. f \in CallRecords /\ f.at = "sent"
  BY FreshKept DEF f, CallKept
<1>2. "admin" \in Cells /\ "conf" \in Cells /\ {"sent", "client", "idle"} \cap Cells = {}
  BY DEF Cells
<1>3. call[c].at \notin Cells
  BY <1>2 DEF Ask
<1>4. CASE AskFor(c, "admin", Moved(f, "client"))
  <2> DEFINE w == Moved(f, "client")
  <2> HIDE DEF w
  <2>1. w = [op |-> f.op, at |-> "client", got |-> f.got, res |-> f.res, applied |-> f.applied,
             answer |-> f.answer, body |-> f.body, calls |-> f.calls, hit |-> f.hit]
    BY <1>1, MovedFields DEF w
  <2>2. w \in CallRecords
    BY <1>1, <2>1 DEF CallRecords
  <2>3. w.at \notin Cells
    BY <1>2, <2>1
  <2>4. AskFor(c, "admin", w)
    BY <1>4 DEF w
  <2> QED
    BY <1>2, <1>3, <2>2, <2>3, <2>4, AskForWaits
<1>5. CASE call' = [call EXCEPT ![c] = Rejected(f)] /\ UNCHANGED cell
  <2> DEFINE w == Rejected(f)
  <2> HIDE DEF w
  <2>1. w = [op |-> f.op, at |-> "idle", got |-> f.got, res |-> "Config", applied |-> f.applied,
             answer |-> f.answer, body |-> f.body, calls |-> f.calls, hit |-> f.hit]
    BY <1>1, RejectedFields DEF w
  <2>2. w.at \notin Cells
    BY <1>2, <2>1
  <2>3. call' = [call EXCEPT ![c] = w]
    BY <1>5 DEF w
  <2> QED
    BY <1>3, <1>5, <2>2, <2>3, OneCallWaits
<1>6. CASE AskFor(c, "conf", f)
  BY <1>1, <1>2, <1>3, <1>6, AskForWaits
<1>7. CASE call' = [call EXCEPT ![c] = f] /\ UNCHANGED cell
  BY <1>1, <1>2, <1>3, <1>7, OneCallWaits
<1>8. CASE AskAdmin(c, op)
  <2>1. CASE config.secret
    <3>1. AskFor(c, "admin", [Fresh(c, op) EXCEPT !.at = "client"])
      BY <1>8, <2>1 DEF AskAdmin
    <3>2. AskFor(c, "admin", Moved(f, "client"))
      BY <3>1, Zenon DEF Moved, f
    <3> QED
      BY <1>4, <3>2
  <2>2. CASE ~config.secret
    <3>1. call' = [call EXCEPT ![c] = [Fresh(c, op) EXCEPT !.at = "idle", !.res = "Config"]] /\ UNCHANGED cell
      BY <1>8, <2>2 DEF AskAdmin
    <3>2. call' = [call EXCEPT ![c] = Rejected(f)]
      BY <3>1, Zenon DEF Rejected, f
    <3> QED
      BY <1>5, <3>1, <3>2
  <2> QED
    BY <2>1, <2>2
<1>9. CASE AskAuth(c, op)
  BY <1>6, <1>7, <1>9 DEF AskAuth, f
<1> QED
  BY <1>8, <1>9 DEF Ask

LEMMA ResumeWaits ==
  ASSUME CallsKept, WaitsKept, NEW c \in Callers, Resume(c)
  PROVE  WaitsKept'
<1> DEFINE r == call[c]
           a == IF call[c].at = "admin" THEN "client" ELSE "sent"
<1>1. CallKept(r, Unwinding) /\ r \in CallRecords
  BY DEF CallsKept, AllCallsKept, CallKept
<1>2. r.got # "pending" /\ UNCHANGED cell /\ r.at # "idle"
  BY DEF Resume, Cells
<1>3. {"sent", "client", "idle"} \cap Cells = {}
  BY DEF Cells
<1>4. CASE r.got = "ok"
  <2> DEFINE w == Waiting(r, a, "none")
  <2>1. call' = [call EXCEPT ![c] = w]
    BY <1>4, Zenon DEF Resume, Waiting
  <2>2. a \notin Cells
    BY <1>3
  <2>3. w = Waiting(r, a, "none")
    OBVIOUS
  <2> HIDE DEF w, a, r
  <2>4. w = [op |-> r.op, at |-> a, got |-> "none", res |-> r.res, applied |-> r.applied, answer |-> r.answer,
             body |-> r.body, calls |-> r.calls, hit |-> r.hit]
    BY <1>1, <2>3, WaitingFields
  <2>5. w.at \notin Cells
    BY <2>2, <2>4
  <2> QED
    BY <1>2, <2>1, <2>5, OneCallWaits DEF r
<1>5. CASE r.got # "ok"
  <2> DEFINE w == EndedAs(r, r.got)
  <2>1. call' = [call EXCEPT ![c] = w]
    BY <1>5, Zenon DEF Resume, Ends, EndedAs
  <2>2. r.got \in Results
    BY <1>1, <1>2 DEF CallRecords, Outcomes, Results
  <2>3. w = EndedAs(r, r.got)
    OBVIOUS
  <2> HIDE DEF w, r
  <2>4. w.at = "idle"
    BY <1>1, <2>2, <2>3, EndedEnds
  <2>5. w.at \notin Cells
    BY <1>3, <2>4
  <2> QED
    BY <1>2, <2>1, <2>5, OneCallWaits DEF r
<1> QED
  BY <1>4, <1>5

LEMMA UseClientWaits ==
  ASSUME CellsKept, CallsKept, WaitsKept, NEW c \in Callers, UseClient(c)
  PROVE  WaitsKept'
<1> DEFINE r == call[c]
<1>1. CallKept(r, Unwinding) /\ r \in CallRecords
  BY DEF CallsKept, AllCallsKept, CallKept
<1>2. r.at \notin Cells /\ r.at # "idle" /\ "token" \in Cells /\ {"sent", "idle"} \cap Cells = {}
  BY DEF UseClient, Cells
<1>3. CASE r.op = "admin"
  <2> DEFINE w == EndedAs(r, "ok")
  <2>1. call' = [call EXCEPT ![c] = w] /\ UNCHANGED cell
    BY <1>3, Zenon DEF UseClient, Ends, EndedAs
  <2>2. "ok" \in Results /\ w = EndedAs(r, "ok")
    BY DEF Results
  <2> HIDE DEF w, r
  <2>3. w.at = "idle"
    BY <1>1, <2>2, EndedEnds
  <2>4. w.at \notin Cells
    BY <1>2, <2>3
  <2> QED
    BY <1>2, <2>1, <2>4, OneCallWaits DEF r
<1>4. CASE r.op # "admin"
  <2> DEFINE w == Moved(r, "sent")
  <2>1. AskFor(c, "token", w)
    BY <1>4, Zenon DEF UseClient, Moved
  <2>2. w = Moved(r, "sent")
    OBVIOUS
  <2> HIDE DEF w, r
  <2>3. w = [op |-> r.op, at |-> "sent", got |-> r.got, res |-> r.res, applied |-> r.applied, answer |-> r.answer,
             body |-> r.body, calls |-> r.calls, hit |-> r.hit]
    BY <1>1, <2>2, MovedFields
  <2>4. w \in CallRecords
    BY <1>1, <2>3 DEF CallRecords
  <2>5. w.at \notin Cells
    BY <1>2, <2>3
  <2> QED
    BY <1>2, <2>1, <2>4, <2>5, AskForWaits DEF r
<1> QED
  BY <1>3, <1>4

LEMMA ReplyWaits ==
  ASSUME CallsKept, WaitsKept, NEW c \in Callers, Reply(c)
  PROVE  WaitsKept'
<1>1. OnlyEnds(c)
  BY RepliesKept, NoReplyCallsKept, AuthRepliesKept, AuthFailsKept DEF Reply
<1>2. UNCHANGED cell /\ call[c].at = "sent"
  BY DEF Reply, Replies, NoReply, AuthReplies, AuthFails
<1>3. {"sent", "idle"} \cap Cells = {}
  BY DEF Cells
<1> QED
  BY <1>1, <1>2, <1>3, MovedWaits DEF OnlyEnds

LEMMA WaitsStep ==
  ASSUME CellsKept, CallsKept, WaitsKept, [Next]_vars
  PROVE  WaitsKept'
<1>1. ASSUME UNCHANGED <<cell, call>> PROVE WaitsKept'
  BY <1>1, QuietWaits
<1>2. CASE (\E i \in Inputs : Create(i)) \/ UNCHANGED vars
  BY <1>1, <1>2 DEF Create, vars
<1>3. ASSUME NEW k \in Cells, Answered(k) \/ (\E t \in FailedInTransport : Fails(k, t)) \/ Proceed(k)
      PROVE  WaitsKept'
  <2>1. PICK o \in Outcomes, stays \in BOOLEAN : Settle(k, o, stays)
    BY <1>3, SettlesAs
  <2>2. cell[k].waits # "pending"
    BY <1>3 DEF Answered, Fails, Requesting, Proceed
  <2> QED
    BY <2>1, <2>2, SettledWaits
<1>4. CASE (\E k \in Cells : Unwind(k)) \/ TokenExpires
  BY <1>4, UnwoundWaits
<1>5. ASSUME NEW c \in Callers, NEW op \in Ops, Ask(c, op) PROVE WaitsKept'
  BY <1>5, AskWaits
<1>6. ASSUME NEW c \in Callers, Resume(c) \/ UseClient(c) PROVE WaitsKept'
  BY <1>6, ResumeWaits, UseClientWaits
<1>7. ASSUME NEW c \in Callers, Reply(c) PROVE WaitsKept'
  BY <1>7, ReplyWaits
<1> QED
  BY <1>2, <1>3, <1>4, <1>5, <1>6, <1>7 DEF Next, Flight

LEMMA WaitsAtFirst ==
  ASSUME Init
  PROVE  WaitsKept
<1>1. \A c \in Callers : call[c].at = "idle"
  BY DEF Init
<1>2. \A k \in Cells : cell[k].slot = "empty"
  BY DEF Init
<1>3. "idle" \notin Cells
  BY DEF Cells
<1> QED
  BY <1>1, <1>2, <1>3 DEF WaitsKept, CallServed, NeedServed, StarterWaits

\* Nobody waits for a promise that nobody will settle: a call or a flight that hears nothing
\* yet waits for a flight under way, and one that has heard resumes as soon as the flights it
\* started itself are unwound, which its own wait cannot hold back.
THEOREM NobodyWaitsInVain == Spec => []WaitsAreServed
<1>1. ASSUME WaitsKept PROVE WaitsAreServed
  <2>1. ASSUME NEW c \in Callers, call[c].at \in Cells
        PROVE  IF call[c].got = "pending" THEN cell[call[c].at].slot = "pending"
               ELSE Originates(c, call[c].at) => cell[call[c].at].slot # "pending"
    <3>1. CallServed(c) /\ StarterWaits(call[c].at)
      BY <1>1, <2>1 DEF WaitsKept
    <3> QED
      BY <2>1, <3>1 DEF CallServed, StarterWaits, Originates
  <2>2. ASSUME NEW k \in Cells, cell[k].slot = "pending", Needs[k] # "none"
        PROVE  IF cell[k].waits = "pending" THEN cell[Needs[k]].slot = "pending"
               ELSE Originates(k, Needs[k]) => cell[Needs[k]].slot # "pending"
    <3>1. Needs[k] \in Cells
      BY <2>2 DEF Needs, Cells
    <3>2. NeedServed(k) /\ StarterWaits(Needs[k])
      BY <1>1, <3>1 DEF WaitsKept
    <3> QED
      BY <2>2, <3>1, <3>2 DEF NeedServed, StarterWaits, Originates
  <2> QED
    BY <2>1, <2>2 DEF WaitsAreServed
<1>2. CellsKept /\ CallsKept /\ WaitsKept /\ [Next]_vars => WaitsKept'
  BY WaitsStep
<1> QED
  BY <1>1, <1>2, WaitsAtFirst, CellsAlwaysKept, CallsAlwaysKept, PTL DEF Spec
=============================================================================
