-------------------------- MODULE ChangelogProofs --------------------------
(***************************************************************************)
(* Proofs about the changelog, for any limits, any number of releases and  *)
(* any edits by hand: what check 8d lets into main keeps every section of  *)
(* the past (LedgerRecord), main stays one ledger over its files, a        *)
(* rotation that is stopped loses nothing, and one that ends settles.      *)
(*                                                                         *)
(* The parser, the renderer and the sizes are folds over lines.  A fold is *)
(* the last of a run of values, one for each prefix of its sequence; what  *)
(* holds of the first one and of each next one holds of the fold.          *)
(***************************************************************************)
EXTENDS Changelog, TLAPS, WellFoundedInduction, FiniteSetTheorems

-----------------------------------------------------------------------------
(* Induction over the numbers, for a set instead of a predicate. *)
LEMMA LeastNumber ==
  ASSUME NEW T \in SUBSET Nat, T # {}
  PROVE  \E n \in T : \A m \in T : n <= m
<1>1. PICK n \in T : \A m \in T : <<m, n>> \notin OpToRel(<, Nat)
  BY NatLessThanWellFounded, WFMin, Zenon
<1>2. \A m \in T : ~(m < n)
  BY <1>1 DEF OpToRel
<1> QED
  BY <1>2

LEMMA NumbersInduct ==
  ASSUME NEW T \in SUBSET Nat, 0 \in T, \A n \in T : n + 1 \in T
  PROVE  T = Nat
<1> SUFFICES ASSUME Nat \ T # {} PROVE FALSE
  OBVIOUS
<1>1. PICK n \in Nat \ T : \A m \in Nat \ T : n <= m
  BY LeastNumber
<1>2. n # 0 /\ n - 1 \in T
  BY <1>1
<1> QED
  BY <1>1, <1>2

LEMMA UpToLast ==
  ASSUME NEW m \in Nat, NEW T, 0 \in T, \A k \in 1..m : k - 1 \in T => k \in T
  PROVE  \A k \in 0..m : k \in T
<1> DEFINE U == {k \in Nat : k <= m => k \in T}
<1>1. ASSUME NEW n \in U PROVE n + 1 \in U
  BY <1>1
<1>2. U = Nat
  <2>1. 0 \in U /\ U \in SUBSET Nat
    OBVIOUS
  <2> HIDE DEF U
  <2> QED
    BY <1>1, <2>1, NumbersInduct
<1> QED
  BY <1>2

LEMMA GreatestIndex ==
  ASSUME NEW m \in Nat, NEW s \in SUBSET (0..m), s # {}
  PROVE  Max(s) \in s /\ \A i \in s : Max(s) >= i
<1>1. {m - i : i \in s} \in SUBSET Nat /\ {m - i : i \in s} # {}
  <2>1. \A i \in s : m - i \in Nat
    OBVIOUS
  <2>2. \E i : i \in s
    OBVIOUS
  <2> QED
    BY <2>1, <2>2
<1>2. PICK n \in {m - i : i \in s} : \A o \in {m - i : i \in s} : n <= o
  BY <1>1, LeastNumber
<1>3. PICK i \in s : n = m - i
  BY <1>2
<1>4. \A j \in s : i >= j
  BY <1>2, <1>3
<1> QED
  BY <1>4 DEF Max

LEMMA GreatestPosition ==
  ASSUME NEW m \in Nat, NEW s \in SUBSET (1..m), s # {}
  PROVE  Max(s) \in s /\ \A i \in s : Max(s) >= i
<1>1. s \in SUBSET (0..m)
  OBVIOUS
<1> QED
  BY <1>1, GreatestIndex

LEMMA LastIndex ==
  ASSUME NEW k \in Nat, k # 0
  PROVE  Max(1..k) = k /\ (1..k) \ {k} = 1..(k - 1)
<1>0. k \in 1..k
  OBVIOUS
<1>1. Max(1..k) \in 1..k /\ \A i \in 1..k : Max(1..k) >= i
  BY <1>0, GreatestPosition
<1> QED
  BY <1>0, <1>1

-----------------------------------------------------------------------------
(* A fold is the value, at all the positions, of a function on their sets. *)
LeftFold(g, m, base, step) ==
  \A s \in SUBSET (1..m) : g[s] = IF s = {} THEN base ELSE step[<<g[s \ {Max(s)}], Max(s)>>]

(* There is such a function: one more position extends it. *)
LEMMA LeftFoldExists ==
  ASSUME NEW m \in Nat, NEW V, NEW base \in V, NEW step \in [V \X (1..m) -> V]
  PROVE  \E g \in [SUBSET (1..m) -> V] : LeftFold(g, m, base, step)
<1> DEFINE Upto(n) == \E g \in [SUBSET (1..n) -> V] : LeftFold(g, n, base, step)
           T == {n \in Nat : n <= m => Upto(n)}
<1>1. 0 \in T
  <2> DEFINE g == [s \in SUBSET (1..0) |-> base]
  <2>1. \A s \in SUBSET (1..0) : s = {}
    OBVIOUS
  <2>2. g \in [SUBSET (1..0) -> V] /\ LeftFold(g, 0, base, step)
    BY <2>1 DEF LeftFold
  <2> QED
    BY <2>2
<1>2. ASSUME NEW n \in T PROVE n + 1 \in T
  <2> SUFFICES ASSUME n + 1 <= m PROVE Upto(n + 1)
    <3> HIDE DEF Upto
    <3> QED
      BY <1>2
  <2>0. n \in Nat /\ n <= m /\ Upto(n)
    <3> HIDE DEF Upto
    <3> QED
      BY <1>2
  <2>1. PICK g \in [SUBSET (1..n) -> V] : LeftFold(g, n, base, step)
    BY <2>0
  <2> DEFINE h == [s \in SUBSET (1..(n + 1)) |->
                     IF n + 1 \in s THEN step[<<g[s \ {n + 1}], n + 1>>] ELSE g[s]]
  <2>2. ASSUME NEW s \in SUBSET (1..(n + 1))
        PROVE  /\ s \ {n + 1} \in SUBSET (1..n)
               /\ n + 1 \in s => Max(s) = n + 1
               /\ n + 1 \notin s => s \in SUBSET (1..n)
    <3>1. \A i \in s : i \in 1..(n + 1)
      OBVIOUS
    <3>2. \A i \in 1..(n + 1) : i # n + 1 => i \in 1..n
      BY <2>0
    <3>3. s \ {n + 1} \in SUBSET (1..n) /\ (n + 1 \notin s => s \in SUBSET (1..n))
      BY <3>1, <3>2
    <3>4. ASSUME n + 1 \in s PROVE Max(s) = n + 1
      <4>0. n + 1 \in Nat /\ s # {}
        BY <2>0, <3>4
      <4>1. Max(s) \in s /\ \A i \in s : Max(s) >= i
        BY <4>0, GreatestPosition
      <4>2. Max(s) >= n + 1 /\ Max(s) \in 1..(n + 1)
        BY <3>1, <3>4, <4>1
      <4> QED
        BY <2>0, <4>2
    <3> QED
      BY <3>3, <3>4
  <2>3. n + 1 \in 1..m
    BY <2>0
  <2>4. h \in [SUBSET (1..(n + 1)) -> V]
    BY <2>2, <2>3
  <2>5. ASSUME NEW s \in SUBSET (1..(n + 1))
        PROVE  h[s] = IF s = {} THEN base ELSE step[<<h[s \ {Max(s)}], Max(s)>>]
    <3>1. CASE n + 1 \in s
      <4>1. Max(s) = n + 1 /\ s # {} /\ s \ {n + 1} \in SUBSET (1..(n + 1))
        BY <2>2, <3>1
      <4>2. h[s \ {n + 1}] = g[s \ {n + 1}] /\ h[s] = step[<<g[s \ {n + 1}], n + 1>>]
        BY <3>1, <4>1
      <4> QED
        BY <4>1, <4>2
    <3>2. CASE n + 1 \notin s
      <4>1. s \in SUBSET (1..n) /\ h[s] = g[s]
        BY <2>2, <3>2
      <4>2. \A r : r = s \ {Max(s)} => r \in SUBSET (1..(n + 1)) /\ n + 1 \notin r
        BY <3>2
      <4>3. h[s \ {Max(s)}] = g[s \ {Max(s)}]
        BY <4>2
      <4> QED
        BY <2>1, <4>1, <4>3 DEF LeftFold
    <3> QED
      BY <3>1, <3>2
  <2> HIDE DEF h
  <2> QED
    BY <2>4, <2>5 DEF LeftFold
<1> HIDE DEF Upto
<1>3. T = Nat
  <2>1. T \in SUBSET Nat
    OBVIOUS
  <2> HIDE DEF T
  <2> QED
    BY <1>1, <1>2, <2>1, NumbersInduct
<1>4. Upto(m)
  BY <1>3
<1> QED
  BY <1>4 DEF Upto

(* Its values at the prefixes are the run of the fold. *)
Runs(run, m, base, step) == run[0] = base /\ \A k \in 1..m : run[k] = step[<<run[k - 1], k>>]

HasRun(it, V, m, base, step) == \E run \in [0..m -> V] : Runs(run, m, base, step) /\ it[1..m] = run[m]
FoldsIn(it, V, m, base, step) ==
  /\ it[{}] = base
  /\ \A s \in SUBSET (1..m) : s # {} /\ it[s \ {Max(s)}] \in V => it[s] = step[<<it[s \ {Max(s)}], Max(s)>>]

LEMMA FoldRuns ==
  ASSUME NEW m \in Nat, NEW V, NEW base \in V, NEW step \in [V \X (1..m) -> V], NEW it,
         FoldsIn(it, V, m, base, step)
  PROVE  HasRun(it, V, m, base, step)
<1> DEFINE T == {k \in 0..m : it[1..k] \in V}
           run == [k \in 0..m |-> it[1..k]]
<1>1. (1..0) = {} /\ it[{}] = base
  BY DEF FoldsIn
<1>2. ASSUME NEW k \in 1..m, it[1..(k - 1)] \in V
      PROVE  it[1..k] = step[<<it[1..(k - 1)], k>>] /\ it[1..k] \in V
  <2>1. (1..k) \in SUBSET (1..m) /\ 1..k # {}
    OBVIOUS
  <2>2. Max(1..k) = k /\ (1..k) \ {k} = 1..(k - 1)
    BY LastIndex
  <2>3. it[1..k] = step[<<it[1..(k - 1)], k>>]
    BY <1>2, <2>1, <2>2 DEF FoldsIn
  <2> QED
    BY <1>2, <2>3
<1>3. \A k \in 0..m : k \in T
  <2>1. 0 \in T
    BY <1>1
  <2>2. ASSUME NEW k \in 1..m, k - 1 \in T PROVE k \in T
    <3>1. it[1..(k - 1)] \in V /\ k \in 0..m
      BY <2>2
    <3> QED
      BY <1>2, <3>1
  <2> HIDE DEF T
  <2> QED
    BY <2>1, <2>2, UpToLast
<1>4. run \in [0..m -> V]
  BY <1>3
<1>5. ASSUME NEW k \in 1..m PROVE run[k] = step[<<run[k - 1], k>>]
  <2>1. k \in 0..m /\ k - 1 \in 0..m
    OBVIOUS
  <2> QED
    BY <1>2, <1>3, <2>1
<1>6. run[0] = base /\ run[m] = it[1..m]
  BY <1>1
<1> HIDE DEF run
<1> QED
  BY <1>4, <1>5, <1>6 DEF Runs, HasRun
-----------------------------------------------------------------------------
(* What lines, sections and files are.  A heading has no link, and the     *)
(* date of a release is in one of the months there are volumes of.         *)
Kinds == {"text", "bullet", "more", "unreleased", "release", "unknown", "index", "volume"}
Lines == {l \in [k : Kinds, n : Nat, d : Nat, up : Nat, months : SUBSET Nat, glued : BOOLEAN] :
            (IsHeading(l) => l.up = 0) /\ (l.k = "release" => Month(l.d) \in Volumes)}
Heads == {l \in Lines : IsHeading(l)}
Sections == [h : Heads, body : Seq(Lines), ends : BOOLEAN]
Parses == [head : Seq(Lines), blocks : Seq(Sections)]
Files == [lines : Seq(Lines), ends : BOOLEAN]
Ledgers == [{Root} \cup Volumes -> Files]

LEMMA LineTypes ==
  /\ Blank \in Lines /\ Unreleased \in Heads /\ Unknown \in Heads
  /\ \A n, d \in Nat : /\ Bullet(n, d) \in Lines /\ More(n) \in Lines /\ volumeHead(d) \in Lines
                       /\ d \in 1..MaxReleases + 1 => Release(n, d) \in Heads
  /\ \A months \in SUBSET Nat : indexLine(months) \in Lines
  /\ Heads \subseteq Lines
<1>1. \A d \in 1..MaxReleases + 1 : Month(d) \in Volumes
  BY BoundsAreNatural DEF Month, Volumes
<1> QED
  BY <1>1 DEF Blank, Unreleased, Unknown, Bullet, More, Release, volumeHead, indexLine, Lines, Heads, Kinds, IsHeading

LEMMA FirstDates == \A v \in 1..4 : v \in Nat /\ v \in 1..MaxReleases + 1
BY BoundsAreNatural, ThreeToBeginWith

LEMMA LineBytesType == ASSUME NEW l \in Lines PROVE LineBytes(l) \in Nat
BY DEF Lines, LineBytes

(* The run of the sizes of the first lines. *)
Sums(run, lines) ==
  /\ run \in [0..Len(lines) -> Nat] /\ run[0] = 0
  /\ \A k \in 1..Len(lines) : run[k] = run[k - 1] + LineBytes(lines[k])

LEMMA BytesRun ==
  ASSUME NEW lines \in Seq(Lines)
  PROVE  \E run : Sums(run, lines) /\ bytes(lines) = run[Len(lines)]
<1> DEFINE m == Len(lines)
           step == [w \in Nat \X (1..m) |-> w[1] + LineBytes(lines[w[2]])]
           Folds(it) == it = [s \in SUBSET (1..m) |->
                                IF s = {} THEN 0 ELSE it[s \ {Max(s)}] + LineBytes(lines[Max(s)])]
<1>1. m \in Nat /\ DOMAIN lines = 1..m /\ \A i \in 1..m : LineBytes(lines[i]) \in Nat
  BY LineBytesType
<1>2. step \in [Nat \X (1..m) -> Nat] /\ \A v \in Nat, i \in 1..m : step[<<v, i>>] = v + LineBytes(lines[i])
  BY <1>1
<1>3. bytes(lines) = (CHOOSE it : Folds(it))[1..m]
  <2> HIDE DEF m
  <2> QED
    BY <1>1 DEF bytes, FoldLeft, MapThenFoldSet
<1> HIDE DEF m, step
<1>4. PICK g \in [SUBSET (1..m) -> Nat] : LeftFold(g, m, 0, step)
  BY <1>1, <1>2, LeftFoldExists
<1>5. Folds(g)
  <2>1. ASSUME NEW s \in SUBSET (1..m), s # {} PROVE g[s] = g[s \ {Max(s)}] + LineBytes(lines[Max(s)])
    <3>1. Max(s) \in 1..m /\ g[s \ {Max(s)}] \in Nat
      BY <1>1, <2>1, GreatestPosition
    <3> QED
      BY <1>2, <1>4, <2>1, <3>1 DEF LeftFold
  <2> QED
    BY <1>4, <2>1 DEF LeftFold
<1>6. PICK it : Folds(it) /\ bytes(lines) = it[1..m]
  BY <1>3, <1>5
<1>7. it[{}] = 0
  BY <1>6
<1>8. ASSUME NEW s \in SUBSET (1..m), s # {}, it[s \ {Max(s)}] \in Nat
      PROVE  it[s] = step[<<it[s \ {Max(s)}], Max(s)>>]
  <2>1. Max(s) \in 1..m
    BY <1>1, <1>8, GreatestPosition
  <2> QED
    BY <1>2, <1>6, <1>8, <2>1
<1>9. PICK run \in [0..m -> Nat] : Runs(run, m, 0, step) /\ it[1..m] = run[m]
  <2>1. FoldsIn(it, Nat, m, 0, step)
    BY <1>7, <1>8 DEF FoldsIn
  <2>2. HasRun(it, Nat, m, 0, step)
    BY <1>1, <1>2, <2>1, FoldRuns
  <2> QED
    BY <2>2 DEF HasRun
<1>10. \A k \in 1..m : run[k] = run[k - 1] + LineBytes(lines[k])
  <2>1. \A k \in 1..m : run[k - 1] \in Nat
    BY <1>1
  <2> QED
    BY <1>2, <1>9, <2>1 DEF Runs
<1> QED
  BY <1>6, <1>9, <1>10 DEF Sums, Runs, m

LEMMA BytesType == ASSUME NEW lines \in Seq(Lines) PROVE bytes(lines) \in Nat
BY BytesRun DEF Sums

(* Lines of the same sizes are as long together. *)
LEMMA SameSize ==
  ASSUME NEW one \in Seq(Lines), NEW other \in Seq(Lines), Len(one) = Len(other),
         \A i \in 1..Len(one) : LineBytes(one[i]) = LineBytes(other[i])
  PROVE  bytes(one) = bytes(other)
<1> DEFINE m == Len(one)
<1>1. PICK r1 : Sums(r1, one) /\ bytes(one) = r1[m]
  BY BytesRun
<1>2. PICK r2 : Sums(r2, other) /\ bytes(other) = r2[m]
  BY BytesRun
<1>3. m \in Nat
  OBVIOUS
<1> DEFINE T == {k \in 0..m : r1[k] = r2[k]}
<1>4. 0 \in T
  BY <1>1, <1>2, <1>3 DEF Sums
<1>5. ASSUME NEW k \in 1..m, k - 1 \in T PROVE k \in T
  <2>1. r1[k] = r1[k - 1] + LineBytes(one[k]) /\ r2[k] = r2[k - 1] + LineBytes(other[k])
    BY <1>1, <1>2 DEF Sums
  <2> QED
    BY <1>5, <2>1
<1>6. \A k \in 0..m : k \in T
  <2> HIDE DEF T, m
  <2> QED
    BY <1>3, <1>4, <1>5, UpToLast
<1> QED
  BY <1>1, <1>2, <1>3, <1>6
-----------------------------------------------------------------------------
(* The elements at given positions are elements of the sequence, in order. *)
Picks(run, s, at) ==
  /\ run[0] = <<>>
  /\ \A k \in 1..Len(s) : run[k] = IF k \in at THEN Append(run[k - 1], s[k]) ELSE run[k - 1]

LEMMA ThoseRun ==
  ASSUME NEW S, NEW s \in Seq(S), NEW at
  PROVE  \E run \in [0..Len(s) -> Seq(S)] : Picks(run, s, at) /\ Those(s, at) = run[Len(s)]
<1> DEFINE m == Len(s)
           V == Seq(S)
           pos == [i \in 1..m |-> i]
           step == [w \in V \X (1..m) |-> IF w[2] \in at THEN Append(w[1], s[w[2]]) ELSE w[1]]
           Folds(it) == it = [r \in SUBSET (1..m) |->
                                IF r = {} THEN <<>>
                                ELSE IF pos[Max(r)] \in at THEN Append(it[r \ {Max(r)}], s[pos[Max(r)]])
                                     ELSE it[r \ {Max(r)}]]
<1>1. m \in Nat /\ DOMAIN s = 1..m /\ DOMAIN pos = 1..m /\ \A i \in 1..m : pos[i] = i /\ s[i] \in S
  OBVIOUS
<1>2. /\ step \in [V \X (1..m) -> V] /\ <<>> \in V
      /\ \A v \in V, i \in 1..m : step[<<v, i>>] = IF i \in at THEN Append(v, s[i]) ELSE v
  <2>1. \A v \in V, i \in 1..m : Append(v, s[i]) \in V
    BY <1>1
  <2> HIDE DEF V, m
  <2> QED
    BY <1>1, <2>1 DEF V
<1>3. Those(s, at) = (CHOOSE it : Folds(it))[1..m]
  <2>1. pos = [i \in DOMAIN s |-> i]
    BY <1>1
  <2> HIDE DEF m, pos
  <2> QED
    BY <1>1, <2>1 DEF Those, FoldLeft, MapThenFoldSet
<1> HIDE DEF m, step, V, pos
<1>4. PICK g \in [SUBSET (1..m) -> V] : LeftFold(g, m, <<>>, step)
  BY <1>1, <1>2, LeftFoldExists
<1>5. Folds(g)
  <2>1. ASSUME NEW r \in SUBSET (1..m), r # {}
        PROVE  g[r] = IF pos[Max(r)] \in at THEN Append(g[r \ {Max(r)}], s[pos[Max(r)]]) ELSE g[r \ {Max(r)}]
    <3>1. Max(r) \in 1..m /\ g[r \ {Max(r)}] \in V
      BY <1>1, <2>1, GreatestPosition
    <3>2. g[r] = step[<<g[r \ {Max(r)}], Max(r)>>]
      BY <1>4, <2>1 DEF LeftFold
    <3>3. pos[Max(r)] = Max(r)
      BY <1>1, <3>1
    <3> QED
      BY <1>2, <3>1, <3>2, <3>3
  <2> QED
    BY <1>4, <2>1 DEF LeftFold
<1>6. PICK it : Folds(it) /\ Those(s, at) = it[1..m]
  BY <1>3, <1>5
<1>7. FoldsIn(it, V, m, <<>>, step)
  <2>1. it[{}] = <<>>
    BY <1>6
  <2>2. ASSUME NEW r \in SUBSET (1..m), r # {}, it[r \ {Max(r)}] \in V
        PROVE  it[r] = step[<<it[r \ {Max(r)}], Max(r)>>]
    <3>1. Max(r) \in 1..m
      BY <1>1, <2>2, GreatestPosition
    <3>2. pos[Max(r)] = Max(r)
      BY <1>1, <3>1
    <3>3. it[r] = IF pos[Max(r)] \in at THEN Append(it[r \ {Max(r)}], s[pos[Max(r)]]) ELSE it[r \ {Max(r)}]
      BY <1>6, <2>2
    <3> DEFINE v == it[r \ {Max(r)}]
               i == Max(r)
    <3>4. v \in V /\ i \in 1..m /\ it[r] = IF i \in at THEN Append(v, s[i]) ELSE v
      BY <2>2, <3>1, <3>2, <3>3
    <3> HIDE DEF v, i
    <3>5. it[r] = step[<<v, i>>]
      BY <1>2, <3>4
    <3> QED
      BY <3>5 DEF v, i
  <2> QED
    BY <2>1, <2>2 DEF FoldsIn
<1>8. HasRun(it, V, m, <<>>, step)
  BY <1>1, <1>2, <1>7, FoldRuns
<1>9. PICK run \in [0..m -> V] : Runs(run, m, <<>>, step) /\ it[1..m] = run[m]
  BY <1>8 DEF HasRun
<1>10. \A k \in 1..m : run[k - 1] \in V
  BY <1>1
<1>11. Picks(run, s, at)
  BY <1>2, <1>9, <1>10 DEF Picks, Runs, m
<1> QED
  BY <1>6, <1>9, <1>11 DEF V, m

LEMMA ThoseType ==
  ASSUME NEW S, NEW s \in Seq(S), NEW at
  PROVE  Those(s, at) \in Seq(S)
BY ThoseRun

-----------------------------------------------------------------------------
(* A file is parsed line by line. *)
LEMMA SplitType ==
  ASSUME NEW z \in Parses, NEW l \in Lines
  PROVE  Split(z, l) \in Parses
<1>1. z.head \in Seq(Lines) /\ z.blocks \in Seq(Sections) /\ z = [head |-> z.head, blocks |-> z.blocks]
  BY DEF Parses
<1>2. CASE IsHeading(l)
  <2>1. Block(l) \in Sections
    BY <1>2 DEF Block, Sections, Heads
  <2>2. Append(z.blocks, Block(l)) \in Seq(Sections)
    BY <1>1, <2>1
  <2> QED
    BY <1>1, <1>2, <2>2 DEF Split, Parses
<1>3. CASE ~IsHeading(l) /\ z.blocks = <<>>
  <2>1. Append(z.head, l) \in Seq(Lines)
    BY <1>1
  <2>2. Split(z, l) = [z EXCEPT !.head = Append(z.head, l)]
    BY <1>3 DEF Split
  <2> QED
    BY <1>1, <2>1, <2>2 DEF Parses
<1>4. CASE ~IsHeading(l) /\ z.blocks # <<>>
  <2> DEFINE n == Len(z.blocks)
             b == z.blocks[n]
             blocks == [z.blocks EXCEPT ![n] = [b EXCEPT !.body = Append(b.body, l)]]
  <2>1. n \in 1..n /\ b \in Sections
    BY <1>1, <1>4
  <2>5. b.body \in Seq(Lines) /\ Append(b.body, l) \in Seq(Lines)
    BY <2>1 DEF Sections
  <2>2. [b EXCEPT !.body = Append(b.body, l)] \in Sections
    <3> HIDE DEF b
    <3> QED
      BY <2>1, <2>5 DEF Sections
  <2>3. blocks \in Seq(Sections)
    BY <1>1, <2>1, <2>2
  <2>4. Split(z, l) = [z EXCEPT !.blocks = blocks]
    BY <1>4 DEF Split
  <2> QED
    BY <1>1, <2>3, <2>4 DEF Parses
<1> QED
  BY <1>2, <1>3, <1>4

Empty == [head |-> <<>>, blocks |-> <<>>]
Splits(run, lines) == run[0] = Empty /\ \A k \in 1..Len(lines) : run[k] = Split(run[k - 1], lines[k])

LEMMA SplitRun ==
  ASSUME NEW lines \in Seq(Lines)
  PROVE  \E run \in [0..Len(lines) -> Parses] : Splits(run, lines) /\ FoldLeft(Split, Empty, lines) = run[Len(lines)]
<1> DEFINE m == Len(lines)
           step == [w \in Parses \X (1..m) |-> Split(w[1], lines[w[2]])]
           Folds(it) == it = [s \in SUBSET (1..m) |->
                                IF s = {} THEN Empty ELSE Split(it[s \ {Max(s)}], lines[Max(s)])]
<1>1. m \in Nat /\ DOMAIN lines = 1..m /\ \A i \in 1..m : lines[i] \in Lines
  OBVIOUS
<1>2. /\ step \in [Parses \X (1..m) -> Parses] /\ Empty \in Parses
      /\ \A v \in Parses, i \in 1..m : step[<<v, i>>] = Split(v, lines[i])
  <2>1. \A v \in Parses, i \in 1..m : Split(v, lines[i]) \in Parses
    BY <1>1, SplitType
  <2>2. Empty \in Parses
    BY DEF Empty, Parses
  <2> HIDE DEF m
  <2> QED
    BY <2>1, <2>2
<1>3. FoldLeft(Split, Empty, lines) = (CHOOSE it : Folds(it))[1..m]
  <2> HIDE DEF m
  <2> QED
    BY <1>1 DEF FoldLeft, MapThenFoldSet
<1> HIDE DEF m, step
<1>4. PICK g \in [SUBSET (1..m) -> Parses] : LeftFold(g, m, Empty, step)
  BY <1>1, <1>2, LeftFoldExists
<1>5. Folds(g)
  <2>1. ASSUME NEW s \in SUBSET (1..m), s # {} PROVE g[s] = Split(g[s \ {Max(s)}], lines[Max(s)])
    <3>1. Max(s) \in 1..m /\ g[s \ {Max(s)}] \in Parses
      BY <1>1, <2>1, GreatestPosition
    <3> QED
      BY <1>2, <1>4, <2>1, <3>1 DEF LeftFold
  <2> QED
    BY <1>4, <2>1 DEF LeftFold
<1>6. PICK it : Folds(it) /\ FoldLeft(Split, Empty, lines) = it[1..m]
  BY <1>3, <1>5
<1>7. FoldsIn(it, Parses, m, Empty, step)
  <2>1. it[{}] = Empty
    BY <1>6
  <2>2. ASSUME NEW s \in SUBSET (1..m), s # {}, it[s \ {Max(s)}] \in Parses
        PROVE  it[s] = step[<<it[s \ {Max(s)}], Max(s)>>]
    <3>1. Max(s) \in 1..m
      BY <1>1, <2>2, GreatestPosition
    <3> QED
      BY <1>2, <1>6, <2>2, <3>1
  <2> QED
    BY <2>1, <2>2 DEF FoldsIn
<1>8. HasRun(it, Parses, m, Empty, step)
  BY <1>1, <1>2, <1>7, FoldRuns
<1>9. PICK run \in [0..m -> Parses] : Runs(run, m, Empty, step) /\ it[1..m] = run[m]
  BY <1>8 DEF HasRun
<1>10. \A k \in 1..m : run[k - 1] \in Parses
  BY <1>1
<1>11. Splits(run, lines)
  BY <1>2, <1>9, <1>10 DEF Splits, Runs, m
<1> QED
  BY <1>6, <1>9, <1>11 DEF m

LEMMA ParseType ==
  ASSUME NEW file \in Files
  PROVE  parse(file) \in Parses
<1> DEFINE z == FoldLeft(Split, Empty, file.lines)
           n == Len(z.blocks)
<1>1. file.lines \in Seq(Lines) /\ file.ends \in BOOLEAN
  BY DEF Files
<1>2. z \in Parses
  <2>1. Len(file.lines) \in 0..Len(file.lines)
    BY <1>1
  <2> QED
    BY <1>1, <2>1, SplitRun
<1>3. parse(file) = IF z.blocks = <<>> THEN z ELSE [z EXCEPT !.blocks[n].ends = file.ends]
  BY DEF parse, Empty
<1> HIDE DEF z
<1>4. CASE z.blocks = <<>>
  BY <1>2, <1>3, <1>4
<1>5. CASE z.blocks # <<>>
  <2>1. z.blocks \in Seq(Sections) /\ z.head \in Seq(Lines) /\ n \in 1..n /\ z.blocks[n] \in Sections
    BY <1>2, <1>5 DEF Parses
  <2>2. [z.blocks[n] EXCEPT !.ends = file.ends] \in Sections
    BY <1>1, <2>1 DEF Sections
  <2>3. [z.blocks EXCEPT ![n] = [z.blocks[n] EXCEPT !.ends = file.ends]] \in Seq(Sections)
    BY <2>1, <2>2
  <2>4. parse(file) = [z EXCEPT !.blocks = [z.blocks EXCEPT ![n] = [z.blocks[n] EXCEPT !.ends = file.ends]]]
    BY <1>3, <1>5
  <2> QED
    BY <1>2, <2>3, <2>4 DEF Parses
<1> QED
  BY <1>4, <1>5

LEMMA OfKindType ==
  ASSUME NEW file \in Files, NEW kind
  PROVE  OfKind(file, kind) \in Seq(Sections)
<1>1. parse(file).blocks \in Seq(Sections)
  BY ParseType DEF Parses
<1> QED
  BY <1>1, ThoseType DEF OfKind, ThoseOfKind
LEMMA OfKindElements ==
  ASSUME NEW file \in Files, NEW kind, NEW n \in DOMAIN OfKind(file, kind)
  PROVE  OfKind(file, kind)[n] \in Range(parse(file).blocks)
<1> DEFINE all == parse(file).blocks
<1>1. all \in Seq(Sections)
  BY ParseType DEF Parses
<1>2. all \in Seq(Range(all))
  <2> HIDE DEF all
  <2>1. all = [i \in 1..Len(all) |-> all[i]] /\ \A i \in 1..Len(all) : all[i] \in Range(all)
    BY <1>1 DEF Range
  <2> QED
    BY <1>1, <2>1
<1>3. OfKind(file, kind) \in Seq(Range(all))
  <2> HIDE DEF all
  <2>1. \A at : Those(all, at) \in Seq(Range(all))
    BY <1>2, ThoseType
  <2> QED
    BY <2>1 DEF OfKind, ThoseOfKind, all
<1> HIDE DEF all
<1> QED
  BY <1>3 DEF all

(* What is picked of a sequence keeps its order: the place it came from.   *)
Embeds(g, k, s, at, r) ==
  /\ g \in [1..Len(r) -> 1..k]
  /\ \A i \in 1..Len(r) : g[i] \in at /\ r[i] = s[g[i]]
  /\ \A i, j \in 1..Len(r) : i < j => g[i] < g[j]
  /\ \A n \in 1..k : n \in at => \E i \in 1..Len(r) : g[i] = n
Embedded(k, s, at, r) == \E g : Embeds(g, k, s, at, r)

LEMMA EmbedMore ==
  ASSUME NEW S, NEW s \in Seq(S), NEW at, NEW k \in 1..Len(s), NEW r \in Seq(S), Embedded(k - 1, s, at, r)
  PROVE  Embedded(k, s, at, IF k \in at THEN Append(r, s[k]) ELSE r)
<1> DEFINE m == Len(r)
<1>1. PICK g : Embeds(g, k - 1, s, at, r)
  BY DEF Embedded
<1>2. k \in Nat /\ m \in Nat /\ \A n \in 1..k : n = k \/ n \in 1..(k - 1)
  OBVIOUS
<1>3. /\ g \in [1..m -> 1..(k - 1)] /\ \A i \in 1..m : g[i] \in at /\ r[i] = s[g[i]]
      /\ \A i, j \in 1..m : i < j => g[i] < g[j]
      /\ \A n \in 1..(k - 1) : n \in at => \E i \in 1..m : g[i] = n
  BY <1>1 DEF Embeds
<1>4. \A i \in 1..m : g[i] \in 1..k /\ g[i] < k
  BY <1>2, <1>3
<1>5. CASE k \notin at
  <2>1. g \in [1..m -> 1..k]
    BY <1>3, <1>4
  <2>2. \A n \in 1..k : n \in at => \E i \in 1..m : g[i] = n
    BY <1>2, <1>3, <1>5
  <2>3. Embeds(g, k, s, at, r)
    BY <1>3, <2>1, <2>2 DEF Embeds
  <2> QED
    BY <1>5, <2>3 DEF Embedded
<1>6. CASE k \in at
  <2> DEFINE q == Append(r, s[k])
             h == [i \in 1..(m + 1) |-> IF i = m + 1 THEN k ELSE g[i]]
  <2>1. Len(q) = m + 1 /\ q[m + 1] = s[k] /\ \A i \in 1..m : q[i] = r[i]
    BY <1>2
  <2>2. \A i \in 1..(m + 1) : i = m + 1 \/ (i \in 1..m /\ i # m + 1)
    BY <1>2
  <2>3. m + 1 \in 1..(m + 1) /\ \A i \in 1..m : i \in 1..(m + 1) /\ i # m + 1
    BY <1>2
  <2>4. h[m + 1] = k /\ \A i \in 1..m : h[i] = g[i]
    BY <2>3
  <2>5. h \in [1..(m + 1) -> 1..k]
    <3>1. \A i \in 1..(m + 1) : (IF i = m + 1 THEN k ELSE g[i]) \in 1..k
      BY <1>2, <1>4, <2>2
    <3> QED
      BY <3>1
  <2> HIDE DEF q, h
  <2>6. \A i \in 1..(m + 1) : h[i] \in at /\ q[i] = s[h[i]]
    BY <1>3, <1>6, <2>1, <2>2, <2>4
  <2>7. ASSUME NEW i \in 1..(m + 1), NEW j \in 1..(m + 1), i < j PROVE h[i] < h[j]
    <3>1. i \in 1..m
      BY <1>2, <2>7
    <3>2. CASE j = m + 1
      BY <1>4, <2>4, <3>1, <3>2
    <3>3. CASE j \in 1..m
      BY <1>3, <2>4, <2>7, <3>1, <3>3
    <3> QED
      BY <2>2, <3>2, <3>3
  <2>8. ASSUME NEW n \in 1..k, n \in at PROVE \E i \in 1..(m + 1) : h[i] = n
    <3>1. CASE n = k
      BY <2>3, <2>4, <3>1
    <3>2. CASE n \in 1..(k - 1)
      <4>1. PICK i \in 1..m : g[i] = n
        BY <1>3, <2>8, <3>2
      <4> QED
        BY <2>3, <2>4, <4>1
    <3> QED
      BY <1>2, <3>1, <3>2
  <2>9. Embeds(h, k, s, at, q)
    BY <2>1, <2>5, <2>6, <2>7, <2>8 DEF Embeds
  <2> QED
    BY <1>6, <2>9 DEF Embedded, q
<1> QED
  BY <1>5, <1>6

LEMMA ThoseEmbedded ==
  ASSUME NEW S, NEW s \in Seq(S), NEW at
  PROVE  Embedded(Len(s), s, at, Those(s, at))
<1> DEFINE m == Len(s)
<1>1. PICK run \in [0..m -> Seq(S)] : Picks(run, s, at) /\ Those(s, at) = run[m]
  BY ThoseRun
<1>2. m \in Nat /\ run[0] = <<>> /\ \A k \in 1..m : run[k] = IF k \in at THEN Append(run[k - 1], s[k]) ELSE run[k - 1]
  BY <1>1 DEF Picks
<1> DEFINE T == {k \in 0..m : Embedded(k, s, at, run[k])}
<1>3. 0 \in T
  <2>1. \A g : g \in [1..0 -> 1..0] => Embeds(g, 0, s, at, <<>>)
    BY DEF Embeds
  <2>2. [i \in 1..0 |-> i] \in [1..0 -> 1..0]
    OBVIOUS
  <2>3. Embedded(0, s, at, <<>>)
    BY <2>1, <2>2 DEF Embedded
  <2> QED
    BY <1>2, <2>3
<1>4. ASSUME NEW k \in 1..m, k - 1 \in T PROVE k \in T
  <2>1. run[k - 1] \in Seq(S) /\ k \in 0..m /\ Embedded(k - 1, s, at, run[k - 1])
    BY <1>2, <1>4
  <2>2. Embedded(k, s, at, IF k \in at THEN Append(run[k - 1], s[k]) ELSE run[k - 1])
    BY <2>1, EmbedMore
  <2> QED
    BY <1>2, <2>1, <2>2
<1>5. \A k \in 0..m : k \in T
  <2> HIDE DEF T, m
  <2> QED
    BY <1>2, <1>3, <1>4, UpToLast
<1>6. m \in 0..m
  BY <1>2
<1> QED
  BY <1>1, <1>5, <1>6

LEMMA ThoseFrom ==
  ASSUME NEW S, NEW s \in Seq(S), NEW at, NEW j \in 1..Len(Those(s, at))
  PROVE  \E k \in 1..Len(s) : /\ k \in at /\ Those(s, at)[j] = s[k]
                              /\ j # Len(Those(s, at)) => k # Len(s)
<1> DEFINE r == Those(s, at)
           m == Len(r)
<1>1. PICK g : Embeds(g, Len(s), s, at, r)
  BY ThoseEmbedded DEF Embedded
<1>2. r \in Seq(S)
  BY ThoseType
<1> HIDE DEF r
<1>3. m \in Nat /\ Len(s) \in Nat
  BY <1>2
<1>4. /\ g \in [1..m -> 1..Len(s)] /\ \A i \in 1..m : g[i] \in at /\ r[i] = s[g[i]]
      /\ \A i, k \in 1..m : i < k => g[i] < g[k]
  BY <1>1 DEF Embeds
<1>5. j \in 1..m
  BY DEF r
<1>6. ASSUME j # m PROVE g[j] # Len(s)
  <2>1. m \in 1..m /\ j < m
    BY <1>3, <1>5, <1>6
  <2>2. g[j] < g[m] /\ g[m] \in 1..Len(s) /\ g[j] \in 1..Len(s)
    BY <1>4, <1>5, <2>1
  <2> QED
    BY <1>3, <2>2
<1>7. g[j] \in 1..Len(s) /\ g[j] \in at /\ r[j] = s[g[j]]
  BY <1>4, <1>5
<1> QED
  BY <1>6, <1>7 DEF r

LEMMA ThoseHas ==
  ASSUME NEW S, NEW s \in Seq(S), NEW at, NEW k \in 1..Len(s), k \in at
  PROVE  \E j \in 1..Len(Those(s, at)) : Those(s, at)[j] = s[k]
<1> DEFINE r == Those(s, at)
<1>1. PICK g : Embeds(g, Len(s), s, at, r)
  BY ThoseEmbedded DEF Embedded
<1> HIDE DEF r
<1>2. PICK i \in 1..Len(r) : g[i] = k
  BY <1>1 DEF Embeds
<1>3. r[i] = s[k]
  BY <1>1, <1>2 DEF Embeds
<1> QED
  BY <1>3 DEF r

LEMMA FileTypes ==
  ASSUME NEW t \in Ledgers, NEW f \in {Root} \cup Volumes
  PROVE  t[f] \in Files /\ releases(t[f]) \in Seq(Sections)
BY OfKindType DEF Ledgers, releases

-----------------------------------------------------------------------------
(* What rotation makes of sections. *)
LEMMA TextType ==
  ASSUME NEW b \in Sections
  PROVE  /\ Text(b) \in Seq(Lines) /\ Len(Text(b)) = Len(b.body) + 1 /\ Text(b)[1] = b.h
         /\ \A n \in 1..Len(b.body) : Text(b)[n + 1] = b.body[n]
<1>1. b.h \in Lines /\ b.body \in Seq(Lines)
  BY LineTypes DEF Sections
<1> QED
  BY <1>1 DEF Text

Deeper(l) == [l EXCEPT !.up = IF l.up = 0 THEN 0 ELSE l.up + 1]

LEMMA DeeperFields ==
  ASSUME NEW l \in Lines
  PROVE  /\ Deeper(l) \in Lines /\ LineBytes(Deeper(l)) = LineBytes(l)
         /\ Points(Deeper(l), TRUE) = l /\ Points(l, FALSE) = l
<1>1. Deeper(l) \in Lines /\ LineBytes(Deeper(l)) = LineBytes(l)
  BY DEF Deeper, Lines, LineBytes, IsHeading
<1>2. Points(l, FALSE) = l
  BY DEF Points, Lines
<1>3. Points(Deeper(l), TRUE) = l
  <2>1. l.up \in Nat
    BY DEF Lines
  <2>2. Deeper(l).up = (IF l.up = 0 THEN 0 ELSE l.up + 1)
    BY DEF Deeper, Lines
  <2>3. Points(Deeper(l), TRUE) = [Deeper(l) EXCEPT !.up = l.up]
    BY <2>1, <2>2 DEF Points
  <2> QED
    BY <2>3 DEF Deeper, Lines
<1> QED
  BY <1>1, <1>2, <1>3

LEMMA ToVolumeFields ==
  ASSUME NEW b \in Sections
  PROVE  /\ toVolume(b) \in Sections /\ toVolume(b).h = b.h /\ Len(toVolume(b).body) = Len(b.body)
         /\ \A n \in 1..Len(b.body) : toVolume(b).body[n] = Deeper(b.body[n])
<1> DEFINE body == [n \in DOMAIN b.body |-> Deeper(b.body[n])]
<1>1. b.body \in Seq(Lines) /\ DOMAIN b.body = 1..Len(b.body) /\ \A n \in DOMAIN b.body : b.body[n] \in Lines
  BY DEF Sections
<1>2. \A l \in Lines : [l EXCEPT !.up = [u \in Nat |-> IF u = 0 THEN 0 ELSE u + 1][l.up]] = Deeper(l)
  BY DEF Deeper, Lines
<1>3. toVolume(b) = [b EXCEPT !.body = body]
  <2> DEFINE up == [u \in Nat |-> IF u = 0 THEN 0 ELSE u + 1]
             links == [n \in DOMAIN b.body |-> [b.body[n] EXCEPT !.up = up[b.body[n].up]]]
  <2>1. links = body
    BY <1>1, <1>2
  <2>2. toVolume(b) = [b EXCEPT !.body = links]
    BY DEF toVolume, MapLinks
  <2> HIDE DEF links, body
  <2> QED
    BY <2>1, <2>2
<1>4. body \in Seq(Lines) /\ Len(body) = Len(b.body)
  <2>1. \A n \in 1..Len(b.body) : Deeper(b.body[n]) \in Lines
    BY <1>1, DeeperFields
  <2>2. body = [n \in 1..Len(b.body) |-> Deeper(b.body[n])] /\ Len(b.body) \in Nat
    BY <1>1
  <2> QED
    BY <2>1, <2>2
<1> HIDE DEF body
<1>5. toVolume(b) \in Sections /\ toVolume(b).h = b.h /\ toVolume(b).body = body
  BY <1>3, <1>4 DEF Sections
<1> QED
  BY <1>1, <1>4, <1>5 DEF body

(* A section that is moved says the same from where it is, in as many bytes. *)
LEMMA MovedSaysTheSame ==
  ASSUME NEW b \in Sections
  PROVE  Said(toVolume(b), TRUE) = Said(b, FALSE) /\ bytes(Text(toVolume(b))) = bytes(Text(b))
<1> DEFINE v == toVolume(b)
           m == Len(b.body) + 1
<1>1. v \in Sections /\ v.h = b.h /\ Len(v.body) = Len(b.body)
      /\ \A n \in 1..Len(b.body) : v.body[n] = Deeper(b.body[n])
  BY ToVolumeFields
<1>2. b.body \in Seq(Lines) /\ b.h \in Lines /\ b.h.up = 0
  BY DEF Sections, Heads, Lines
<1> HIDE DEF v
<1>3. Text(b) \in Seq(Lines) /\ Text(v) \in Seq(Lines) /\ Len(Text(b)) = m /\ Len(Text(v)) = m
  BY <1>1, TextType
<1>4. Text(b)[1] = b.h /\ Text(v)[1] = b.h
  BY <1>1, TextType
<1>5. ASSUME NEW n \in 1..m, n # 1
      PROVE  Text(b)[n] \in Lines /\ Text(v)[n] = Deeper(Text(b)[n])
  <2>1. n - 1 \in 1..Len(b.body) /\ (n - 1) + 1 = n
    BY <1>2, <1>5
  <2>2. Text(b)[n] = b.body[n - 1] /\ Text(v)[n] = v.body[n - 1]
    BY <1>1, <2>1, TextType
  <2> QED
    BY <1>1, <1>2, <2>1, <2>2
<1>6. Points(b.h, TRUE) = b.h /\ Points(b.h, FALSE) = b.h
  BY <1>2 DEF Points, Lines
<1>7. \A n \in 1..m : Points(Text(v)[n], TRUE) = Points(Text(b)[n], FALSE)
                      /\ LineBytes(Text(v)[n]) = LineBytes(Text(b)[n])
  BY <1>4, <1>5, <1>6, DeeperFields
<1>8. DOMAIN Text(b) = 1..m /\ DOMAIN Text(v) = 1..m
  BY <1>3
<1>9. Said(v, TRUE) = Said(b, FALSE)
  BY <1>7, <1>8 DEF Said
<1>10. bytes(Text(v)) = bytes(Text(b))
  BY <1>3, <1>7, SameSize
<1> QED
  BY <1>9, <1>10 DEF v
-----------------------------------------------------------------------------
(* What the check lets in changes the record as LedgerRecord allows. *)
LEMMA VolumesAreNoRoot == Root \notin Volumes /\ \A t : VolumesOf(t) \subseteq Volumes
BY DEF Root, Volumes, VolumesOf

LEMMA SectionTypes ==
  ASSUME NEW t \in Ledgers
  PROVE  /\ \A f \in {Root} \cup Volumes : InFile(t, f) \subseteq Sections
         /\ InVolumes(t) \subseteq Sections
<1>1. \A f \in {Root} \cup Volumes : InFile(t, f) \subseteq Sections
  BY FileTypes DEF InFile, Range
<1> QED
  BY <1>1, VolumesAreNoRoot DEF InVolumes

LEMMA SizeType == ASSUME NEW b \in Sections PROVE bytes(Text(b)) \in Nat
BY TextType, BytesType

LEMMA EntryFields ==
  ASSUME NEW b
  PROVE  /\ Entry(b, TRUE).heading = b.h /\ Entry(b, TRUE).text = Said(b, TRUE)
         /\ Entry(b, TRUE).size = bytes(Text(b)) /\ Entry(b, TRUE).archived
         /\ Entry(b, FALSE).heading = b.h /\ Entry(b, FALSE).text = Said(b, FALSE)
         /\ Entry(b, FALSE).size = bytes(Text(b)) /\ ~Entry(b, FALSE).archived
BY DEF Entry

(* Each section of the base has a successor in the branch. *)
LEMMA RootSectionKept ==
  ASSUME main \in Ledgers, tree \in Ledgers, Preserves(tree, main), NEW b \in InFile(main, Root)
  PROVE  \E new \in Record(tree) : L!Kept(Entry(b, FALSE), new)
<1>0. b \in Sections /\ BULLET_MAX_BYTES \in Nat
  BY SectionTypes, BoundsAreNatural
<1>1. CASE b.h \in Headings(InFile(tree, Root))
  <2>1. PICK c \in InFile(tree, Root) : c.h = b.h
    BY <1>1 DEF Headings
  <2>2. bytes(Text(c)) - bytes(Text(b)) <= BULLET_MAX_BYTES
    BY <2>1 DEF Preserves
  <2>3. L!Kept(Entry(b, FALSE), Entry(c, FALSE))
    BY <2>1, <2>2, EntryFields DEF L!Kept, L!Kin
  <2> QED
    BY <2>3 DEF Record
<1>2. CASE b.h \notin Headings(InFile(tree, Root))
  <2>1. PICK c \in InVolumes(tree) : c.h = b.h /\ c = toVolume(b)
    BY <1>2 DEF Preserves, SameText
  <2>2. Said(c, TRUE) = Said(b, FALSE) /\ bytes(Text(c)) = bytes(Text(b)) /\ bytes(Text(b)) \in Nat
    BY <1>0, <2>1, MovedSaysTheSame, SizeType
  <2> DEFINE old == Entry(b, FALSE)
             new == Entry(c, TRUE)
  <2>4. new.size - old.size <= BULLET_MAX_BYTES
    <3>1. new.size = bytes(Text(b)) /\ old.size = bytes(Text(b))
      BY <2>2, EntryFields
    <3> HIDE DEF old, new
    <3> QED
      BY <1>0, <2>2, <3>1
  <2>5. new.heading = old.heading /\ new.text = old.text /\ ~old.archived
    BY <2>1, <2>2, EntryFields
  <2> HIDE DEF old, new
  <2>6. L!Kept(old, new)
    BY <2>4, <2>5 DEF L!Kept, L!Kin
  <2>3. L!Kept(Entry(b, FALSE), Entry(c, TRUE))
    BY <2>6 DEF old, new
  <2> QED
    BY <2>3 DEF Record
<1> QED
  BY <1>1, <1>2

LEMMA ArchivedSectionKept ==
  ASSUME main \in Ledgers, tree \in Ledgers, Preserves(tree, main), NEW b \in InVolumes(main)
  PROVE  \E new \in Record(tree) : L!Kept(Entry(b, TRUE), new)
<1>1. b \in InVolumes(tree)
  BY DEF Preserves, SameText
<1>2. bytes(Text(b)) \in Nat /\ BULLET_MAX_BYTES \in Nat
  BY SectionTypes, SizeType, BoundsAreNatural
<1> DEFINE e == Entry(b, TRUE)
<1>4. e.size \in Nat
  BY <1>2, EntryFields
<1> HIDE DEF e
<1>5. e.size - e.size <= BULLET_MAX_BYTES
  BY <1>2, <1>4
<1>6. L!Kept(e, e)
  BY <1>5 DEF L!Kept, L!Kin
<1>3. L!Kept(Entry(b, TRUE), Entry(b, TRUE))
  BY <1>6 DEF e
<1> QED
  BY <1>1, <1>3 DEF Record

(* A heading stands in one place of one file. *)
LEMMA OneOfAHeading ==
  ASSUME NEW t, Distinct(t), NEW f \in {Root} \cup Volumes, NEW g \in {Root} \cup Volumes,
         NEW n \in DOMAIN releases(t[f]), NEW m \in DOMAIN releases(t[g]), releases(t[f])[n].h = releases(t[g])[m].h
  PROVE  f = g /\ n = m
<1> DEFINE heads == [p \in Places(t) |-> releases(t[p[1]])[p[2]].h]
<1>1. <<f, n>> \in Places(t) /\ <<g, m>> \in Places(t)
  BY DEF Places
<1>2. heads[<<f, n>>] = releases(t[f])[n].h /\ heads[<<g, m>>] = releases(t[g])[m].h
  BY <1>1
<1>3. <<f, n>> = <<g, m>>
  <2>1. \A p, q \in Places(t) : heads[p] = heads[q] => p = q
    BY DEF Distinct, IsInjective
  <2> HIDE DEF heads
  <2> QED
    BY <1>1, <1>2, <2>1
<1> QED
  BY <1>3

LEMMA OnePlace ==
  ASSUME NEW t, Distinct(t), NEW f \in {Root} \cup Volumes, NEW g \in {Root} \cup Volumes,
         NEW b \in InFile(t, f), NEW c \in InFile(t, g), b.h = c.h
  PROVE  f = g /\ b = c
<1>1. PICK n \in DOMAIN releases(t[f]) : b = releases(t[f])[n]
  BY DEF InFile, Range
<1>2. PICK m \in DOMAIN releases(t[g]) : c = releases(t[g])[m]
  BY DEF InFile, Range
<1>3. f = g /\ n = m
  BY <1>1, <1>2, OneOfAHeading
<1> QED
  BY <1>1, <1>2, <1>3

LEMMA OneEntry ==
  ASSUME NEW t, Distinct(t), NEW one \in Record(t), NEW other \in Record(t), one.heading = other.heading
  PROVE  one = other
<1>1. ASSUME NEW e \in Record(t)
      PROVE  \E f \in {Root} \cup Volumes : \E b \in InFile(t, f) : e = Entry(b, f # Root)
  <2>1. CASE \E b \in InFile(t, Root) : e = Entry(b, FALSE)
    <3>1. (Root # Root) = FALSE
      OBVIOUS
    <3> QED
      BY <2>1, <3>1
  <2>2. CASE \E b \in InVolumes(t) : e = Entry(b, TRUE)
    <3>1. PICK b \in InVolumes(t) : e = Entry(b, TRUE)
      BY <2>2
    <3>2. PICK m \in Volumes : b \in InFile(t, m)
      BY VolumesAreNoRoot DEF InVolumes
    <3>3. (m # Root) = TRUE
      BY VolumesAreNoRoot
    <3>4. e = Entry(b, m # Root)
      BY <3>1, <3>3
    <3> QED
      BY <3>2, <3>4
  <2> QED
    BY <2>1, <2>2 DEF Record
<1>2. PICK f \in {Root} \cup Volumes : \E b \in InFile(t, f) : one = Entry(b, f # Root)
  BY <1>1
<1>3. PICK b \in InFile(t, f) : one = Entry(b, f # Root)
  BY <1>2
<1>4. PICK g \in {Root} \cup Volumes : \E c \in InFile(t, g) : other = Entry(c, g # Root)
  BY <1>1
<1>5. PICK c \in InFile(t, g) : other = Entry(c, g # Root)
  BY <1>4
<1>6. b.h = c.h
  BY <1>3, <1>5, EntryFields
<1>7. f = g /\ b = c
  BY <1>6, OnePlace
<1> QED
  BY <1>3, <1>5, <1>7

LEMMA LetInChanges ==
  ASSUME main \in Ledgers, tree \in Ledgers, Structure(tree), Preserves(tree, main)
  PROVE  L!Changed(Record(main), Record(tree))
<1>1. \A old \in Record(main) : \E new \in Record(tree) : L!Kept(old, new)
  BY RootSectionKept, ArchivedSectionKept DEF Record
<1>2. ASSUME NEW new \in Record(tree), \A old \in Record(main) : ~L!Kin(old, new)
      PROVE  ~new.archived
  <2> SUFFICES ASSUME NEW b \in InVolumes(tree), new = Entry(b, TRUE) PROVE FALSE
    BY EntryFields DEF Record
  <2>1. PICK a \in InVolumes(main) \cup InFile(main, Root) : a.h = b.h
    BY DEF Preserves, Headings
  <2>2. PICK old \in Record(main) : old = Entry(a, FALSE) \/ old = Entry(a, TRUE)
    BY <2>1 DEF Record
  <2>3. old.heading = a.h /\ new.heading = b.h
    BY <2>2, EntryFields
  <2> QED
    BY <1>2, <2>1, <2>3 DEF L!Kin
<1>3. \A one, other \in Record(tree) : L!Kin(one, other) => one = other
  <2>1. Distinct(tree)
    BY DEF Structure
  <2> QED
    BY <2>1, OneEntry DEF L!Kin
<1> QED
  BY <1>1, <1>2, <1>3 DEF L!Changed
-----------------------------------------------------------------------------
(* What rotation writes are files. *)
LEMMA GlueType ==
  ASSUME NEW z \in Files, NEW b \in Sections
  PROVE  Glue(z, b) \in Files
<1>1. z.lines \in Seq(Lines) /\ b.body \in Seq(Lines) /\ b.ends \in BOOLEAN /\ Text(b) \in Seq(Lines)
  BY TextType DEF Files, Sections
<1>2. CASE z.ends
  <2>1. z.lines \o Text(b) \in Seq(Lines)
    BY <1>1
  <2> QED
    BY <1>1, <1>2, <2>1 DEF Glue, File, Files
<1>3. CASE ~z.ends
  <2> DEFINE n == Len(z.lines)
             lines == [z.lines EXCEPT ![n].glued = TRUE]
  <2>1. lines \in Seq(Lines)
    <3>1. CASE n = 0
      <4>1. n \notin DOMAIN z.lines
        BY <1>1, <3>1
      <4>2. lines = z.lines
        BY <1>1, <4>1
      <4> QED
        BY <1>1, <4>2
    <3>2. CASE n # 0
      <4>1. n \in 1..n /\ z.lines[n] \in Lines
        BY <1>1, <3>2
      <4>2. [z.lines[n] EXCEPT !.glued = TRUE] \in Lines
        BY <4>1 DEF Lines, IsHeading
      <4> QED
        BY <1>1, <4>1, <4>2
    <3> QED
      BY <3>1, <3>2
  <2> HIDE DEF lines
  <2>2. lines \o b.body \in Seq(Lines)
    BY <1>1, <2>1
  <2> QED
    BY <1>1, <1>3, <2>2 DEF Glue, File, Files, lines
<1> QED
  BY <1>2, <1>3

Glues(run, head, blocks) == run[0] = File(head, TRUE) /\ \A k \in 1..Len(blocks) : run[k] = Glue(run[k - 1], blocks[k])

LEMMA RenderRun ==
  ASSUME NEW head \in Seq(Lines), NEW blocks \in Seq(Sections)
  PROVE  \E run \in [0..Len(blocks) -> Files] : Glues(run, head, blocks) /\ Render(head, blocks) = run[Len(blocks)]
<1> DEFINE m == Len(blocks)
           base == File(head, TRUE)
           step == [w \in Files \X (1..m) |-> Glue(w[1], blocks[w[2]])]
           Folds(it) == it = [s \in SUBSET (1..m) |->
                                IF s = {} THEN base ELSE Glue(it[s \ {Max(s)}], blocks[Max(s)])]
<1>1. m \in Nat /\ DOMAIN blocks = 1..m /\ \A i \in 1..m : blocks[i] \in Sections
  OBVIOUS
<1>2. base \in Files
  BY DEF File, Files
<1>3. /\ step \in [Files \X (1..m) -> Files]
      /\ \A v \in Files, i \in 1..m : step[<<v, i>>] = Glue(v, blocks[i])
  <2>1. \A v \in Files, i \in 1..m : Glue(v, blocks[i]) \in Files
    BY <1>1, GlueType
  <2> HIDE DEF m
  <2> QED
    BY <2>1
<1>4. Render(head, blocks) = (CHOOSE it : Folds(it))[1..m]
  <2> HIDE DEF m
  <2> QED
    BY <1>1 DEF Render, FoldLeft, MapThenFoldSet
<1> HIDE DEF m, step, base
<1>5. PICK g \in [SUBSET (1..m) -> Files] : LeftFold(g, m, base, step)
  BY <1>1, <1>2, <1>3, LeftFoldExists
<1>6. Folds(g)
  <2>1. ASSUME NEW s \in SUBSET (1..m), s # {} PROVE g[s] = Glue(g[s \ {Max(s)}], blocks[Max(s)])
    <3>1. Max(s) \in 1..m /\ g[s \ {Max(s)}] \in Files
      BY <1>1, <2>1, GreatestPosition
    <3> QED
      BY <1>3, <1>5, <2>1, <3>1 DEF LeftFold
  <2> QED
    BY <1>5, <2>1 DEF LeftFold
<1>7. PICK it : Folds(it) /\ Render(head, blocks) = it[1..m]
  BY <1>4, <1>6
<1>8. FoldsIn(it, Files, m, base, step)
  <2>1. it[{}] = base
    BY <1>7
  <2>2. ASSUME NEW s \in SUBSET (1..m), s # {}, it[s \ {Max(s)}] \in Files
        PROVE  it[s] = step[<<it[s \ {Max(s)}], Max(s)>>]
    <3>1. Max(s) \in 1..m
      BY <1>1, <2>2, GreatestPosition
    <3> QED
      BY <1>3, <1>7, <2>2, <3>1
  <2> QED
    BY <2>1, <2>2 DEF FoldsIn
<1>9. HasRun(it, Files, m, base, step)
  BY <1>1, <1>2, <1>3, <1>8, FoldRuns
<1>10. PICK run \in [0..m -> Files] : Runs(run, m, base, step) /\ it[1..m] = run[m]
  BY <1>9 DEF HasRun
<1>11. \A k \in 1..m : run[k - 1] \in Files
  BY <1>1
<1>12. Glues(run, head, blocks)
  BY <1>3, <1>10, <1>11 DEF Glues, Runs, m, base
<1> QED
  BY <1>7, <1>10, <1>12 DEF m

LEMMA RenderType ==
  ASSUME NEW head \in Seq(Lines), NEW blocks \in Seq(Sections)
  PROVE  Render(head, blocks) \in Files
<1>1. Len(blocks) \in 0..Len(blocks)
  OBVIOUS
<1> QED
  BY <1>1, RenderRun

LEMMA VolumeNumbers ==
  /\ Volumes = 1..Max(Volumes) /\ Max(Volumes) \in Nat /\ Max(Volumes) # 0
  /\ \A d \in Nat : Month(d) \in Nat
<1>1. \A d \in Nat : Month(d) \in Nat
  BY DEF Month
<1>2. MaxReleases \in Nat
  BY BoundsAreNatural
<1> DEFINE n == Month(MaxReleases + 1)
<1>3. n \in Nat /\ n # 0
  BY <1>2 DEF Month
<1>4. Volumes = 1..n
  BY DEF Volumes
<1> HIDE DEF n
<1>5. Max(1..n) = n
  BY <1>3, LastIndex
<1> QED
  BY <1>1, <1>3, <1>4, <1>5

LEMMA MonthsType ==
  ASSUME NEW t, NEW moved \in Seq(Sections)
  PROVE  Months(t, moved) \in SUBSET Nat
<1>1. VolumesOf(t) \subseteq Nat
  BY SMTT(30), VolumesAreNoRoot, VolumeNumbers
<1>4. \A b \in Sections : b.h.d \in Nat
  BY DEF Sections, Heads, Lines
<1>5. \A b \in Range(moved) : b \in Sections
  BY DEF Range
<1>2. \A b \in Range(moved) : b.h.d \in Nat
  BY <1>4, <1>5
<1>3. \A d \in Dates(moved) : Month(d) \in Nat
  BY <1>2, VolumeNumbers DEF Dates
<1> QED
  BY <1>1, <1>3 DEF Months

LEMMA ShrinkCuts ==
  ASSUME NEW t \in Ledgers
  PROVE  \E k \in 0..Len(releases(t[Root])) : Shrink(t) = Cut(releases(t[Root]), k)
<1> DEFINE root == releases(t[Root])
           cuts == {k \in 0..Len(root) : EndsDate(root, k) /\ MayStop(t, Cut(root, k))}
<1>1. root \in Seq(Sections)
  BY FileTypes
<1>2. Shrink(t) = Cut(root, Max(cuts))
  BY DEF Shrink, Shortened
<1> HIDE DEF root
<1>3. 0 \in cuts
  <2>1. Cut(root, 0).keep = <<>>
    BY <1>1 DEF Cut
  <2>2. Dates(Cut(root, 0).keep) = {}
    BY <2>1 DEF Dates, Range
  <2>3. Cardinality(Dates(Cut(root, 0).keep)) = 0
    BY <2>2, FS_EmptySet
  <2> QED
    BY <1>1, <2>3 DEF EndsDate, MayStop
<1>4. Max(cuts) \in 0..Len(root)
  <2>1. cuts \in SUBSET (0..Len(root)) /\ cuts # {} /\ Len(root) \in Nat
    BY <1>1, <1>3
  <2> HIDE DEF cuts
  <2> QED
    BY <2>1, GreatestIndex
<1> QED
  BY <1>2, <1>4 DEF root

LEMMA ShrinkType ==
  ASSUME NEW t \in Ledgers
  PROVE  Shrink(t).keep \in Seq(Sections) /\ Shrink(t).moved \in Seq(Sections)
<1> DEFINE root == releases(t[Root])
<1>1. root \in Seq(Sections)
  BY FileTypes
<1>2. PICK k \in 0..Len(root) : Shrink(t) = Cut(root, k)
  BY ShrinkCuts
<1> HIDE DEF root
<1> QED
  BY <1>1, <1>2 DEF Cut

(* The sections a volume will have, and those of the root. *)
volume(t, moved, m) == InVolume(incoming(moved, m)) \o (IF m \in VolumesOf(t) THEN releases(t[m]) ELSE <<>>)
rootHead(t, months) == WithoutIndex(parse(t[Root]).head) \o (IF months = {} THEN <<>> ELSE <<indexLine(months)>>)
rootBlocks(t, keep) == <<OfKind(t[Root], "unreleased")[1]>> \o keep

LEMMA VolumeType ==
  ASSUME NEW t \in Ledgers, NEW moved \in Seq(Sections), NEW m \in Volumes
  PROVE  /\ incoming(moved, m) \in Seq(Sections) /\ InVolume(incoming(moved, m)) \in Seq(Sections)
         /\ Len(InVolume(incoming(moved, m))) = Len(incoming(moved, m))
         /\ releases(t[m]) \in Seq(Sections) /\ volume(t, moved, m) \in Seq(Sections)
<1> DEFINE s == incoming(moved, m)
<1>1. s \in Seq(Sections)
  BY ThoseType DEF incoming
<1> HIDE DEF s
<1>2. InVolume(s) \in Seq(Sections) /\ Len(InVolume(s)) = Len(s)
  <2>1. \A n \in 1..Len(s) : toVolume(s[n]) \in Sections
    BY <1>1, ToVolumeFields
  <2>2. InVolume(s) = [n \in 1..Len(s) |-> toVolume(s[n])] /\ Len(s) \in Nat
    BY <1>1 DEF InVolume
  <2> QED
    BY <2>1, <2>2
<1>3. releases(t[m]) \in Seq(Sections)
  BY FileTypes
<1> QED
  BY <1>1, <1>2, <1>3 DEF volume, s

LEMMA RootType ==
  ASSUME NEW t \in Ledgers, ~Dies(t), NEW keep \in Seq(Sections), NEW months \in SUBSET Nat
  PROVE  rootHead(t, months) \in Seq(Lines) /\ rootBlocks(t, keep) \in Seq(Sections)
<1> DEFINE unreleased == OfKind(t[Root], "unreleased")
<1>1. t[Root] \in Files
  BY FileTypes
<1>2. rootHead(t, months) \in Seq(Lines)
  <2>1. parse(t[Root]).head \in Seq(Lines)
    BY <1>1, ParseType DEF Parses
  <2>2. WithoutIndex(parse(t[Root]).head) \in Seq(Lines)
    BY <2>1, ThoseType DEF WithoutIndex
  <2>3. indexLine(months) \in Lines
    BY LineTypes
  <2> QED
    BY <2>2, <2>3 DEF rootHead
<1>3. rootBlocks(t, keep) \in Seq(Sections)
  <2>1. unreleased \in Seq(Sections)
    BY <1>1, OfKindType
  <2>2. Len(unreleased) = 1
    BY DEF Dies
  <2>3. unreleased[1] \in Sections
    BY <2>1, <2>2
  <2> HIDE DEF unreleased
  <2> QED
    BY <2>3 DEF rootBlocks, unreleased
<1> QED
  BY <1>2, <1>3

(* The order in which volumes are written: those there are, and those opened *)
(* by what is moved, each at the first section of its month.                *)
AllMonths == [m \in 1..Max(Volumes) |-> m]
MonthsOf(moved) == [n \in DOMAIN moved |-> Month(moved[n].h.d)]
InMonths(moved) == \A n \in 1..Len(moved) : Month(moved[n].h.d) \in Volumes

LEMMA MovedInMonths ==
  ASSUME NEW t \in Ledgers
  PROVE  InMonths(Shrink(t).moved)
<1> DEFINE file == t[Root]
           all == parse(file).blocks
           at == {k \in DOMAIN all : all[k].h.k = "release"}
           root == releases(file)
           moved == Shrink(t).moved
<1>1. all \in Seq(Sections) /\ root \in Seq(Sections)
  <2>1. file \in Files /\ root \in Seq(Sections)
    BY FileTypes
  <2> QED
    BY <2>1, ParseType DEF Parses
<1>2. root = Those(all, at)
  BY DEF releases, OfKind, ThoseOfKind
<1>3. PICK k \in 0..Len(root) : Shrink(t) = Cut(root, k)
  BY ShrinkCuts
<1>4. moved = SubSeq(root, k + 1, Len(root))
  BY <1>3 DEF Cut
<1> HIDE DEF all, root, moved
<1>5. ASSUME NEW n \in 1..Len(moved) PROVE \E i \in 1..Len(root) : moved[n] = root[i]
  <2>1. Len(root) \in Nat
    BY <1>1
  <2>2. Len(moved) = Len(root) - k /\ moved[n] = root[k + n] /\ k + n \in 1..Len(root)
    BY <1>1, <1>4, <2>1
  <2> QED
    BY <2>2
<1>6. ASSUME NEW i \in 1..Len(root) PROVE Month(root[i].h.d) \in Volumes
  <2>1. i \in 1..Len(Those(all, at))
    BY <1>2
  <2>0. \A j \in 1..Len(all) : j \in at => all[j] \in Sections /\ all[j].h.k = "release"
    BY <1>1
  <2> HIDE DEF at
  <2>2. PICK j \in 1..Len(all) : j \in at /\ Those(all, at)[i] = all[j]
    BY <1>1, <2>1, ThoseFrom
  <2>3. root[i] = all[j] /\ all[j] \in Sections /\ all[j].h.k = "release"
    BY <1>2, <2>0, <2>2
  <2> QED
    BY <2>3 DEF Sections, Heads, Lines
<1> QED
  BY <1>5, <1>6 DEF InMonths, moved

LEMMA MonthsTypes ==
  ASSUME NEW moved \in Seq(Sections), InMonths(moved)
  PROVE  /\ AllMonths \in Seq(Volumes) /\ Len(AllMonths) = Max(Volumes) /\ \A m \in Volumes : AllMonths[m] = m
         /\ MonthsOf(moved) \in Seq(Volumes) /\ Len(MonthsOf(moved)) = Len(moved)
         /\ \A n \in 1..Len(moved) : MonthsOf(moved)[n] = Month(moved[n].h.d)
<1> DEFINE N == Max(Volumes)
<1>1. N \in Nat /\ Volumes = 1..N
  BY VolumeNumbers
<1>2. AllMonths = [m \in 1..N |-> m]
  BY DEF AllMonths
<1>3. MonthsOf(moved) = [n \in 1..Len(moved) |-> Month(moved[n].h.d)] /\ Len(moved) \in Nat
  BY DEF MonthsOf
<1> HIDE DEF N
<1>4. AllMonths \in Seq(Volumes) /\ Len(AllMonths) = N /\ \A m \in Volumes : AllMonths[m] = m
  BY <1>1, <1>2
<1>5. /\ MonthsOf(moved) \in Seq(Volumes) /\ Len(MonthsOf(moved)) = Len(moved)
      /\ \A n \in 1..Len(moved) : MonthsOf(moved)[n] = Month(moved[n].h.d)
  <2>1. \A n \in 1..Len(moved) : Month(moved[n].h.d) \in Volumes
    BY DEF InMonths
  <2> DEFINE M(n) == Month(moved[n].h.d)
  <2> HIDE DEF M
  <2>2. /\ [n \in 1..Len(moved) |-> M(n)] \in Seq(Volumes) /\ Len([n \in 1..Len(moved) |-> M(n)]) = Len(moved)
        /\ \A n \in 1..Len(moved) : [i \in 1..Len(moved) |-> M(i)][n] = M(n)
    <3>1. \A n \in 1..Len(moved) : M(n) \in Volumes
      BY <2>1 DEF M
    <3> QED
      BY <1>3, <3>1
  <2> QED
    BY <1>3, <2>2 DEF M
<1> QED
  BY <1>4, <1>5 DEF N

(* The two parts of the order, of positions in "s" in their order. *)
LEMMA PartOfOrder ==
  ASSUME NEW s \in Seq(Volumes), NEW at,
         \A i, j \in 1..Len(s) : i \in at /\ j \in at /\ s[i] = s[j] => i = j
  PROVE  LET r == Those(s, at)
         IN  /\ r \in Seq(Volumes)
             /\ \A k \in 1..Len(s) : k \in at => \E n \in 1..Len(r) : r[n] = s[k]
             /\ \A n \in 1..Len(r) : \E k \in 1..Len(s) : k \in at /\ r[n] = s[k]
             /\ \A i, j \in 1..Len(r) : r[i] = r[j] => i = j
<1> DEFINE r == Those(s, at)
<1>1. r \in Seq(Volumes)
  BY ThoseType
<1>2. PICK g : Embeds(g, Len(s), s, at, r)
  BY ThoseEmbedded DEF Embedded
<1> HIDE DEF r
<1>3. /\ g \in [1..Len(r) -> 1..Len(s)] /\ \A i \in 1..Len(r) : g[i] \in at /\ r[i] = s[g[i]]
      /\ \A i, j \in 1..Len(r) : i < j => g[i] < g[j]
      /\ \A n \in 1..Len(s) : n \in at => \E i \in 1..Len(r) : g[i] = n
  BY <1>2 DEF Embeds
<1>4. \A i \in 1..Len(r) : g[i] \in 1..Len(s)
  BY <1>3
<1>5. ASSUME NEW i \in 1..Len(r), NEW j \in 1..Len(r), r[i] = r[j] PROVE i = j
  <2>1. g[i] = g[j]
    BY <1>3, <1>4, <1>5
  <2>2. (i < j => g[i] < g[j]) /\ (j < i => g[j] < g[i])
    BY <1>3
  <2>3. Len(r) \in Nat /\ Len(s) \in Nat
    BY <1>1
  <2> QED
    BY <1>4, <2>1, <2>2, <2>3
<1>6. \A k \in 1..Len(s) : k \in at => \E n \in 1..Len(r) : r[n] = s[k]
  BY <1>3
<1>7. \A n \in 1..Len(r) : \E k \in 1..Len(s) : k \in at /\ r[n] = s[k]
  BY <1>3, <1>4
<1> QED
  BY <1>1, <1>5, <1>6, <1>7 DEF r

(* Every month is written once, and no other. *)
LEMMA OrderIs ==
  ASSUME NEW t, NEW moved \in Seq(Sections), InMonths(moved)
  PROVE  LET r == monthOrder(t, moved)
         IN  /\ r \in Seq(Volumes)
             /\ \A m \in Volumes : m \in Months(t, moved) => \E n \in 1..Len(r) : r[n] = m
             /\ \A n \in 1..Len(r) : r[n] \in Months(t, moved)
             /\ \A i, j \in 1..Len(r) : r[i] = r[j] => i = j
<1> DEFINE a == Those(AllMonths, VolumesOf(t))
           s == MonthsOf(moved)
           at == Opens(t, moved)
           b == Those(s, at)
           r == a \o b
<1>1. monthOrder(t, moved) = r
  BY DEF monthOrder, AllMonths, MonthsOf
<1>2. /\ AllMonths \in Seq(Volumes) /\ Len(AllMonths) = Max(Volumes) /\ \A m \in Volumes : AllMonths[m] = m
      /\ s \in Seq(Volumes) /\ Len(s) = Len(moved) /\ \A n \in 1..Len(moved) : s[n] = Month(moved[n].h.d)
  BY MonthsTypes
<1>3. Volumes = 1..Max(Volumes) /\ Max(Volumes) \in Nat /\ VolumesOf(t) \subseteq Volumes /\ Len(moved) \in Nat
  BY VolumeNumbers, VolumesAreNoRoot
<1>4. at = {n \in 1..Len(s) : s[n] \notin VolumesOf(t) /\ \A i \in 1..n - 1 : s[i] # s[n]}
  <2>1. at = {n \in 1..Len(moved) : Month(moved[n].h.d) \notin VolumesOf(t) /\ \A i \in 1..n - 1 : Month(moved[i].h.d) # Month(moved[n].h.d)}
    BY DEF Opens
  <2>2. \A n \in 1..Len(moved) : \A i \in 1..n - 1 : i \in 1..Len(moved)
    BY <1>3
  <2> HIDE DEF s, at
  <2> QED
    BY <1>2, <2>1, <2>2
<1>5. /\ a \in Seq(Volumes) /\ \A m \in VolumesOf(t) : \E n \in 1..Len(a) : a[n] = m
      /\ \A n \in 1..Len(a) : a[n] \in VolumesOf(t)
      /\ \A i, j \in 1..Len(a) : a[i] = a[j] => i = j
  <2> HIDE DEF a
  <2>1. \A i, j \in 1..Len(AllMonths) : i \in VolumesOf(t) /\ j \in VolumesOf(t) /\ AllMonths[i] = AllMonths[j] => i = j
    BY <1>2, <1>3
  <2>2. /\ a \in Seq(Volumes)
        /\ \A k \in 1..Len(AllMonths) : k \in VolumesOf(t) => \E n \in 1..Len(a) : a[n] = AllMonths[k]
        /\ \A n \in 1..Len(a) : \E k \in 1..Len(AllMonths) : k \in VolumesOf(t) /\ a[n] = AllMonths[k]
        /\ \A i, j \in 1..Len(a) : a[i] = a[j] => i = j
    BY <1>2, <2>1, PartOfOrder DEF a
  <2>3. \A m \in VolumesOf(t) : m \in 1..Len(AllMonths) /\ AllMonths[m] = m
    BY <1>2, <1>3
  <2>4. \A m \in VolumesOf(t) : \E n \in 1..Len(a) : a[n] = m
    BY <2>2, <2>3
  <2>5. ASSUME NEW n \in 1..Len(a) PROVE a[n] \in VolumesOf(t)
    <3>1. PICK k \in 1..Len(AllMonths) : k \in VolumesOf(t) /\ a[n] = AllMonths[k]
      BY <2>2
    <3> QED
      BY <2>3, <3>1
  <2> QED
    BY <2>2, <2>4, <2>5
<1> HIDE DEF s, at
<1>6. /\ b \in Seq(Volumes) /\ \A k \in at : \E n \in 1..Len(b) : b[n] = s[k]
      /\ \A n \in 1..Len(b) : \E k \in at : b[n] = s[k]
      /\ \A i, j \in 1..Len(b) : b[i] = b[j] => i = j
  <2> HIDE DEF b
  <2>0. Len(s) \in Nat
    BY <1>2
  <2>1. \A i, j \in 1..Len(s) : i \in at /\ j \in at /\ s[i] = s[j] => i = j
    <3>1. ASSUME NEW i \in 1..Len(s), NEW j \in 1..Len(s), i \in at, j \in at, s[i] = s[j], i < j PROVE FALSE
      <4>1. i \in 1..j - 1
        BY <2>0, <3>1
      <4> QED
        BY <1>4, <3>1, <4>1
    <3> QED
      BY <2>0, <3>1
  <2>2. /\ b \in Seq(Volumes)
        /\ \A k \in 1..Len(s) : k \in at => \E n \in 1..Len(b) : b[n] = s[k]
        /\ \A n \in 1..Len(b) : \E k \in 1..Len(s) : k \in at /\ b[n] = s[k]
        /\ \A i, j \in 1..Len(b) : b[i] = b[j] => i = j
    BY <1>2, <2>1, PartOfOrder DEF b
  <2>3. at \subseteq 1..Len(s)
    BY <1>4
  <2> QED
    BY <2>2, <2>3
<1> HIDE DEF a, b
<1>7. /\ Len(a) \in Nat /\ Len(b) \in Nat /\ r \in Seq(Volumes) /\ Len(r) = Len(a) + Len(b)
      /\ \A n \in 1..Len(a) : n \in 1..Len(r) /\ r[n] = a[n]
      /\ \A n \in 1..Len(b) : Len(a) + n \in 1..Len(r) /\ r[Len(a) + n] = b[n]
  BY <1>5, <1>6
<1>8. ASSUME NEW n \in 1..Len(r)
      PROVE  (n \in 1..Len(a) /\ r[n] = a[n]) \/ (n - Len(a) \in 1..Len(b) /\ r[n] = b[n - Len(a)])
  BY <1>5, <1>6, <1>7
<1>9. Months(t, moved) = VolumesOf(t) \cup {s[n] : n \in 1..Len(s)}
  <2>1. Months(t, moved) = VolumesOf(t) \cup {Month(moved[n].h.d) : n \in 1..Len(moved)}
    BY DEF Months, Dates, Range
  <2> QED
    BY <1>2, <2>1
<1>10. ASSUME NEW m \in Volumes, m \in Months(t, moved) PROVE \E n \in 1..Len(r) : r[n] = m
  <2>1. CASE m \in VolumesOf(t)
    BY <1>5, <1>7, <2>1
  <2>2. CASE m \notin VolumesOf(t)
    <3> DEFINE M == {n \in 1..Len(s) : s[n] = m}
    <3>1. M # {} /\ M \subseteq Nat
      BY <1>9, <1>10, <2>2
    <3>2. PICK k \in M : \A i \in M : k <= i
      <4> HIDE DEF M
      <4> QED
        BY <3>1, LeastNumber
    <3>3. \A i \in 1..k - 1 : s[i] # s[k]
      BY <1>2, <3>2
    <3>4. k \in at /\ s[k] = m
      BY <1>4, <2>2, <3>2, <3>3
    <3>5. PICK n \in 1..Len(b) : b[n] = m
      BY <1>6, <3>4
    <3> QED
      BY <1>7, <3>5
  <2> QED
    BY <2>1, <2>2
<1>11. ASSUME NEW n \in 1..Len(r) PROVE r[n] \in Months(t, moved)
  <2>1. \A i \in 1..Len(b) : b[i] \in {s[k] : k \in 1..Len(s)}
    BY <1>4, <1>6
  <2> QED
    BY <1>5, <1>8, <1>9, <2>1
<1>12. ASSUME NEW i \in 1..Len(r), NEW j \in 1..Len(r), r[i] = r[j] PROVE i = j
  <2>1. \A n \in 1..Len(b) : b[n] \notin VolumesOf(t)
    BY <1>4, <1>6
  <2>2. CASE i \in 1..Len(a) /\ j \in 1..Len(a)
    BY <1>5, <1>7, <1>12, <2>2
  <2>3. CASE i - Len(a) \in 1..Len(b) /\ r[i] = b[i - Len(a)] /\ j - Len(a) \in 1..Len(b) /\ r[j] = b[j - Len(a)]
    <3>1. i - Len(a) = j - Len(a)
      BY <1>6, <1>12, <2>3
    <3> QED
      BY <1>7, <3>1
  <2> QED
    BY <1>5, <1>8, <1>12, <2>1, <2>2, <2>3
<1> HIDE DEF r
<1> QED
  BY <1>1, <1>7, <1>10, <1>11, <1>12

(* What is written: the volumes in their order, then the root. *)
FilesToWrite == [at : {Root} \cup Volumes, file : Files]
VolumeWrites(t, z) ==
  [n \in DOMAIN monthOrder(t, z.moved) |-> [at |-> monthOrder(t, z.moved)[n], file |-> nextVolume(t, z.moved, monthOrder(t, z.moved)[n])]]
RootWrite(t, z, months) == [at |-> Root, file |-> renderRoot(t, z.keep, months)]

LEMMA WritesForm ==
  ASSUME NEW t, Writes(t) # <<>>
  PROVE  /\ Writes(t) = Append(VolumeWrites(t, Shrink(t)), RootWrite(t, Shrink(t), Months(t, Shrink(t).moved)))
         /\ ~Dies(t)
BY DEF Writes, nextFiles, RootLast, VolumeWrites, RootWrite

LEMMA WritesType ==
  ASSUME NEW t \in Ledgers
  PROVE  Writes(t) \in Seq(FilesToWrite)
<1>0. <<>> \in Seq(FilesToWrite)
  OBVIOUS
<1> SUFFICES ASSUME Writes(t) # <<>> PROVE Writes(t) \in Seq(FilesToWrite)
  BY <1>0
<1> DEFINE z == Shrink(t)
           months == Months(t, z.moved)
           order == monthOrder(t, z.moved)
           volumes == VolumeWrites(t, z)
           root == RootWrite(t, z, months)
<1>1. Writes(t) = Append(volumes, root) /\ ~Dies(t)
  BY WritesForm
<1>2. z.keep \in Seq(Sections) /\ z.moved \in Seq(Sections) /\ InMonths(z.moved)
  BY ShrinkType, MovedInMonths
<1> HIDE DEF z
<1>3. months \in SUBSET Nat
  BY <1>2, MonthsType
<1> HIDE DEF months
<1>4. order \in Seq(Volumes)
  BY <1>2, OrderIs
<1>8. root \in FilesToWrite
  <2>1. renderRoot(t, z.keep, months) = Render(rootHead(t, months), rootBlocks(t, z.keep))
    BY DEF renderRoot, rootHead, rootBlocks
  <2>2. renderRoot(t, z.keep, months) \in Files
    BY <1>1, <1>2, <1>3, <2>1, RootType, RenderType
  <2> QED
    BY <2>2 DEF FilesToWrite, RootWrite
<1>9. volumes \in Seq(FilesToWrite)
  <2>1. ASSUME NEW n \in 1..Len(order) PROVE [at |-> order[n], file |-> nextVolume(t, z.moved, order[n])] \in FilesToWrite
    <3>0. Volumes \subseteq Nat
      BY DEF Volumes
    <3>4. order[n] \in Volumes
      BY <1>4
    <3>1. order[n] \in Volumes /\ order[n] \in Nat
      BY <3>0, <3>4
    <3>2. <<volumeHead(order[n])>> \in Seq(Lines)
      BY <3>1, LineTypes
    <3>3. nextVolume(t, z.moved, order[n]) = Render(<<volumeHead(order[n])>>, volume(t, z.moved, order[n]))
      BY DEF nextVolume, volume
    <3>5. nextVolume(t, z.moved, order[n]) \in Files
      BY <1>2, <3>1, <3>2, <3>3, VolumeType, RenderType
    <3> QED
      BY <3>1, <3>5 DEF FilesToWrite
  <2>2. volumes = [n \in 1..Len(order) |-> [at |-> order[n], file |-> nextVolume(t, z.moved, order[n])]] /\ Len(order) \in Nat
    BY <1>4 DEF VolumeWrites
  <2> QED
    BY <2>1, <2>2
<1> HIDE DEF volumes, root
<1>10. Append(volumes, root) \in Seq(FilesToWrite)
  BY <1>8, <1>9
<1> QED
  BY <1>1, <1>10

-----------------------------------------------------------------------------
(* The files stay files, whatever is done by hand. *)
TypeInv ==
  /\ main \in Ledgers /\ tree \in Ledgers /\ pending \in Seq(FilesToWrite)
  /\ today \in 2..MaxReleases + 1

LEMMA LinesChanged ==
  ASSUME TypeInv, NEW f \in {Root} \cup Volumes, NEW lines \in Seq(Lines), Change(f, lines)
  PROVE  tree' \in Ledgers
<1>1. [tree[f] EXCEPT !.lines = lines] \in Files
  BY DEF TypeInv, Ledgers, Files
<1>2. tree' = [tree EXCEPT ![f] = [tree[f] EXCEPT !.lines = lines]]
  BY DEF Change
<1> QED
  BY <1>1, <1>2 DEF TypeInv, Ledgers

LEMMA FileChanged ==
  ASSUME TypeInv, NEW f \in {Root} \cup Volumes, NEW file \in Files, tree' = [tree EXCEPT ![f] = file]
  PROVE  tree' \in Ledgers
BY DEF TypeInv, Ledgers

LEMMA InsertedType ==
  ASSUME NEW lines \in Seq(Lines), NEW i \in DOMAIN lines, NEW l \in Lines
  PROVE  InsertAfter(lines, i, l) \in Seq(Lines)
BY DEF InsertAfter

LEMMA UnreleasedPlace ==
  ASSUME TypeInv, UnreleasedAt > 0
  PROVE  UnreleasedAt \in DOMAIN tree[Root].lines
<1> DEFINE lines == tree[Root].lines
           I == {i \in 1..Len(lines) : lines[i].k = "unreleased"}
<1>1. lines \in Seq(Lines)
  BY DEF TypeInv, Ledgers, Files
<1>2. UnreleasedAt = IF I # {} THEN Min(I) ELSE 0
  BY DEF UnreleasedAt, SelectInSeq
<1>3. I # {} /\ UnreleasedAt = Min(I)
  BY <1>2
<1>4. I \in SUBSET Nat /\ I # {}
  BY <1>3
<1> HIDE DEF I
<1>5. Min(I) \in I
  <2>1. \E n \in I : \A m \in I : n <= m
    BY <1>4, LeastNumber
  <2> QED
    BY <2>1 DEF Min
<1> QED
  BY <1>1, <1>3, <1>5 DEF I

LEMMA TypeTamper ==
  ASSUME TypeInv, Tamper
  PROVE  tree' \in Ledgers
<1>1. PICK f \in {Root} \cup Volumes :
        /\ tree[f] # NoFile
        /\ LET lines == tree[f].lines
           IN  \/ \E i \in DOMAIN lines : Change(f, RemoveAt(lines, i))
               \/ \E i \in DOMAIN lines, l \in Menu : Change(f, InsertAfter(lines, i, l))
               \/ \E i \in DOMAIN lines : lines[i].up > 0 /\ Change(f, [lines EXCEPT ![i].up = IF @ = 1 THEN 2 ELSE 1])
               \/ tree' = [tree EXCEPT ![f].ends = FALSE]
               \/ tree' = [tree EXCEPT ![f] = NoFile]
  BY Zenon DEF Tamper
<1> DEFINE lines == tree[f].lines
<1>2. tree[f] \in Files /\ lines \in Seq(Lines)
  BY DEF TypeInv, Ledgers, Files
<1>3. CASE \E i \in DOMAIN lines : Change(f, RemoveAt(lines, i))
  <2>1. PICK i \in DOMAIN lines : Change(f, RemoveAt(lines, i))
    BY <1>3
  <2>2. RemoveAt(lines, i) \in Seq(Lines)
    BY <1>2 DEF RemoveAt
  <2> QED
    BY <2>1, <2>2, LinesChanged
<1>4. CASE \E i \in DOMAIN lines, l \in Menu : Change(f, InsertAfter(lines, i, l))
  <2>1. PICK i \in DOMAIN lines, l \in Menu : Change(f, InsertAfter(lines, i, l))
    BY <1>4
  <2>2. l \in Lines
    <3>1. MaxReleases + 1 \in Nat /\ today \in Nat /\ 1 \in 1..MaxReleases + 1 /\ today \in 1..MaxReleases + 1
      BY BoundsAreNatural DEF TypeInv
    <3> QED
      BY <3>1, LineTypes DEF Menu
  <2> QED
    BY <1>2, <2>1, <2>2, InsertedType, LinesChanged
<1>5. CASE \E i \in DOMAIN lines : lines[i].up > 0 /\ Change(f, [lines EXCEPT ![i].up = IF @ = 1 THEN 2 ELSE 1])
  <2>1. PICK i \in DOMAIN lines : lines[i].up > 0 /\ Change(f, [lines EXCEPT ![i].up = IF @ = 1 THEN 2 ELSE 1])
    BY <1>5
  <2>2. lines[i] \in Lines
    BY <1>2
  <2>3. [lines[i] EXCEPT !.up = IF lines[i].up = 1 THEN 2 ELSE 1] \in Lines
    BY <2>1, <2>2 DEF Lines, IsHeading
  <2>4. [lines EXCEPT ![i] = [lines[i] EXCEPT !.up = IF lines[i].up = 1 THEN 2 ELSE 1]] \in Seq(Lines)
    BY <1>2, <2>3
  <2> QED
    BY <2>1, <2>4, LinesChanged
<1>6. CASE tree' = [tree EXCEPT ![f].ends = FALSE]
  <2>1. [tree[f] EXCEPT !.ends = FALSE] \in Files
    BY <1>2 DEF Files
  <2>2. tree' = [tree EXCEPT ![f] = [tree[f] EXCEPT !.ends = FALSE]]
    BY <1>6
  <2> QED
    BY <2>1, <2>2, FileChanged
<1>7. CASE tree' = [tree EXCEPT ![f] = NoFile]
  <2>1. NoFile \in Files
    BY DEF NoFile, File, Files
  <2> QED
    BY <1>7, <2>1, FileChanged
<1> QED
  BY <1>1, <1>3, <1>4, <1>5, <1>6, <1>7
LEMMA TypeByHand ==
  ASSUME TypeInv, \/ \E l \in {Bullet(2, 1), Bullet(3, 0)} : AddItem(l)
                  \/ \E d \in {today - 1, today} : Bump(d)
  PROVE  tree' \in Ledgers
<1>1. tree[Root] \in Files /\ tree[Root].lines \in Seq(Lines) /\ Root \in {Root} \cup Volumes
  BY DEF TypeInv, Ledgers, Files
<1>2. UnreleasedAt > 0 => UnreleasedAt \in DOMAIN tree[Root].lines
  BY UnreleasedPlace
<1>3. ASSUME NEW l \in Lines, UnreleasedAt > 0, Change(Root, InsertAfter(tree[Root].lines, UnreleasedAt, l))
      PROVE  tree' \in Ledgers
  <2>1. InsertAfter(tree[Root].lines, UnreleasedAt, l) \in Seq(Lines)
    BY <1>1, <1>2, <1>3, InsertedType
  <2> QED
    BY <1>1, <1>3, <2>1, LinesChanged
<1>4. Bullet(2, 1) \in Lines /\ Bullet(3, 0) \in Lines
  BY LineTypes
<1>5. \A d \in {today - 1, today} : Release(today, d) \in Lines
  <2>1. today \in Nat /\ \A d \in {today - 1, today} : d \in Nat /\ d \in 1..MaxReleases + 1
    BY BoundsAreNatural DEF TypeInv
  <2> QED
    BY <2>1, LineTypes
<1> QED
  BY <1>3, <1>4, <1>5 DEF AddItem, Bump

LEMMA TypeRotation ==
  ASSUME TypeInv, Rotate \/ Write \/ Crash
  PROVE  tree' \in Ledgers /\ pending' \in Seq(FilesToWrite)
<1>1. CASE Rotate
  <2>1. Writes(tree) \in Seq(FilesToWrite)
    BY WritesType DEF TypeInv
  <2> QED
    BY <1>1, <2>1 DEF Rotate, TypeInv
<1>2. ASSUME ~Idle
      PROVE  /\ Head(pending).at \in {Root} \cup Volumes /\ Head(pending).file \in Files
             /\ Tail(pending) \in Seq(FilesToWrite)
  <2>1. Head(pending) \in FilesToWrite /\ Tail(pending) \in Seq(FilesToWrite)
    BY <1>2 DEF Idle, TypeInv
  <2> QED
    BY <2>1 DEF FilesToWrite
<1>3. CASE Write
  BY <1>2, <1>3, FileChanged DEF Write
<1>4. CASE Crash
  <2>1. pending' \in Seq(FilesToWrite)
    BY <1>4 DEF Crash
  <2>2. ASSUME NEW k \in 0..Len(Head(pending).file.lines) - 1,
               tree' = [tree EXCEPT ![Head(pending).at] = File(SubSeq(Head(pending).file.lines, 1, k), TRUE)]
        PROVE  tree' \in Ledgers
    <3> DEFINE lines == Head(pending).file.lines
    <3>1. ~Idle
      BY <1>4 DEF Crash
    <3>2. lines \in Seq(Lines)
      BY <1>2, <3>1 DEF Files
    <3>3. SubSeq(lines, 1, k) \in Seq(Lines)
      BY <3>2
    <3>4. File(SubSeq(lines, 1, k), TRUE) \in Files
      BY <3>3 DEF File, Files
    <3> QED
      BY <1>2, <2>2, <3>1, <3>4, FileChanged
  <2>3. UNCHANGED tree => tree' \in Ledgers
    BY DEF TypeInv
  <2> QED
    BY <1>4, <2>1, <2>2, <2>3 DEF Crash
<1> QED
  BY <1>1, <1>3, <1>4

LEMMA TypeStep == TypeInv /\ [Next]_vars => TypeInv'
<1> SUFFICES ASSUME TypeInv, [Next]_vars PROVE TypeInv'
  OBVIOUS
<1>1. ASSUME NEW l \in {Bullet(2, 1), Bullet(3, 0)}, AddItem(l) PROVE TypeInv'
  <2>1. tree' \in Ledgers
    BY <1>1, TypeByHand
  <2> QED
    BY <1>1, <2>1 DEF TypeInv, AddItem, Edited
<1>2. ASSUME NEW d \in {today - 1, today}, Bump(d) PROVE TypeInv'
  <2>1. tree' \in Ledgers
    BY <1>2, TypeByHand
  <2>2. today' \in 2..MaxReleases + 1
    BY <1>2, BoundsAreNatural DEF TypeInv, Bump
  <2> QED
    BY <1>2, <2>1, <2>2 DEF TypeInv, Bump, Edited
<1>3. CASE Tamper
  BY <1>3, TypeTamper DEF TypeInv, Tamper, Edited
<1>4. CASE Rotate \/ Write \/ Crash
  BY <1>4, TypeRotation DEF TypeInv, Rotate, Write, Crash
<1>5. CASE Land
  BY <1>5 DEF TypeInv, Land
<1>6. CASE Discard
  BY <1>6 DEF TypeInv, Discard, Edited
<1>7. CASE UNCHANGED vars
  BY <1>7 DEF TypeInv, vars
<1> QED
  BY <1>1, <1>2, <1>3, <1>4, <1>5, <1>6, <1>7 DEF Next
-----------------------------------------------------------------------------
(* The changelog at the beginning, parsed line by line. *)
LEMMA SeqEqual ==
  ASSUME NEW S, NEW s \in Seq(S), NEW t \in Seq(S), Len(s) = Len(t), \A i \in 1..Len(s) : s[i] = t[i]
  PROVE  s = t
OBVIOUS

LEMMA AppendOne == ASSUME NEW a PROVE Append(<<>>, a) = <<a>>
OBVIOUS

LEMMA AppendTwo == ASSUME NEW a, NEW b PROVE Append(<<a>>, b) = <<a, b>>
<1> DEFINE S == {a, b}
           s == Append(<<a>>, b)
<1>1. s \in Seq(S) /\ <<a, b>> \in Seq(S) /\ Len(s) = 2 /\ Len(<<a, b>>) = 2 /\ \A i \in 1..2 : s[i] = <<a, b>>[i]
  OBVIOUS
<1> HIDE DEF S
<1> QED
  BY <1>1, SeqEqual

LEMMA AppendThree == ASSUME NEW a, NEW b, NEW c PROVE Append(<<a, b>>, c) = <<a, b, c>>
<1> DEFINE S == {a, b, c}
           s == Append(<<a, b>>, c)
<1>1. s \in Seq(S) /\ <<a, b, c>> \in Seq(S) /\ Len(s) = 3 /\ Len(<<a, b, c>>) = 3 /\ \A i \in 1..3 : s[i] = <<a, b, c>>[i]
  OBVIOUS
<1> HIDE DEF S
<1> QED
  BY <1>1, SeqEqual

LEMMA ConcatThree == ASSUME NEW a, NEW b, NEW c PROVE <<a>> \o <<b, c>> = <<a, b, c>>
<1> DEFINE S == {a, b, c}
           s == <<a>> \o <<b, c>>
<1>1. s \in Seq(S) /\ <<a, b, c>> \in Seq(S) /\ Len(s) = 3 /\ Len(<<a, b, c>>) = 3 /\ \A i \in 1..3 : s[i] = <<a, b, c>>[i]
  OBVIOUS
<1> HIDE DEF S
<1> QED
  BY <1>1, SeqEqual

LEMMA ConcatSeven ==
  ASSUME NEW a, NEW b, NEW c, NEW d, NEW e, NEW f, NEW g
  PROVE  <<a, b, c>> \o <<d, e>> \o <<f, g>> = <<a, b, c, d, e, f, g>>
<1> DEFINE S == {a, b, c, d, e, f, g}
           s == <<a, b, c>> \o <<d, e>> \o <<f, g>>
           t == <<a, b, c, d, e, f, g>>
<1>1. s \in Seq(S) /\ t \in Seq(S) /\ Len(s) = 7 /\ Len(t) = 7 /\ \A i \in 1..7 : s[i] = t[i]
  OBVIOUS
<1> HIDE DEF S, s, t
<1>2. s = t
  BY <1>1, SeqEqual
<1> QED
  BY <1>2 DEF s, t

LEMMA SectionUpdates ==
  ASSUME NEW h, NEW body
  PROVE  /\ [Block(h) EXCEPT !.body = body] = [h |-> h, body |-> body, ends |-> TRUE]
         /\ [[h |-> h, body |-> body, ends |-> TRUE] EXCEPT !.ends = TRUE] = [h |-> h, body |-> body, ends |-> TRUE]
<1> DEFINE e == TRUE
<1> HIDE DEF e
<1>1. [[h |-> h, body |-> <<>>, ends |-> e] EXCEPT !.body = body] = [h |-> h, body |-> body, ends |-> e]
  OBVIOUS
<1>2. [[h |-> h, body |-> body, ends |-> e] EXCEPT !.ends = e] = [h |-> h, body |-> body, ends |-> e]
  OBVIOUS
<1> QED
  BY <1>1, <1>2 DEF e, Block

LEMMA SplitBefore ==
  ASSUME NEW head, NEW l, ~IsHeading(l)
  PROVE  Split([head |-> head, blocks |-> <<>>], l) = [head |-> Append(head, l), blocks |-> <<>>]
BY DEF Split

LEMMA SplitHeading ==
  ASSUME NEW head, NEW blocks, NEW l, IsHeading(l)
  PROVE  Split([head |-> head, blocks |-> blocks], l) = [head |-> head, blocks |-> Append(blocks, Block(l))]
BY DEF Split

LEMMA SplitBody ==
  ASSUME NEW head, NEW blocks \in Seq(Sections), NEW h, NEW l \in Lines, ~IsHeading(l), Block(h) \in Sections
  PROVE  Split([head |-> head, blocks |-> Append(blocks, Block(h))], l)
           = [head |-> head, blocks |-> Append(blocks, [h |-> h, body |-> <<l>>, ends |-> TRUE])]
<1> DEFINE bs == Append(blocks, Block(h))
           n == Len(bs)
           z == [head |-> head, blocks |-> bs]
           b == [h |-> h, body |-> <<l>>, ends |-> TRUE]
<1>1. bs \in Seq(Sections) /\ bs # <<>> /\ n = Len(blocks) + 1 /\ bs[n] = Block(h) /\ n \in DOMAIN bs
  OBVIOUS
<1>2. [bs[n] EXCEPT !.body = Append(bs[n].body, l)] = b
  <2>1. [Block(h) EXCEPT !.body = Append(Block(h).body, l)] = b
    <3>1. Append(Block(h).body, l) = <<l>>
      BY AppendOne DEF Block
    <3> QED
      BY <3>1, SectionUpdates
  <2> HIDE DEF bs, n, b
  <2> QED
    BY <1>1, <2>1
<1>3. [bs EXCEPT ![n] = b] = Append(blocks, b)
  <2>1. b \in Sections
    BY DEF Block, Sections
  <2>2. \A i \in 1..n : i # n => bs[i] = blocks[i] /\ Append(blocks, b)[i] = blocks[i]
    BY <1>1
  <2> HIDE DEF b
  <2>3. Append(blocks, b)[n] = b /\ Append(blocks, b) \in Seq(Sections) /\ Len(Append(blocks, b)) = n
    BY <1>1, <2>1
  <2> HIDE DEF bs
  <2>4. [bs EXCEPT ![n] = b] \in Seq(Sections) /\ Len([bs EXCEPT ![n] = b]) = n
    BY <1>1, <2>1
  <2>5. \A i \in 1..n : [bs EXCEPT ![n] = b][i] = IF i = n THEN b ELSE bs[i]
    BY <1>1
  <2>6. \A i \in 1..n : [bs EXCEPT ![n] = b][i] = Append(blocks, b)[i]
    BY <2>2, <2>3, <2>5
  <2> QED
    BY <2>3, <2>4, <2>6, SeqEqual
<1>4. Split(z, l) = [z EXCEPT !.blocks = [bs EXCEPT ![n] = [bs[n] EXCEPT !.body = Append(bs[n].body, l)]]]
  <2> HIDE DEF bs
  <2> QED
    BY <1>1 DEF Split
<1> HIDE DEF bs, b
<1> QED
  BY <1>2, <1>3, <1>4 DEF bs, b

\* A section of one item, as it is parsed.
Item(v, up) == [h |-> Release(v, v), body |-> <<Bullet(2, up)>>, ends |-> TRUE]

LEMMA ItemType ==
  ASSUME NEW v \in 1..3, NEW up \in Nat
  PROVE  Item(v, up) \in Sections /\ Block(Release(v, v)) \in Sections /\ Block(Unreleased) \in Sections
BY LineTypes, FirstDates DEF Item, Block, Sections

LEMMA LineKinds ==
  /\ ~IsHeading(Blank) /\ IsHeading(Unreleased) /\ Unreleased.k = "unreleased"
  /\ \A v, d : ~IsHeading(Bullet(v, d)) /\ IsHeading(Release(v, d)) /\ Release(v, d).k = "release"
  /\ \A m : ~IsHeading(volumeHead(m)) /\ ~IsHeading(indexLine(m))
BY DEF IsHeading, Blank, Unreleased, Bullet, Release, volumeHead, indexLine

FirstRoot == File(<<Blank, indexLine({1}), Unreleased>> \o Section(3, 1) \o Section(2, 1), TRUE)
FirstVolume == File(<<volumeHead(1)>> \o Section(1, 2), TRUE)

LEMMA FirstFiles ==
  /\ FirstRoot \in Files /\ FirstVolume \in Files /\ NoFile \in Files
  /\ FirstRoot # NoFile /\ FirstVolume # NoFile
<1>1. /\ Blank \in Lines /\ indexLine({1}) \in Lines /\ Unreleased \in Lines /\ volumeHead(1) \in Lines
      /\ \A v \in 1..3 : Release(v, v) \in Lines /\ Bullet(2, v) \in Lines
  BY LineTypes, FirstDates
<1>2. FirstRoot.lines = <<Blank, indexLine({1}), Unreleased, Release(3, 3), Bullet(2, 1), Release(2, 2), Bullet(2, 1)>>
  BY ConcatSeven DEF FirstRoot, File, Section
<1>3. FirstVolume.lines = <<volumeHead(1), Release(1, 1), Bullet(2, 2)>>
  BY ConcatThree DEF FirstVolume, File, Section
<1>4. FirstRoot.lines \in Seq(Lines) /\ FirstVolume.lines \in Seq(Lines)
  BY <1>1, <1>2, <1>3
<1>5. FirstRoot \in Files /\ FirstVolume \in Files
  BY <1>4 DEF FirstRoot, FirstVolume, File, Files
<1>6. NoFile \in Files /\ NoFile.lines = <<>>
  BY DEF NoFile, File, Files
<1>7. FirstRoot.lines # <<>> /\ FirstVolume.lines # <<>>
  BY <1>2, <1>3
<1> QED
  BY <1>5, <1>6, <1>7

LEMMA FirstRootParsed ==
  parse(FirstRoot) = [head |-> <<Blank, indexLine({1})>>, blocks |-> <<Block(Unreleased), Item(3, 1), Item(2, 1)>>]
<1> DEFINE lines == FirstRoot.lines
           hd == <<Blank, indexLine({1})>>
           u == Block(Unreleased)
<1>1. lines = <<Blank, indexLine({1}), Unreleased, Release(3, 3), Bullet(2, 1), Release(2, 2), Bullet(2, 1)>>
  BY ConcatSeven DEF FirstRoot, File, Section
<1>2. lines \in Seq(Lines) /\ Len(lines) = 7
  BY <1>1, FirstFiles DEF Files
<1>3. PICK run \in [0..Len(lines) -> Parses] : Splits(run, lines) /\ FoldLeft(Split, Empty, lines) = run[Len(lines)]
  BY <1>2, SplitRun
<1>4. run[0] = Empty /\ \A k \in 1..7 : run[k] = Split(run[k - 1], lines[k])
  BY <1>2, <1>3 DEF Splits
<1>5. /\ lines[1] = Blank /\ lines[2] = indexLine({1}) /\ lines[3] = Unreleased /\ lines[4] = Release(3, 3)
      /\ lines[5] = Bullet(2, 1) /\ lines[6] = Release(2, 2) /\ lines[7] = Bullet(2, 1)
  BY <1>1
<1> HIDE DEF lines
<1>6. /\ run[1] = Split(Empty, Blank) /\ run[2] = Split(run[1], indexLine({1})) /\ run[3] = Split(run[2], Unreleased)
      /\ run[4] = Split(run[3], Release(3, 3)) /\ run[5] = Split(run[4], Bullet(2, 1))
      /\ run[6] = Split(run[5], Release(2, 2)) /\ run[7] = Split(run[6], Bullet(2, 1))
  <2>1. /\ run[1] = Split(run[1 - 1], lines[1]) /\ run[2] = Split(run[2 - 1], lines[2])
        /\ run[3] = Split(run[3 - 1], lines[3]) /\ run[4] = Split(run[4 - 1], lines[4])
        /\ run[5] = Split(run[5 - 1], lines[5]) /\ run[6] = Split(run[6 - 1], lines[6])
        /\ run[7] = Split(run[7 - 1], lines[7])
    BY <1>4
  <2> QED
    BY <1>4, <1>5, <2>1
<1>7. run[2] = [head |-> hd, blocks |-> <<>>]
  <2>1. run[1] = [head |-> <<Blank>>, blocks |-> <<>>]
    BY <1>6, LineKinds, SplitBefore, AppendOne DEF Empty
  <2> QED
    BY <1>6, <2>1, LineKinds, SplitBefore, AppendTwo
<1> HIDE DEF hd
<1>8. run[3] = [head |-> hd, blocks |-> <<u>>]
  <2>1. run[3] = [head |-> hd, blocks |-> Append(<<>>, u)]
    BY <1>6, <1>7, LineKinds, SplitHeading
  <2> QED
    BY <2>1
<1>9. u \in Sections /\ Bullet(2, 1) \in Lines /\ \A v \in {2, 3} : Block(Release(v, v)) \in Sections /\ Item(v, 1) \in Sections
  BY ItemType, LineTypes
<1> HIDE DEF u
<1>10. run[5] = [head |-> hd, blocks |-> <<u, Item(3, 1)>>]
  <2>1. run[4] = [head |-> hd, blocks |-> Append(<<u>>, Block(Release(3, 3)))]
    BY <1>6, <1>8, LineKinds, SplitHeading
  <2>2. <<u>> \in Seq(Sections)
    BY <1>9
  <2>3. run[5] = [head |-> hd, blocks |-> Append(<<u>>, Item(3, 1))]
    BY <1>6, <1>9, <2>1, <2>2, LineKinds, SplitBody DEF Item
  <2> QED
    BY <2>3
<1>11. run[7] = [head |-> hd, blocks |-> <<u, Item(3, 1), Item(2, 1)>>]
  <2>1. run[6] = [head |-> hd, blocks |-> Append(<<u, Item(3, 1)>>, Block(Release(2, 2)))]
    BY <1>6, <1>10, LineKinds, SplitHeading
  <2>2. <<u, Item(3, 1)>> \in Seq(Sections)
    BY <1>9
  <2>3. run[7] = [head |-> hd, blocks |-> Append(<<u, Item(3, 1)>>, Item(2, 1))]
    BY <1>6, <1>9, <2>1, <2>2, LineKinds, SplitBody DEF Item
  <2> QED
    BY <2>3
<1>12. FoldLeft(Split, Empty, FirstRoot.lines) = run[7]
  BY <1>2, <1>3 DEF lines
<1> DEFINE z == [head |-> hd, blocks |-> <<u, Item(3, 1), Item(2, 1)>>]
<1>13. parse(FirstRoot) = [z EXCEPT !.blocks[Len(z.blocks)].ends = TRUE]
  <2>1. FirstRoot.ends = TRUE
    BY DEF FirstRoot, File
  <2>2. z.blocks # <<>>
    OBVIOUS
  <2>3. FoldLeft(Split, [head |-> <<>>, blocks |-> <<>>], FirstRoot.lines) = z
    BY <1>11, <1>12 DEF Empty
  <2> HIDE DEF z
  <2> QED
    BY <2>1, <2>2, <2>3 DEF parse
<1>14. [Item(2, 1) EXCEPT !.ends = TRUE] = Item(2, 1)
  BY SectionUpdates DEF Item
<1>15. z = parse(FirstRoot)
  BY <1>13, <1>14
<1> QED
  BY <1>15 DEF hd, u
LEMMA FirstVolumeParsed == parse(FirstVolume) = [head |-> <<volumeHead(1)>>, blocks |-> <<Item(1, 2)>>]
<1> DEFINE lines == FirstVolume.lines
           hd == <<volumeHead(1)>>
<1>1. lines = <<volumeHead(1), Release(1, 1), Bullet(2, 2)>>
  BY ConcatThree DEF FirstVolume, File, Section
<1>2. lines \in Seq(Lines) /\ Len(lines) = 3
  BY <1>1, FirstFiles DEF Files
<1>3. PICK run \in [0..Len(lines) -> Parses] : Splits(run, lines) /\ FoldLeft(Split, Empty, lines) = run[Len(lines)]
  BY <1>2, SplitRun
<1>4. run[0] = Empty /\ \A k \in 1..3 : run[k] = Split(run[k - 1], lines[k])
  BY <1>2, <1>3 DEF Splits
<1>5. lines[1] = volumeHead(1) /\ lines[2] = Release(1, 1) /\ lines[3] = Bullet(2, 2)
  BY <1>1
<1> HIDE DEF lines
<1>6. run[1] = Split(Empty, volumeHead(1)) /\ run[2] = Split(run[1], Release(1, 1)) /\ run[3] = Split(run[2], Bullet(2, 2))
  <2>1. /\ run[1] = Split(run[1 - 1], lines[1]) /\ run[2] = Split(run[2 - 1], lines[2])
        /\ run[3] = Split(run[3 - 1], lines[3])
    BY <1>4
  <2> QED
    BY <1>4, <1>5, <2>1
<1>7. run[1] = [head |-> hd, blocks |-> <<>>]
  BY <1>6, LineKinds, SplitBefore, AppendOne DEF Empty
<1> HIDE DEF hd
<1>8. run[2] = [head |-> hd, blocks |-> Append(<<>>, Block(Release(1, 1)))]
  BY <1>6, <1>7, LineKinds, SplitHeading
<1>9. run[3] = [head |-> hd, blocks |-> <<Item(1, 2)>>]
  <2>1. <<>> \in Seq(Sections) /\ Block(Release(1, 1)) \in Sections /\ Bullet(2, 2) \in Lines
    BY ItemType, LineTypes
  <2>2. run[3] = [head |-> hd, blocks |-> Append(<<>>, Item(1, 2))]
    BY <1>6, <1>8, <2>1, LineKinds, SplitBody DEF Item
  <2> QED
    BY <2>2, AppendOne
<1>10. FoldLeft(Split, Empty, FirstVolume.lines) = run[3]
  BY <1>2, <1>3 DEF lines
<1> DEFINE z == [head |-> hd, blocks |-> <<Item(1, 2)>>]
<1>11. parse(FirstVolume) = [z EXCEPT !.blocks[Len(z.blocks)].ends = TRUE]
  <2>1. FirstVolume.ends = TRUE
    BY DEF FirstVolume, File
  <2>2. z.blocks # <<>>
    OBVIOUS
  <2>3. FoldLeft(Split, [head |-> <<>>, blocks |-> <<>>], FirstVolume.lines) = z
    BY <1>9, <1>10 DEF Empty
  <2> HIDE DEF z
  <2> QED
    BY <2>1, <2>2, <2>3 DEF parse
<1>12. [Item(1, 2) EXCEPT !.ends = TRUE] = Item(1, 2)
  BY SectionUpdates DEF Item
<1>13. z = parse(FirstVolume)
  <2> DEFINE i == Item(1, 2)
             bs == <<i>>
  <2>1. z.blocks = bs /\ Len(bs) = 1 /\ bs[1] = i /\ [bs EXCEPT ![1] = i] = bs
    OBVIOUS
  <2>2. [i EXCEPT !.ends = TRUE] = i
    BY <1>12
  <2>3. parse(FirstVolume) = [z EXCEPT !.blocks = [bs EXCEPT ![1] = [bs[1] EXCEPT !.ends = TRUE]]]
    BY <1>11, <2>1
  <2> HIDE DEF i
  <2> QED
    BY <2>1, <2>2, <2>3
<1> QED
  BY <1>13 DEF hd

LEMMA NoFileParsed == parse(NoFile) = Empty
<1>1. NoFile.lines = <<>> /\ <<>> \in Seq(Lines) /\ Len(<<>>) = 0
  BY DEF NoFile, File
<1>2. PICK run \in [0..Len(<<>>) -> Parses] : Splits(run, <<>>) /\ FoldLeft(Split, Empty, <<>>) = run[Len(<<>>)]
  BY <1>1, SplitRun
<1>3. FoldLeft(Split, Empty, NoFile.lines) = Empty
  BY <1>1, <1>2 DEF Splits
<1>4. FoldLeft(Split, [head |-> <<>>, blocks |-> <<>>], NoFile.lines) = Empty /\ Empty.blocks = <<>>
  BY <1>3 DEF Empty
<1> QED
  BY <1>4 DEF parse

LEMMA FirstReleases ==
  /\ releases(FirstRoot) = <<Item(3, 1), Item(2, 1)>>
  /\ releases(FirstVolume) = <<Item(1, 2)>>
  /\ releases(NoFile) = <<>>
<1> DEFINE u == Block(Unreleased)
           a == Item(3, 1)
           b == Item(2, 1)
           c == Item(1, 2)
<1>0. u \in Sections /\ a \in Sections /\ b \in Sections /\ c \in Sections
  BY ItemType
<1>1. u.h.k = "unreleased" /\ a.h.k = "release" /\ b.h.k = "release" /\ c.h.k = "release"
  BY LineKinds DEF Item, Block
<1>2. /\ parse(FirstRoot).blocks = <<u, a, b>> /\ parse(FirstVolume).blocks = <<c>> /\ parse(NoFile).blocks = <<>>
  BY FirstRootParsed, FirstVolumeParsed, NoFileParsed DEF Empty
<1> HIDE DEF u, a, b, c
<1>3. releases(FirstRoot) = <<a, b>>
  <2> DEFINE s == <<u, a, b>>
             at == {n \in DOMAIN s : s[n].h.k = "release"}
  <2>1. releases(FirstRoot) = Those(s, at)
    BY <1>2 DEF releases, OfKind, ThoseOfKind
  <2>2. s \in Seq(Sections) /\ Len(s) = 3 /\ s[1] = u /\ s[2] = a /\ s[3] = b
    BY <1>0
  <2>3. 1 \notin at /\ 2 \in at /\ 3 \in at
    BY <1>1
  <2> HIDE DEF s, at
  <2>4. PICK run \in [0..Len(s) -> Seq(Sections)] : Picks(run, s, at) /\ Those(s, at) = run[Len(s)]
    BY <2>2, ThoseRun
  <2>5. run[0] = <<>> /\ \A k \in 1..3 : run[k] = IF k \in at THEN Append(run[k - 1], s[k]) ELSE run[k - 1]
    BY <2>2, <2>4 DEF Picks
  <2>6. run[1] = <<>> /\ run[2] = Append(<<>>, a) /\ run[3] = Append(run[2], b)
    <3>1. 1 - 1 = 0 /\ 2 - 1 = 1 /\ 3 - 1 = 2 /\ 1 \in 1..3 /\ 2 \in 1..3 /\ 3 \in 1..3
      OBVIOUS
    <3>2. run[1] = run[0]
      BY <2>3, <2>5, <3>1
    <3>3. run[2] = Append(run[1], s[2])
      BY <2>3, <2>5, <3>1
    <3>4. run[3] = Append(run[2], s[3])
      BY <2>3, <2>5, <3>1
    <3> QED
      BY <2>2, <2>5, <3>2, <3>3, <3>4
  <2> QED
    BY <2>1, <2>2, <2>4, <2>6, AppendOne, AppendTwo
<1>4. releases(FirstVolume) = <<c>>
  <2> DEFINE s == <<c>>
             at == {n \in DOMAIN s : s[n].h.k = "release"}
  <2>1. releases(FirstVolume) = Those(s, at)
    BY <1>2 DEF releases, OfKind, ThoseOfKind
  <2>2. s \in Seq(Sections) /\ Len(s) = 1 /\ s[1] = c
    BY <1>0
  <2>3. 1 \in at
    BY <1>1
  <2> HIDE DEF s, at
  <2>4. PICK run \in [0..Len(s) -> Seq(Sections)] : Picks(run, s, at) /\ Those(s, at) = run[Len(s)]
    BY <2>2, ThoseRun
  <2>5. run[0] = <<>> /\ \A k \in 1..1 : run[k] = IF k \in at THEN Append(run[k - 1], s[k]) ELSE run[k - 1]
    BY <2>2, <2>4 DEF Picks
  <2>6. run[1] = Append(<<>>, c)
    <3>1. 1 - 1 = 0 /\ 1 \in 1..1
      OBVIOUS
    <3>2. run[1] = Append(run[0], s[1])
      BY <2>3, <2>5, <3>1
    <3> QED
      BY <2>2, <2>5, <3>2
  <2> QED
    BY <2>1, <2>2, <2>4, <2>6, AppendOne
<1>5. releases(NoFile) = <<>>
  <2> DEFINE s == <<>>
             at == {n \in DOMAIN s : s[n].h.k = "release"}
  <2>1. releases(NoFile) = Those(s, at)
    BY <1>2 DEF releases, OfKind, ThoseOfKind
  <2>2. s \in Seq(Sections) /\ Len(s) = 0
    OBVIOUS
  <2> HIDE DEF s, at
  <2>3. PICK run \in [0..Len(s) -> Seq(Sections)] : Picks(run, s, at) /\ Those(s, at) = run[Len(s)]
    BY <2>2, ThoseRun
  <2> QED
    BY <2>1, <2>2, <2>3 DEF Picks
<1> QED
  BY <1>3, <1>4, <1>5 DEF a, b, c
LEMMA FirstMain ==
  ASSUME Init
  PROVE  /\ main \in Ledgers /\ main[Root] = FirstRoot /\ main[1] = FirstVolume /\ 1 \in Volumes
         /\ \A m \in Volumes : m # 1 => main[m] = NoFile
<1>1. main = [f \in {Root} \cup Volumes |-> IF f = Root THEN FirstRoot ELSE IF f = 1 THEN FirstVolume ELSE NoFile]
  BY DEF Init, FirstRoot, FirstVolume
<1>2. 1 \in Volumes /\ Root # 1
  <2>1. Max(Volumes) \in Nat /\ Max(Volumes) # 0 /\ Volumes = 1..Max(Volumes)
    BY VolumeNumbers
  <2>2. \A n \in Nat : n # 0 => 1 \in 1..n
    OBVIOUS
  <2> QED
    BY <2>1, <2>2 DEF Root
<1> QED
  BY <1>1, <1>2, FirstFiles, VolumesAreNoRoot DEF Ledgers

LEMMA TypeInit == Init => TypeInv
<1> SUFFICES ASSUME Init PROVE TypeInv
  OBVIOUS
<1>1. main \in Ledgers /\ 4 \in 2..MaxReleases + 1
  BY FirstMain, BoundsAreNatural, ThreeToBeginWith
<1> QED
  BY <1>1 DEF Init, TypeInv

LEMMA FirstSections ==
  ASSUME Init
  PROVE  /\ releases(main[Root]) = <<Item(3, 1), Item(2, 1)>> /\ releases(main[1]) = <<Item(1, 2)>>
         /\ \A m \in Volumes : m # 1 => releases(main[m]) = <<>>
         /\ VolumesOf(main) = {1}
<1>1. VolumesOf(main) = {1}
  BY FirstMain, FirstFiles DEF VolumesOf
<1> QED
  BY <1>1, FirstMain, FirstReleases

LEMMA ItemSays ==
  ASSUME NEW v \in 1..3, NEW up \in Nat
  PROVE  /\ Said(Item(v, up), FALSE) = Section(v, up) /\ Said(Item(v, 2), TRUE) = Section(v, 1)
         /\ bytes(Text(Item(v, up))) = 2 /\ Item(v, up).h = Release(v, v)
<1> DEFINE l == Release(v, v)
<1>1. l \in Lines /\ l.up = 0 /\ \A u \in Nat : Bullet(2, u) \in Lines
  <2>1. v \in Nat /\ v \in 1..MaxReleases + 1
    BY FirstDates
  <2> QED
    BY <2>1, LineTypes DEF Release, Blank
<1>2. \A u : Text(Item(v, u)) = <<l, Bullet(2, u)>> /\ Item(v, u).h = l
  <2>1. \A a, b : <<a>> \o <<b>> = <<a, b>>
    <3>1. ASSUME NEW a, NEW b PROVE <<a>> \o <<b>> = <<a, b>>
      <4>1. <<a>> \o <<b>> \in Seq({a, b}) /\ <<a, b>> \in Seq({a, b}) /\ Len(<<a>> \o <<b>>) = 2 /\ Len(<<a, b>>) = 2
            /\ \A i \in 1..2 : (<<a>> \o <<b>>)[i] = <<a, b>>[i]
        OBVIOUS
      <4> QED
        BY <4>1, SeqEqual
    <3> QED
      BY <3>1
  <2> QED
    BY <2>1 DEF Text, Item
<1>3. /\ Points(l, FALSE) = l /\ Points(l, TRUE) = l /\ Points(Bullet(2, up), FALSE) = Bullet(2, up)
      /\ Points(Bullet(2, 2), TRUE) = Bullet(2, 1)
  <2>1. Points(l, TRUE) = l
    BY <1>1 DEF Points, Lines
  <2>2. Points(Bullet(2, 2), TRUE) = Bullet(2, 1)
    <3>1. Blank \in Lines /\ Bullet(2, 1) \in Lines
      BY LineTypes
    <3>4. Bullet(2, 1).up = 1
      BY <3>1 DEF Lines, Bullet
    <3>5. Deeper(Bullet(2, 1)) = [Bullet(2, 1) EXCEPT !.up = 2]
      BY <3>4 DEF Deeper
    <3>6. [Bullet(2, 1) EXCEPT !.up = 2] = Bullet(2, 2)
      BY <3>1 DEF Lines, Bullet
    <3>2. Deeper(Bullet(2, 1)) = Bullet(2, 2)
      BY <3>5, <3>6
    <3>3. Points(Deeper(Bullet(2, 1)), TRUE) = Bullet(2, 1)
      BY <3>1, DeeperFields
    <3> QED
      BY <3>2, <3>3
  <2> QED
    BY <1>1, <2>1, <2>2, DeeperFields
<1> HIDE DEF l
<1>4. ASSUME NEW s, NEW b \in Lines, DOMAIN s = 1..2, s = [n \in 1..2 |-> s[n]], s[1] = l, s[2] = b PROVE s = <<l, b>>
  <2>1. \A n \in 1..2 : n = 1 \/ n = 2
    OBVIOUS
  <2>2. \A n \in 1..2 : s[n] \in Lines
    BY <1>1, <1>4, <2>1 DEF l
  <2>3. s \in Seq(Lines) /\ Len(s) = 2
    BY <1>4, <2>2
  <2>4. <<l, b>> \in Seq(Lines) /\ Len(<<l, b>>) = 2 /\ <<l, b>>[1] = l /\ <<l, b>>[2] = b
    BY <1>1 DEF l
  <2>5. \A n \in 1..2 : s[n] = <<l, b>>[n]
    BY <1>4, <2>1, <2>4
  <2> QED
    BY <2>3, <2>4, <2>5, SeqEqual
<1>5. Said(Item(v, up), FALSE) = <<l, Bullet(2, up)>> /\ Said(Item(v, 2), TRUE) = <<l, Bullet(2, 1)>>
  <2> DEFINE one == Said(Item(v, up), FALSE)
             other == Said(Item(v, 2), TRUE)
  <2>1. \A b : DOMAIN <<l, b>> = 1..2 /\ <<l, b>>[1] = l /\ <<l, b>>[2] = b
    OBVIOUS
  <2> DEFINE s == Text(Item(v, up))
             t == Text(Item(v, 2))
  <2>6. /\ DOMAIN s = 1..2 /\ s[1] = l /\ s[2] = Bullet(2, up)
        /\ DOMAIN t = 1..2 /\ t[1] = l /\ t[2] = Bullet(2, 2)
    BY <1>2, <2>1
  <2>7. one = [n \in DOMAIN s |-> Points(s[n], FALSE)] /\ other = [n \in DOMAIN t |-> Points(t[n], TRUE)]
    BY DEF Said
  <2> HIDE DEF s, t
  <2>2. one = [n \in 1..2 |-> Points(s[n], FALSE)] /\ other = [n \in 1..2 |-> Points(t[n], TRUE)]
    BY <2>6, <2>7
  <2>8. 1 \in 1..2 /\ 2 \in 1..2
    OBVIOUS
  <2>3. one[1] = l /\ one[2] = Bullet(2, up) /\ other[1] = l /\ other[2] = Bullet(2, 1)
    <3> HIDE DEF one, other
    <3>1. one[1] = Points(s[1], FALSE) /\ one[2] = Points(s[2], FALSE)
      BY <2>2, <2>8
    <3>2. other[1] = Points(t[1], TRUE) /\ other[2] = Points(t[2], TRUE)
      BY <2>2, <2>8
    <3> QED
      BY <1>3, <2>6, <3>1, <3>2
  <2>4. DOMAIN one = 1..2 /\ DOMAIN other = 1..2 /\ one = [n \in 1..2 |-> one[n]] /\ other = [n \in 1..2 |-> other[n]]
    BY <2>2
  <2> HIDE DEF one, other
  <2>5. one = <<l, Bullet(2, up)>> /\ other = <<l, Bullet(2, 1)>>
    BY <1>1, <1>4, <2>3, <2>4
  <2> QED
    BY <2>5 DEF one, other
<1>6. bytes(<<l, Bullet(2, up)>>) = 2
  <2> DEFINE s == <<l, Bullet(2, up)>>
  <2>1. s \in Seq(Lines) /\ Len(s) = 2 /\ s[1] = l /\ s[2] = Bullet(2, up)
    BY <1>1
  <2> HIDE DEF s
  <2>2. PICK run : Sums(run, s) /\ bytes(s) = run[Len(s)]
    BY <2>1, BytesRun
  <2>3. run[0] = 0 /\ \A k \in 1..2 : run[k] = run[k - 1] + LineBytes(s[k])
    BY <2>1, <2>2 DEF Sums
  <2>4. LineBytes(l) = 0 /\ LineBytes(Bullet(2, up)) = 2
    BY DEF l, LineBytes, Release, Bullet, Blank
  <2>5. 1 - 1 = 0 /\ 2 - 1 = 1 /\ 1 \in 1..2 /\ 2 \in 1..2
    OBVIOUS
  <2>6. run[1] = 0
    BY <2>1, <2>3, <2>4, <2>5
  <2>7. run[2] = 2
    BY <2>1, <2>3, <2>4, <2>5, <2>6
  <2> QED
    BY <2>1, <2>2, <2>7 DEF s
<1> QED
  BY <1>2, <1>5, <1>6 DEF l, Section

LEMMA RecordInit == Init => L!Init
<1> SUFFICES ASSUME Init PROVE L!Init
  OBVIOUS
<1> DEFINE Started(v, archived) == [heading |-> Release(v, v), text |-> Section(v, 1), size |-> 2, archived |-> archived]
<1>1. InFile(main, Root) = {Item(3, 1), Item(2, 1)}
  <2>1. \A a, b : Range(<<a, b>>) = {a, b}
    BY DEF Range
  <2> QED
    BY <2>1, FirstSections DEF InFile
<1>2. InVolumes(main) = {Item(1, 2)}
  <2>1. \A a : Range(<<a>>) = {a}
    BY DEF Range
  <2> QED
    BY <2>1, FirstSections DEF InFile, InVolumes
<1>3. \A v \in 1..3 : Entry(Item(v, 1), FALSE) = Started(v, FALSE) /\ Entry(Item(v, 2), TRUE) = Started(v, TRUE)
  BY ItemSays DEF Entry
<1>4. Record(main) = {Started(3, FALSE), Started(2, FALSE), Started(1, TRUE)}
  <2> HIDE DEF Started
  <2>1. Record(main) = {Entry(Item(3, 1), FALSE), Entry(Item(2, 1), FALSE)} \cup {Entry(Item(1, 2), TRUE)}
    BY <1>1, <1>2 DEF Record
  <2>2. 1 \in 1..3 /\ 2 \in 1..3 /\ 3 \in 1..3
    OBVIOUS
  <2>3. Entry(Item(3, 1), FALSE) = Started(3, FALSE) /\ Entry(Item(2, 1), FALSE) = Started(2, FALSE) /\ Entry(Item(1, 2), TRUE) = Started(1, TRUE)
    BY <1>3, <2>2
  <2> QED
    BY <2>1, <2>3
<1>5. {Started(v, v = 1) : v \in 1..3} = {Started(3, FALSE), Started(2, FALSE), Started(1, TRUE)}
  <2>1. (1 = 1) = TRUE /\ (2 = 1) = FALSE /\ (3 = 1) = FALSE
    OBVIOUS
  <2>2. \A v \in 1..3 : v = 1 \/ v = 2 \/ v = 3
    OBVIOUS
  <2> DEFINE S(v) == Started(v, v = 1)
  <2>3. S(1) = Started(1, TRUE) /\ S(2) = Started(2, FALSE) /\ S(3) = Started(3, FALSE)
    BY <2>1
  <2> HIDE DEF S
  <2>4. {S(v) : v \in 1..3} = {S(3), S(2), S(1)}
    BY <2>2
  <2> HIDE DEF Started
  <2> QED
    BY <2>3, <2>4 DEF S
<1> QED
  BY <1>4, <1>5 DEF L!Init, Init
-----------------------------------------------------------------------------
(* The files are files of lines and sections, whatever is done by hand and *)
(* wherever a rotation is stopped.                                         *)
THEOREM TypeCorrect == Spec => []TypeInv
BY TypeInit, TypeStep, PTL DEF Spec

RecordInv == record = Record(main)

LEMMA RecordStep == TypeInv /\ RecordInv /\ [Next]_vars => RecordInv' /\ [L!Change]_record
<1> SUFFICES ASSUME TypeInv, RecordInv, [Next]_vars PROVE RecordInv' /\ [L!Change]_record
  OBVIOUS
<1>1. CASE Land
  <2>1. Structure(tree) /\ Preserves(tree, main)
    BY <1>1 DEF Land, checkLedger, ButForLength
  <2>2. L!Changed(Record(main), Record(tree))
    BY <2>1, LetInChanges DEF TypeInv
  <2>3. main' = tree /\ record' = Record(tree)
    BY <1>1 DEF Land
  <2> QED
    BY <2>2, <2>3 DEF RecordInv, L!Change
<1>2. CASE UNCHANGED <<main, record>>
  BY <1>2 DEF RecordInv
<1>3. ~Land => UNCHANGED <<main, record>>
  BY DEF Next, vars, AddItem, Bump, Tamper, Rotate, Write, Crash, Discard, Edited
<1> QED
  BY <1>1, <1>2, <1>3

(* The changelog implements its record: whatever was edited on a branch    *)
(* and wherever a rotation on it stopped, what check 8d lets into main     *)
(* loses no section, alters none that is archived or on its way there, and *)
(* adds none to the past.                                                  *)
THEOREM ThePastIsKept == Spec => ImplementsRecord
<1>1. Spec => L!Init
  BY RecordInit DEF Spec
<1>2. Init => RecordInv
  BY DEF Init, RecordInv
<1> QED
  BY <1>1, <1>2, TypeInit, TypeStep, RecordStep, PTL DEF Spec, ImplementsRecord, L!Spec
-----------------------------------------------------------------------------
(* One sequence after another: a run that gets longer by one of them. *)
Chained(run, m, seqs) == run[0] = <<>> /\ \A k \in 1..m : run[k] = run[k - 1] \o seqs[k]

LEMMA FlattenRun ==
  ASSUME NEW S, NEW m \in Nat, m # 0, NEW seqs \in [1..m -> Seq(S)]
  PROVE  \E run \in [0..m -> Seq(S)] : Chained(run, m, seqs) /\ FlattenSeq(seqs) = run[m]
<1> DEFINE V == Seq(S)
           step == [w \in V \X (1..m) |-> w[1] \o seqs[w[2]]]
           Flat(f) == f = [i \in 1..m |-> IF i = 1 THEN seqs[i] ELSE f[i - 1] \o seqs[i]]
<1>1. Len(seqs) = m /\ \A i \in 1..m : seqs[i] \in V
  OBVIOUS
<1>2. FlattenSeq(seqs) = (CHOOSE f : Flat(f))[m]
  BY <1>1 DEF FlattenSeq
<1>3. /\ step \in [V \X (1..m) -> V] /\ <<>> \in V
      /\ \A v \in V, i \in 1..m : step[<<v, i>>] = v \o seqs[i]
  <2>1. \A v \in V, i \in 1..m : v \o seqs[i] \in V
    BY <1>1
  <2>2. <<>> \in V
    OBVIOUS
  <2> HIDE DEF V
  <2> QED
    BY <2>1, <2>2
<1> HIDE DEF V, step
<1>4. PICK g \in [SUBSET (1..m) -> V] : LeftFold(g, m, <<>>, step)
  BY <1>3, LeftFoldExists
<1>5. FoldsIn(g, V, m, <<>>, step)
  BY <1>4 DEF LeftFold, FoldsIn
<1>6. HasRun(g, V, m, <<>>, step)
  BY <1>3, <1>5, FoldRuns
<1>7. PICK made \in [0..m -> V] : Runs(made, m, <<>>, step)
  BY <1>6 DEF HasRun
<1>8. Chained(made, m, seqs)
  <2>1. \A k \in 1..m : made[k - 1] \in V
    OBVIOUS
  <2> QED
    BY <1>3, <1>7, <2>1 DEF Runs, Chained
<1> DEFINE f0 == [i \in 1..m |-> made[i]]
<1>9. Flat(f0)
  <2>1. ASSUME NEW i \in 1..m PROVE f0[i] = IF i = 1 THEN seqs[i] ELSE f0[i - 1] \o seqs[i]
    <3>1. CASE i = 1
      <4>1. made[1] = made[0] \o seqs[1] /\ made[0] = <<>>
        <5>1. 1 \in 1..m /\ 1 - 1 = 0
          BY <3>1
        <5> QED
          BY <1>8, <5>1 DEF Chained
      <4>2. <<>> \o seqs[1] = seqs[1]
        BY <1>1, <3>1 DEF V
      <4> QED
        BY <3>1, <4>1, <4>2
    <3>2. CASE i # 1
      <4>1. i - 1 \in 1..m
        BY <3>2
      <4> QED
        BY <1>8, <3>2, <4>1 DEF Chained
    <3> QED
      BY <3>1, <3>2
  <2>2. f0 = [i \in 1..m |-> f0[i]]
    OBVIOUS
  <2> HIDE DEF f0
  <2> QED
    BY <2>1, <2>2
<1>10. PICK f : Flat(f) /\ FlattenSeq(seqs) = f[m]
  <2> DEFINE c == CHOOSE f : Flat(f)
  <2>1. Flat(c) /\ FlattenSeq(seqs) = c[m]
    <3> HIDE DEF f0, Flat
    <3> QED
      BY <1>2, <1>9
  <2> HIDE DEF c, Flat
  <2> QED
    BY <2>1
<1>13. \A i \in 1..m : f[i] = (IF i = 1 THEN seqs[i] ELSE f[i - 1] \o seqs[i])
  <2> DEFINE rhs(i) == IF i = 1 THEN seqs[i] ELSE f[i - 1] \o seqs[i]
  <2>1. f = [i \in 1..m |-> rhs(i)]
    BY <1>10
  <2> HIDE DEF rhs
  <2>2. \A i \in 1..m : f[i] = rhs(i)
    BY <2>1, Zenon
  <2> QED
    BY <2>2 DEF rhs
<1> DEFINE T == {k \in 0..m : k = 0 \/ f[k] = made[k]}
<1>11. \A k \in 0..m : k \in T
  <2>1. 0 \in T
    OBVIOUS
  <2>2. ASSUME NEW k \in 1..m, k - 1 \in T PROVE k \in T
    <3>1. f[k] = (IF k = 1 THEN seqs[k] ELSE f[k - 1] \o seqs[k]) /\ k \in 0..m
      BY <1>13
    <3>2. f0[k] = (IF k = 1 THEN seqs[k] ELSE f0[k - 1] \o seqs[k]) /\ f0[k] = made[k]
      BY <1>9
    <3>3. CASE k = 1
      BY <3>1, <3>2, <3>3
    <3>4. CASE k # 1
      <4>1. f[k - 1] = made[k - 1] /\ k - 1 \in 1..m
        BY <2>2, <3>4
      <4>2. f0[k - 1] = made[k - 1]
        BY <4>1
      <4> QED
        BY <3>1, <3>2, <3>4, <4>1, <4>2
    <3> QED
      BY <3>3, <3>4
  <2> HIDE DEF T
  <2> QED
    BY <2>1, <2>2, UpToLast
<1>12. f[m] = made[m]
  BY <1>11
<1> QED
  BY <1>8, <1>10, <1>12 DEF V
-----------------------------------------------------------------------------
(* Main is one ledger: its sections, file after file, fall from the newest *)
(* to the oldest, and no heading comes twice.                              *)
Falls(s) == \A j \in 1..Len(s) : \A i \in 1..j : s[j].h.d <= s[i].h.d
OneByOne(s) == \A i, j \in 1..Len(s) : s[i].h = s[j].h => i = j
Before(s, t) == \A i \in 1..Len(s), j \in 1..Len(t) : t[j].h.d <= s[i].h.d /\ t[j].h # s[i].h

LEMMA SectionDates == \A b \in Sections : b.h.d \in Nat
BY DEF Sections, Heads, Lines

LEMMA NewestFalls ==
  ASSUME NEW s \in Seq(Sections), NewestFirst(s)
  PROVE  Falls(s)
<1> DEFINE m == Len(s)
           T == {k \in 0..m : k = 0 \/ \A i \in 1..k : s[k].h.d <= s[i].h.d}
<1>1. m \in Nat /\ \A i \in 1..m : s[i].h.d \in Nat
  BY SectionDates
<1>2. \A k \in 2..m : s[k].h.d <= s[k - 1].h.d
  BY DEF NewestFirst
<1>3. 0 \in T
  BY <1>1
<1>4. ASSUME NEW k \in 1..m, k - 1 \in T PROVE k \in T
  <2>1. CASE k = 1
    <3>1. \A i \in 1..k : i = k
      BY <2>1
    <3> QED
      BY <1>1, <2>1, <3>1
  <2>2. CASE k # 1
    <3>1. k \in 2..m /\ k - 1 \in 1..m /\ k - 1 # 0
      BY <1>1, <2>2
    <3>2. s[k].h.d <= s[k - 1].h.d
      BY <1>2, <3>1
    <3>3. ASSUME NEW i \in 1..k PROVE s[k].h.d <= s[i].h.d
      <4>1. CASE i = k
        BY <1>1, <4>1
      <4>2. CASE i # k
        <5>1. i \in 1..(k - 1) /\ i \in 1..m
          BY <1>1, <4>2
        <5>2. s[k - 1].h.d <= s[i].h.d
          BY <1>4, <3>1, <5>1
        <5>3. s[k].h.d \in Nat /\ s[k - 1].h.d \in Nat /\ s[i].h.d \in Nat
          BY <1>1, <3>1, <5>1
        <5> QED
          BY <3>2, <5>2, <5>3
      <4> QED
        BY <4>1, <4>2
    <3> QED
      BY <3>3
  <2> QED
    BY <2>1, <2>2
<1> HIDE DEF T
<1>5. \A k \in 0..m : k \in T
  BY <1>1, <1>3, <1>4, UpToLast
<1> QED
  BY <1>1, <1>5 DEF T, Falls

LEMMA FallsNewest ==
  ASSUME NEW s \in Seq(Sections), Falls(s)
  PROVE  NewestFirst(s)
<1>1. \A n \in 2..Len(s) : n \in 1..Len(s) /\ n - 1 \in 1..n
  OBVIOUS
<1> QED
  BY <1>1 DEF Falls, NewestFirst

LEMMA OneAfterAnother ==
  ASSUME NEW s \in Seq(Sections), NEW t \in Seq(Sections), Falls(s), Falls(t), OneByOne(s), OneByOne(t), Before(s, t)
  PROVE  Falls(s \o t) /\ OneByOne(s \o t)
<1> DEFINE m == Len(s)
           n == Len(t)
           u == s \o t
<1>1. m \in Nat /\ n \in Nat /\ Len(u) = m + n
  OBVIOUS
<1>2. (\A i \in 1..m : u[i] = s[i]) /\ \A i \in 1..n : u[m + i] = t[i]
  OBVIOUS
<1>3. \A i \in 1..(m + n) : i \in 1..m \/ \E j \in 1..n : i = m + j
  <2>1. ASSUME NEW i \in 1..(m + n), i \notin 1..m PROVE i - m \in 1..n /\ i = m + (i - m)
    BY <1>1, <2>1
  <2> QED
    BY <2>1
<1> HIDE DEF u
<1>4. ASSUME NEW j \in 1..(m + n), NEW i \in 1..j PROVE u[j].h.d <= u[i].h.d
  <2>1. i \in 1..(m + n)
    BY <1>1
  <2>2. CASE j \in 1..m
    <3>1. i \in 1..m
      BY <1>1, <2>2
    <3> QED
      BY <1>2, <2>2, <3>1 DEF Falls
  <2>3. ASSUME NEW b \in 1..n, j = m + b, i \in 1..m PROVE u[j].h.d <= u[i].h.d
    BY <1>2, <2>3 DEF Before
  <2>4. ASSUME NEW b \in 1..n, j = m + b, NEW a \in 1..n, i = m + a PROVE u[j].h.d <= u[i].h.d
    <3>1. a \in 1..b
      BY <1>1, <2>4
    <3> QED
      BY <1>2, <2>4, <3>1 DEF Falls
  <2> QED
    BY <1>3, <2>1, <2>2, <2>3, <2>4
<1>5. ASSUME NEW i \in 1..(m + n), NEW j \in 1..(m + n), u[i].h = u[j].h PROVE i = j
  <2>1. CASE i \in 1..m /\ j \in 1..m
    BY <1>2, <1>5, <2>1 DEF OneByOne
  <2>2. ASSUME i \in 1..m, NEW b \in 1..n, j = m + b PROVE FALSE
    BY <1>2, <1>5, <2>2 DEF Before
  <2>3. ASSUME j \in 1..m, NEW a \in 1..n, i = m + a PROVE FALSE
    BY <1>2, <1>5, <2>3 DEF Before
  <2>4. ASSUME NEW a \in 1..n, i = m + a, NEW b \in 1..n, j = m + b PROVE i = j
    BY <1>2, <1>5, <2>4 DEF OneByOne
  <2> QED
    BY <1>3, <2>1, <2>2, <2>3, <2>4
<1> QED
  BY <1>1, <1>4, <1>5 DEF Falls, OneByOne, u

LEMMA FlattenFalls ==
  ASSUME NEW m \in Nat, m # 0, NEW seqs \in [1..m -> Seq(Sections)],
         \A k \in 1..m : Falls(seqs[k]) /\ OneByOne(seqs[k]),
         \A k \in 1..m : \A i \in 1..(k - 1) : Before(seqs[i], seqs[k])
  PROVE  FlattenSeq(seqs) \in Seq(Sections) /\ Falls(FlattenSeq(seqs)) /\ OneByOne(FlattenSeq(seqs))
<1> DEFINE V == Seq(Sections)
<1>1. PICK run \in [0..m -> V] : Chained(run, m, seqs) /\ FlattenSeq(seqs) = run[m]
  BY FlattenRun
<1> DEFINE Good(k) == /\ Falls(run[k]) /\ OneByOne(run[k])
                      /\ \A n \in 1..Len(run[k]) : \E i \in 1..k : \E j \in 1..Len(seqs[i]) : run[k][n] = seqs[i][j]
           T == {k \in 0..m : Good(k)}
<1>2. 0 \in T
  <2>1. run[0] = <<>> /\ 0 \in 0..m
    BY <1>1 DEF Chained
  <2>2. Len(run[0]) = 0
    BY <2>1
  <2> QED
    BY <2>1, <2>2 DEF Falls, OneByOne
<1>3. ASSUME NEW k \in 1..m, k - 1 \in T PROVE k \in T
  <2> DEFINE s == run[k - 1]
             t == seqs[k]
  <2>1. run[k] = s \o t /\ s \in V /\ t \in V /\ k - 1 \in 0..m /\ k \in 0..m
    <3>1. k - 1 \in 0..m /\ k \in 0..m
      OBVIOUS
    <3>2. run[k] = s \o t
      BY <1>1 DEF Chained
    <3>3. t \in V
      OBVIOUS
    <3> HIDE DEF V
    <3>4. s \in V
      BY <3>1
    <3> QED
      BY <3>1, <3>2, <3>3, <3>4
  <2>2. Good(k - 1)
    BY <1>3
  <2>3. Before(s, t)
    <3> SUFFICES ASSUME NEW a \in 1..Len(s), NEW b \in 1..Len(t)
                 PROVE  t[b].h.d <= s[a].h.d /\ t[b].h # s[a].h
      BY DEF Before
    <3>1. PICK i \in 1..(k - 1) : \E j \in 1..Len(seqs[i]) : s[a] = seqs[i][j]
      BY <2>2
    <3>2. PICK j \in 1..Len(seqs[i]) : s[a] = seqs[i][j]
      BY <3>1
    <3>3. Before(seqs[i], seqs[k])
      BY <3>1
    <3> QED
      BY <3>2, <3>3 DEF Before
  <2>4. Falls(s \o t) /\ OneByOne(s \o t)
    <3> HIDE DEF s
    <3>1. Falls(t) /\ OneByOne(t)
      OBVIOUS
    <3>2. Falls(s) /\ OneByOne(s)
      BY <2>2 DEF s
    <3> HIDE DEF t
    <3> QED
      BY <2>1, <2>3, <3>1, <3>2, OneAfterAnother
  <2>5. ASSUME NEW n \in 1..Len(s \o t)
        PROVE  \E i \in 1..k : \E j \in 1..Len(seqs[i]) : (s \o t)[n] = seqs[i][j]
    <3>1. CASE n \in 1..Len(s)
      <4>1. (s \o t)[n] = s[n]
        BY <2>1, <3>1
      <4>2. PICK i \in 1..(k - 1) : \E j \in 1..Len(seqs[i]) : s[n] = seqs[i][j]
        BY <2>2, <3>1
      <4>3. i \in 1..k
        OBVIOUS
      <4> QED
        BY <4>1, <4>2, <4>3
    <3>2. CASE n \notin 1..Len(s)
      <4>1. n - Len(s) \in 1..Len(t) /\ (s \o t)[n] = t[n - Len(s)]
        BY <2>1, <3>2
      <4>2. k \in 1..k
        OBVIOUS
      <4> QED
        BY <4>1, <4>2
    <3> QED
      BY <3>1, <3>2
  <2>6. Good(k)
    <3> DEFINE u == s \o t
    <3>1. Falls(u) /\ OneByOne(u) /\ \A n \in 1..Len(u) : \E i \in 1..k : \E j \in 1..Len(seqs[i]) : u[n] = seqs[i][j]
      BY <2>4, <2>5
    <3>2. run[k] = u
      BY <2>1
    <3> HIDE DEF u
    <3> QED
      BY <3>1, <3>2
  <2> QED
    BY <2>1, <2>6
<1>4. \A k \in 0..m : k \in T
  <2> HIDE DEF T
  <2> QED
    BY <1>2, <1>3, UpToLast
<1>5. m \in 0..m
  OBVIOUS
<1>6. Good(m) /\ run[m] \in V
  BY <1>4, <1>5
<1> QED
  BY <1>1, <1>6
(* What check 8d asks of the order of the files. *)
InOrder(t) ==
  /\ NewestFirst(releases(t[Root])) /\ Distinct(t)
  /\ \A m \in VolumesOf(t) :
       /\ NewestFirst(releases(t[m]))
       /\ \A b \in InFile(t, m) : /\ Month(b.h.d) = m
                                  /\ releases(t[Root]) # <<>> => b.h.d < Last(releases(t[Root])).h.d

LEMMA StructureInOrder ==
  ASSUME NEW t \in Ledgers, Structure(t)
  PROVE  InOrder(t)
<1>1. NewestFirst(releases(t[Root])) /\ Distinct(t)
  BY DEF Structure
<1>2. ASSUME NEW m \in VolumesOf(t), NEW b \in InFile(t, m) PROVE Month(b.h.d) = m
  <2>1. t[m] \in Files
    BY FileTypes, VolumesAreNoRoot
  <2>2. PICK n \in DOMAIN releases(t[m]) : b = releases(t[m])[n]
    BY DEF InFile, Range
  <2>3. b \in Range(parse(t[m]).blocks)
    BY <2>1, <2>2, OfKindElements DEF releases
  <2> QED
    BY <2>3 DEF Structure
<1>3. \A m \in VolumesOf(t) : /\ NewestFirst(releases(t[m]))
                              /\ \A b \in InFile(t, m) : releases(t[Root]) # <<>> => b.h.d < Last(releases(t[Root])).h.d
  BY DEF Structure
<1> QED
  BY <1>1, <1>2, <1>3 DEF InOrder

LEMMA MonthsFall ==
  ASSUME NEW c \in Nat, NEW d \in Nat, Month(c) < Month(d)
  PROVE  c <= d
BY DEF Month

LEMMA InOrderLedger ==
  ASSUME main \in Ledgers, InOrder(main)
  PROVE  OneLedger
<1> DEFINE N == Max(Volumes)
           at(n) == IF n = 1 THEN Root ELSE N + 2 - n
           seqs == [n \in 1..(N + 1) |-> releases(main[at(n)])]
<1>1. N \in Nat /\ N # 0 /\ Volumes = 1..N
  BY VolumeNumbers
<1>2. AllReleases = FlattenSeq(seqs)
  <2>1. seqs = [n \in 1..Max(Volumes) + 1 |-> releases(main[IF n = 1 THEN Root ELSE Max(Volumes) + 2 - n])]
    OBVIOUS
  <2> HIDE DEF seqs
  <2> QED
    BY <2>1 DEF AllReleases
<1> HIDE DEF N
<1>3. \A n \in 1..(N + 1) : at(n) \in {Root} \cup Volumes /\ (n # 1 => at(n) \in Volumes)
  BY <1>1
<1>4. \A i, j \in 1..(N + 1) : i < j => j # 1 /\ at(i) # at(j) /\ (i # 1 => at(j) < at(i) /\ at(i) \in Nat /\ at(j) \in Nat)
  BY <1>1 DEF Root
<1> HIDE DEF at
<1>5. \A f \in {Root} \cup Volumes : releases(main[f]) \in Seq(Sections)
  BY FileTypes
<1>6. seqs \in [1..(N + 1) -> Seq(Sections)] /\ \A n \in 1..(N + 1) : seqs[n] = releases(main[at(n)])
  BY <1>3, <1>5
<1>7. \A m \in Volumes : releases(main[m]) # <<>> => m \in VolumesOf(main)
  BY FirstReleases DEF VolumesOf
<1>8. ASSUME NEW f \in {Root} \cup Volumes PROVE Falls(releases(main[f])) /\ OneByOne(releases(main[f]))
  <2> DEFINE s == releases(main[f])
  <2>1. s \in Seq(Sections) /\ DOMAIN s = 1..Len(s)
    BY <1>5
  <2>2. OneByOne(s)
    BY <2>1, OneOfAHeading DEF OneByOne, InOrder
  <2>3. NewestFirst(s)
    <3>1. CASE f = Root
      BY <3>1 DEF InOrder
    <3>2. CASE s = <<>>
      BY <3>2 DEF NewestFirst
    <3>3. CASE f \in Volumes /\ s # <<>>
      BY <1>7, <3>3 DEF InOrder
    <3> QED
      BY <3>1, <3>2, <3>3
  <2>4. Falls(s)
    <3> HIDE DEF s
    <3> QED
      BY <2>1, <2>3, NewestFalls
  <2> QED
    BY <2>2, <2>4
<1>9. ASSUME NEW j \in 1..(N + 1), NEW i \in 1..(j - 1) PROVE Before(seqs[i], seqs[j])
  <2> DEFINE f == at(i)
             g == at(j)
             s == releases(main[f])
             t == releases(main[g])
  <2>1. i \in 1..(N + 1) /\ i < j
    BY <1>1
  <2>2. f \in {Root} \cup Volumes /\ g \in Volumes /\ f # g /\ (i # 1 => g < f /\ f \in Volumes /\ f \in Nat /\ g \in Nat)
    BY <1>3, <1>4, <2>1
  <2>3. s \in Seq(Sections) /\ t \in Seq(Sections) /\ seqs[i] = s /\ seqs[j] = t
    BY <1>5, <1>6, <2>1, <2>2
  <2> SUFFICES ASSUME NEW a \in 1..Len(s), NEW b \in 1..Len(t)
               PROVE  t[b].h.d <= s[a].h.d /\ t[b].h # s[a].h
    BY <2>3 DEF Before
  <2>4. a \in DOMAIN s /\ b \in DOMAIN t /\ s # <<>> /\ t # <<>>
    BY <2>3
  <2>5. s[a] \in InFile(main, f) /\ t[b] \in InFile(main, g)
    BY <2>4 DEF InFile, Range
  <2>6. t[b].h # s[a].h
    BY <2>2, <2>4, OneOfAHeading DEF InOrder
  <2>7. s[a].h.d \in Nat /\ t[b].h.d \in Nat
    BY <2>3, SectionDates
  <2>8. g \in VolumesOf(main)
    BY <1>7, <2>2, <2>4
  <2>9. CASE f = Root
    <3>1. t[b].h.d < Last(s).h.d
      BY <2>4, <2>5, <2>8, <2>9 DEF InOrder
    <3>2. Last(s).h.d <= s[a].h.d /\ Last(s).h.d \in Nat
      <4>1. Len(s) \in 1..Len(s) /\ a \in 1..Len(s) /\ Last(s) = s[Len(s)]
        BY <2>3, <2>4 DEF Last
      <4>2. Falls(s)
        BY <1>8, <2>2
      <4>3. s[Len(s)].h.d \in Nat
        BY <2>3, <4>1, SectionDates
      <4> QED
        BY <4>1, <4>2, <4>3 DEF Falls
    <3> QED
      BY <2>6, <2>7, <3>1, <3>2
  <2>10. CASE f # Root
    <3>1. i # 1
      BY <2>10 DEF at
    <3>2. f \in VolumesOf(main) /\ g < f
      BY <1>7, <2>2, <2>4, <3>1
    <3>3. Month(s[a].h.d) = f /\ Month(t[b].h.d) = g
      BY <2>5, <2>8, <3>2 DEF InOrder
    <3>4. Month(t[b].h.d) < Month(s[a].h.d)
      BY <3>2, <3>3
    <3>5. t[b].h.d <= s[a].h.d
      BY <2>7, <3>4, MonthsFall
    <3> QED
      BY <2>6, <3>5
  <2> QED
    BY <2>9, <2>10
<1>10. AllReleases \in Seq(Sections) /\ Falls(AllReleases) /\ OneByOne(AllReleases)
  <2>1. N + 1 \in Nat /\ N + 1 # 0
    BY <1>1
  <2>2. \A k \in 1..(N + 1) : Falls(seqs[k]) /\ OneByOne(seqs[k])
    BY <1>3, <1>6, <1>8
  <2> HIDE DEF seqs
  <2> QED
    BY <1>2, <1>6, <1>9, <2>1, <2>2, FlattenFalls
<1>11. DOMAIN AllReleases = 1..Len(AllReleases)
  BY <1>10
<1>12. IsInjective([n \in DOMAIN AllReleases |-> AllReleases[n].h])
  BY <1>10, <1>11 DEF IsInjective, OneByOne
<1> QED
  BY <1>10, <1>12, FallsNewest DEF OneLedger

LEMMA FirstInOrder == Init => InOrder(main)
<1> SUFFICES ASSUME Init PROVE InOrder(main)
  OBVIOUS
<1> DEFINE root == releases(main[Root])
           one == releases(main[1])
<1>1. /\ Item(3, 1).h = Release(3, 3) /\ Item(2, 1).h = Release(2, 2) /\ Item(1, 2).h = Release(1, 1)
      /\ \A v, d : Release(v, d).d = d
  BY DEF Item, Release, Blank
<1>2. root = <<Item(3, 1), Item(2, 1)>> /\ one = <<Item(1, 2)>> /\ VolumesOf(main) = {1}
  BY FirstSections
<1>3. /\ Len(root) = 2 /\ root[1].h = Release(3, 3) /\ root[2].h = Release(2, 2) /\ Last(root) = root[2]
      /\ Len(one) = 1 /\ one[1].h = Release(1, 1)
  BY <1>1, <1>2 DEF Last
<1>4. NewestFirst(root) /\ NewestFirst(one)
  BY <1>1, <1>3 DEF NewestFirst
<1>5. \A b \in InFile(main, 1) : Month(b.h.d) = 1 /\ b.h.d < Last(root).h.d
  <2>1. InFile(main, 1) = {Item(1, 2)}
    <3>1. \A a : Range(<<a>>) = {a}
      BY DEF Range
    <3> QED
      BY <1>2, <3>1 DEF InFile
  <2> QED
    BY <1>1, <1>3, <2>1 DEF Month
<1>6. Distinct(main)
  <2>1. Places(main) = {<<Root, 1>>, <<Root, 2>>, <<1, 1>>}
    <3>1. DOMAIN root = {1, 2} /\ DOMAIN one = {1}
      BY <1>2
    <3>2. \A m \in Volumes : m # 1 => DOMAIN releases(main[m]) = {}
      BY FirstSections
    <3>3. 1 \in Volumes
      BY FirstMain
    <3> QED
      BY <3>1, <3>2, <3>3 DEF Places
  <2> DEFINE heads == [p \in Places(main) |-> releases(main[p[1]])[p[2]].h]
  <2>2. /\ heads[<<Root, 1>>] = Release(3, 3) /\ heads[<<Root, 2>>] = Release(2, 2) /\ heads[<<1, 1>>] = Release(1, 1)
    BY <1>3, <2>1
  <2>3. Release(3, 3) # Release(2, 2) /\ Release(3, 3) # Release(1, 1) /\ Release(2, 2) # Release(1, 1)
    BY <1>1
  <2>4. \A p, q \in Places(main) : heads[p] = heads[q] => p = q
    <3> HIDE DEF heads
    <3> QED
      BY <2>1, <2>2, <2>3
  <2> QED
    BY <2>4 DEF Distinct, IsInjective
<1> QED
  BY <1>2, <1>4, <1>5, <1>6 DEF InOrder

LEMMA InOrderStep == TypeInv /\ InOrder(main) /\ [Next]_vars => InOrder(main)'
<1> SUFFICES ASSUME TypeInv, InOrder(main), [Next]_vars PROVE InOrder(main)'
  OBVIOUS
<1>1. CASE Land
  <2>1. Structure(tree) /\ main' = tree
    BY <1>1 DEF Land, checkLedger, ButForLength
  <2>2. InOrder(tree)
    BY <2>1, StructureInOrder DEF TypeInv
  <2> QED
    BY <2>1, <2>2 DEF InOrder, Distinct, Places, VolumesOf, InFile
<1>2. CASE UNCHANGED main
  BY <1>2 DEF InOrder, Distinct, Places, VolumesOf, InFile
<1>3. ~Land => UNCHANGED main
  BY DEF Next, vars, AddItem, Bump, Tamper, Rotate, Write, Crash, Discard, Edited
<1> QED
  BY <1>1, <1>2, <1>3

(* Main is one ledger over its files, newest first and no heading twice:   *)
(* what check 8d asks of each file, of the months of the volumes and of    *)
(* the seam to the root adds up to it.                                     *)
THEOREM OneLedgerKept == Spec => []OneLedger
<1>1. TypeInv /\ InOrder(main) => OneLedger
  BY InOrderLedger DEF TypeInv
<1> QED
  BY <1>1, TypeInit, TypeStep, FirstInOrder, InOrderStep, PTL DEF Spec
-----------------------------------------------------------------------------
(* What is parsed.  Sections begin with their heading and have no other,   *)
(* and only the last one may end in the middle of a line.                  *)
Plain(lines) == \A n \in 1..Len(lines) : ~IsHeading(lines[n])
Whole(z) == Plain(z.head) /\ \A n \in 1..Len(z.blocks) : Plain(z.blocks[n].body) /\ z.blocks[n].ends

LEMMA PlainMore ==
  ASSUME NEW lines \in Seq(Lines), Plain(lines), NEW l \in Lines, ~IsHeading(l)
  PROVE  Plain(Append(lines, l))
<1>1. ASSUME NEW n \in 1..Len(Append(lines, l)) PROVE ~IsHeading(Append(lines, l)[n])
  <2>1. CASE n \in 1..Len(lines)
    BY <2>1 DEF Plain
  <2>2. CASE n = Len(lines) + 1
    BY <2>2
  <2> QED
    BY <2>1, <2>2
<1> QED
  BY <1>1 DEF Plain

LEMMA SplitFields ==
  ASSUME NEW z \in Parses, NEW l \in Lines, ~IsHeading(l), z.blocks # <<>>
  PROVE  /\ Split(z, l).head = z.head /\ Len(Split(z, l).blocks) = Len(z.blocks)
         /\ \A i \in 1..Len(z.blocks) :
              /\ Split(z, l).blocks[i].h = z.blocks[i].h /\ Split(z, l).blocks[i].ends = z.blocks[i].ends
              /\ Split(z, l).blocks[i].body = IF i = Len(z.blocks) THEN Append(z.blocks[i].body, l) ELSE z.blocks[i].body
<1> DEFINE n == Len(z.blocks)
           b == z.blocks[n]
           c == [b EXCEPT !.body = Append(b.body, l)]
           blocks == [z.blocks EXCEPT ![n] = c]
<1>1. z.head \in Seq(Lines) /\ z.blocks \in Seq(Sections) /\ z = [head |-> z.head, blocks |-> z.blocks]
  BY DEF Parses
<1>2. n \in 1..n /\ b \in Sections
  BY <1>1
<1>3. Split(z, l) = [z EXCEPT !.blocks = blocks]
  BY DEF Split
<1>4. c.h = b.h /\ c.ends = b.ends /\ c.body = Append(b.body, l)
  <2> HIDE DEF b
  <2> QED
    BY <1>2 DEF Sections
<1> HIDE DEF c
<1>5. Len(blocks) = n /\ \A i \in 1..n : blocks[i] = IF i = n THEN c ELSE z.blocks[i]
  BY <1>1, <1>2
<1> HIDE DEF blocks
<1>6. Split(z, l).head = z.head /\ Split(z, l).blocks = blocks
  BY <1>1, <1>3
<1> QED
  BY <1>4, <1>5, <1>6

LEMMA SplitWhole ==
  ASSUME NEW z \in Parses, NEW l \in Lines, Whole(z)
  PROVE  Whole(Split(z, l))
<1>1. z.head \in Seq(Lines) /\ z.blocks \in Seq(Sections) /\ z = [head |-> z.head, blocks |-> z.blocks]
  BY DEF Parses
<1>2. CASE IsHeading(l)
  <2>1. Split(z, l).head = z.head /\ Split(z, l).blocks = Append(z.blocks, Block(l))
    BY <1>1, <1>2 DEF Split
  <2>2. Plain(Block(l).body) /\ Block(l).ends
    BY DEF Plain, Block
  <2>3. ASSUME NEW n \in 1..Len(Append(z.blocks, Block(l)))
        PROVE  Plain(Append(z.blocks, Block(l))[n].body) /\ Append(z.blocks, Block(l))[n].ends
    <3>1. CASE n \in 1..Len(z.blocks)
      <4>1. Append(z.blocks, Block(l))[n] = z.blocks[n]
        BY <1>1, <3>1
      <4> QED
        BY <3>1, <4>1 DEF Whole
    <3>2. CASE n = Len(z.blocks) + 1
      <4>1. Append(z.blocks, Block(l))[n] = Block(l)
        BY <1>1, <3>2
      <4> QED
        BY <2>2, <4>1
    <3> QED
      BY <1>1, <3>1, <3>2
  <2> QED
    BY <2>1, <2>3 DEF Whole
<1>3. CASE ~IsHeading(l) /\ z.blocks = <<>>
  <2>1. Split(z, l).head = Append(z.head, l) /\ Split(z, l).blocks = <<>>
    BY <1>1, <1>3 DEF Split
  <2>2. Plain(Append(z.head, l))
    BY <1>1, <1>3, PlainMore DEF Whole
  <2> QED
    BY <2>1, <2>2 DEF Whole
<1>4. CASE ~IsHeading(l) /\ z.blocks # <<>>
  <2>1. Split(z, l).head = z.head /\ Len(Split(z, l).blocks) = Len(z.blocks)
    BY <1>4, SplitFields
  <2>2. ASSUME NEW i \in 1..Len(z.blocks) PROVE Plain(Split(z, l).blocks[i].body) /\ Split(z, l).blocks[i].ends
    <3>1. /\ Split(z, l).blocks[i].ends = z.blocks[i].ends
          /\ Split(z, l).blocks[i].body = IF i = Len(z.blocks) THEN Append(z.blocks[i].body, l) ELSE z.blocks[i].body
      BY <1>4, SplitFields
    <3>4. z.blocks[i] \in Sections
      BY <1>1
    <3>2. z.blocks[i].body \in Seq(Lines) /\ Plain(z.blocks[i].body) /\ z.blocks[i].ends
      BY <3>4 DEF Whole, Sections
    <3>3. Plain(Append(z.blocks[i].body, l))
      BY <1>4, <3>2, PlainMore
    <3> QED
      BY <3>1, <3>2, <3>3
  <2> QED
    BY <2>1, <2>2 DEF Whole
<1> QED
  BY <1>2, <1>3, <1>4

Parsed(lines) == FoldLeft(Split, Empty, lines)

LEMMA ParsedWhole ==
  ASSUME NEW lines \in Seq(Lines)
  PROVE  Parsed(lines) \in Parses /\ Whole(Parsed(lines))
<1> DEFINE m == Len(lines)
<1>1. PICK run \in [0..m -> Parses] : Splits(run, lines) /\ Parsed(lines) = run[m]
  BY SplitRun DEF Parsed
<1> DEFINE T == {k \in 0..m : Whole(run[k])}
<1>2. 0 \in T
  BY <1>1 DEF Splits, Empty, Whole, Plain
<1>3. ASSUME NEW k \in 1..m, k - 1 \in T PROVE k \in T
  <2>1. run[k] = Split(run[k - 1], lines[k]) /\ run[k - 1] \in Parses /\ lines[k] \in Lines
    BY <1>1 DEF Splits
  <2> QED
    BY <1>3, <2>1, SplitWhole
<1>4. \A k \in 0..m : k \in T
  <2>1. m \in Nat
    OBVIOUS
  <2> HIDE DEF T, m
  <2> QED
    BY <1>2, <1>3, <2>1, UpToLast
<1>5. m \in 0..m
  OBVIOUS
<1> QED
  BY <1>1, <1>4, <1>5

LEMMA ParseFields ==
  ASSUME NEW file \in Files
  PROVE  LET z == Parsed(file.lines)  y == parse(file)
         IN  /\ y.head = z.head /\ Len(y.blocks) = Len(z.blocks)
             /\ \A i \in 1..Len(z.blocks) :
                  /\ y.blocks[i].h = z.blocks[i].h /\ y.blocks[i].body = z.blocks[i].body
                  /\ y.blocks[i].ends = IF i = Len(z.blocks) THEN file.ends ELSE z.blocks[i].ends
<1> DEFINE z == Parsed(file.lines)
           y == parse(file)
           n == Len(z.blocks)
           c == [z.blocks[n] EXCEPT !.ends = file.ends]
<1>1. file.lines \in Seq(Lines) /\ file.ends \in BOOLEAN
  BY DEF Files
<1>2. z \in Parses
  BY <1>1, ParsedWhole
<1>3. y = IF z.blocks = <<>> THEN z ELSE [z EXCEPT !.blocks[n].ends = file.ends]
  BY DEF parse, Empty, Parsed
<1> HIDE DEF z, y
<1>4. z.blocks \in Seq(Sections)
  BY <1>2 DEF Parses
<1>5. CASE z.blocks = <<>>
  BY <1>3, <1>4, <1>5 DEF z, y
<1>6. CASE z.blocks # <<>>
  <2>1. n \in 1..n /\ z.blocks[n] \in Sections
    BY <1>4, <1>6
  <2>2. c.h = z.blocks[n].h /\ c.body = z.blocks[n].body /\ c.ends = file.ends
    BY <2>1 DEF Sections
  <2> HIDE DEF c
  <2> DEFINE blocks == [z.blocks EXCEPT ![n] = c]
  <2>3. y = [z EXCEPT !.blocks = blocks]
    BY <1>3, <1>6 DEF c
  <2>4. Len(blocks) = n /\ \A i \in 1..n : blocks[i] = IF i = n THEN c ELSE z.blocks[i]
    BY <1>4, <2>1
  <2> HIDE DEF blocks
  <2>5. y.head = z.head /\ y.blocks = blocks
    BY <1>2, <2>3 DEF Parses
  <2>6. \A i \in 1..n : /\ y.blocks[i].h = z.blocks[i].h /\ y.blocks[i].body = z.blocks[i].body
                        /\ y.blocks[i].ends = IF i = n THEN file.ends ELSE z.blocks[i].ends
    BY <2>2, <2>4, <2>5
  <2> QED
    BY <2>4, <2>5, <2>6 DEF z, y
<1> QED
  BY <1>5, <1>6
(* What is rendered is parsed as what it was made of.  The file of some     *)
(* sections is the beginning of that of more.                               *)
LEMMA SplitOn ==
  ASSUME NEW lines \in Seq(Lines), NEW more \in Seq(Lines),
         NEW run \in [0..Len(lines \o more) -> Parses], Splits(run, lines \o more)
  PROVE  run[Len(lines)] = Parsed(lines)
<1> DEFINE m == Len(lines)
           all == lines \o more
<1>1. PICK r \in [0..m -> Parses] : Splits(r, lines) /\ Parsed(lines) = r[m]
  BY SplitRun DEF Parsed
<1>2. m \in Nat /\ \A k \in 1..m : k \in 1..Len(all) /\ all[k] = lines[k]
  OBVIOUS
<1>3. run[0] = Empty /\ \A k \in 1..Len(all) : run[k] = Split(run[k - 1], all[k])
  BY DEF Splits
<1> HIDE DEF all, m
<1> DEFINE T == {k \in 0..m : run[k] = r[k]}
<1>4. 0 \in T
  BY <1>1, <1>2, <1>3 DEF Splits
<1>5. ASSUME NEW k \in 1..m, k - 1 \in T PROVE k \in T
  <2>1. run[k] = Split(run[k - 1], lines[k])
    BY <1>2, <1>3
  <2>2. r[k] = Split(r[k - 1], lines[k])
    BY <1>1 DEF Splits, m
  <2>3. run[k - 1] = r[k - 1] /\ k \in 0..m
    BY <1>2, <1>5
  <2> QED
    BY <2>1, <2>2, <2>3
<1>6. \A k \in 0..m : k \in T
  <2> HIDE DEF T
  <2> QED
    BY <1>2, <1>4, <1>5, UpToLast
<1>7. m \in 0..m
  BY <1>2
<1> QED
  BY <1>1, <1>6, <1>7 DEF m

LEMMA SubSeqMore ==
  ASSUME NEW S, NEW s \in Seq(S), NEW j \in 1..Len(s)
  PROVE  Append(SubSeq(s, 1, j - 1), s[j]) = SubSeq(s, 1, j)
<1> DEFINE one == Append(SubSeq(s, 1, j - 1), s[j])
           other == SubSeq(s, 1, j)
<1>1. one \in Seq(S) /\ other \in Seq(S) /\ Len(one) = j /\ Len(other) = j
  OBVIOUS
<1>2. \A i \in 1..j : one[i] = s[i] /\ other[i] = s[i]
  OBVIOUS
<1> HIDE DEF one, other
<1>3. one = other
  BY <1>1, <1>2, SeqEqual
<1> QED
  BY <1>3 DEF one, other

LEMMA WholeSubSeq ==
  ASSUME NEW S, NEW s \in Seq(S)
  PROVE  SubSeq(s, 1, Len(s)) = s /\ SubSeq(s, 1, 0) = <<>>
<1> DEFINE t == SubSeq(s, 1, Len(s))
<1>1. t \in Seq(S) /\ Len(t) = Len(s) /\ \A i \in 1..Len(s) : t[i] = s[i]
  OBVIOUS
<1> HIDE DEF t
<1>2. t = s
  BY <1>1, SeqEqual
<1> QED
  BY <1>2 DEF t

LEMMA ParsedHead ==
  ASSUME NEW head \in Seq(Lines), Plain(head)
  PROVE  Parsed(head).blocks = <<>> /\ Parsed(head).head = head
<1> DEFINE m == Len(head)
<1>1. PICK run \in [0..m -> Parses] : Splits(run, head) /\ Parsed(head) = run[m]
  BY SplitRun DEF Parsed
<1>2. m \in Nat
  OBVIOUS
<1> HIDE DEF m
<1> DEFINE T == {k \in 0..m : run[k].blocks = <<>> /\ run[k].head = SubSeq(head, 1, k)}
<1>3. 0 \in T
  <2>1. run[0].blocks = <<>> /\ run[0].head = <<>> /\ 0 \in 0..m
    BY <1>1, <1>2 DEF Splits, Empty
  <2>2. SubSeq(head, 1, 0) = <<>>
    BY WholeSubSeq
  <2> QED
    BY <2>1, <2>2
<1>4. ASSUME NEW k \in 1..m, k - 1 \in T PROVE k \in T
  <2> DEFINE z == run[k - 1]
  <2>1. run[k] = Split(z, head[k]) /\ ~IsHeading(head[k])
    BY <1>1 DEF Splits, Plain, m
  <2>2. z.blocks = <<>> /\ z.head = SubSeq(head, 1, k - 1) /\ z \in Parses /\ k \in 0..m
    BY <1>2, <1>4
  <2>4. Append(SubSeq(head, 1, k - 1), head[k]) = SubSeq(head, 1, k)
    BY SubSeqMore DEF m
  <2> HIDE DEF z
  <2>3. Split(z, head[k]).blocks = <<>> /\ Split(z, head[k]).head = Append(z.head, head[k])
    BY <2>1, <2>2 DEF Split, Parses
  <2> QED
    BY <2>1, <2>2, <2>3, <2>4
<1>5. \A k \in 0..m : k \in T
  <2> HIDE DEF T
  <2> QED
    BY <1>2, <1>3, <1>4, UpToLast
<1>6. m \in 0..m
  BY <1>2
<1>7. SubSeq(head, 1, m) = head
  BY WholeSubSeq DEF m
<1> QED
  BY <1>1, <1>5, <1>6, <1>7

(* A section that is joined to a file that ends with its line is one more   *)
(* section of it.                                                           *)
Like(b, c) == b.h = c.h /\ b.body = c.body
LEMMA ParsedSection ==
  ASSUME NEW lines \in Seq(Lines), NEW b \in Sections, Plain(b.body)
  PROVE  LET z == Parsed(lines).blocks  y == Parsed(lines \o Text(b)).blocks
         IN  /\ Len(y) = Len(z) + 1 /\ Like(y[Len(z) + 1], b)
             /\ \A i \in 1..Len(z) : Like(y[i], z[i])
             /\ Parsed(lines \o Text(b)).head = Parsed(lines).head
<1> DEFINE z == Parsed(lines)
           q == Len(z.blocks)
           all == lines \o Text(b)
           m == Len(lines)
           n == Len(b.body)
<1>1. b.h \in Lines /\ IsHeading(b.h) /\ b.body \in Seq(Lines) /\ n \in Nat /\ m \in Nat
  BY LineTypes DEF Sections, Heads
<1>2. Text(b) \in Seq(Lines) /\ Len(Text(b)) = n + 1 /\ Text(b)[1] = b.h /\ \A j \in 1..n : Text(b)[j + 1] = b.body[j]
  BY TextType
<1>3. all \in Seq(Lines) /\ Len(all) = m + n + 1 /\ \A i \in 1..(n + 1) : all[m + i] = Text(b)[i]
  <2> DEFINE text == Text(b)
  <2>1. text \in Seq(Lines) /\ Len(text) = n + 1
    BY <1>2
  <2> HIDE DEF text, n
  <2>2. lines \o text \in Seq(Lines) /\ Len(lines \o text) = m + n + 1 /\ \A i \in 1..(n + 1) : (lines \o text)[m + i] = text[i]
    BY <1>1, <2>1
  <2> QED
    BY <2>2 DEF text
<1>4. all[m + 1] = b.h /\ \A j \in 1..n : all[m + 1 + j] = b.body[j]
  <2>1. 1 \in 1..(n + 1)
    BY <1>1
  <2>2. ASSUME NEW j \in 1..n PROVE j + 1 \in 1..(n + 1) /\ m + (j + 1) = m + 1 + j
    BY <1>1
  <2> HIDE DEF all
  <2> QED
    BY <1>2, <1>3, <2>1, <2>2
<1>5. PICK run \in [0..Len(all) -> Parses] : Splits(run, all) /\ Parsed(all) = run[Len(all)]
  BY <1>3, SplitRun DEF Parsed
<1>6. run[m] = z
  BY <1>2, <1>5, SplitOn
<1>7. z \in Parses /\ z.blocks \in Seq(Sections) /\ q \in Nat
  <2>1. z \in Parses
    BY ParsedWhole
  <2> HIDE DEF z
  <2> QED
    BY <2>1 DEF Parses
<1> HIDE DEF all, z, m, n
<1>8. \A k \in 1..(m + n + 1) : run[k] = Split(run[k - 1], all[k]) /\ run[k - 1] \in Parses
  <2>1. \A k \in 1..(m + n + 1) : k - 1 \in 0..Len(all)
    BY <1>1, <1>3
  <2> QED
    BY <1>3, <1>5, <2>1 DEF Splits
<1> DEFINE G(y, j) == /\ y.head = z.head
                      /\ Len(y.blocks) = q + 1 /\ \A i \in 1..q : Like(y.blocks[i], z.blocks[i])
                      /\ y.blocks[q + 1].h = b.h /\ y.blocks[q + 1].body = SubSeq(b.body, 1, j)
           T == {j \in 0..n : G(run[m + 1 + j], j)}
<1>9. 0 \in T
  <2>1. m + 1 \in 1..(m + n + 1) /\ (m + 1) - 1 = m
    BY <1>1
  <2>2. run[m + 1] = Split(z, b.h)
    BY <1>4, <1>6, <1>8, <2>1
  <2>3. Split(z, b.h).blocks = Append(z.blocks, Block(b.h)) /\ Split(z, b.h).head = z.head
    BY <1>1, <1>7 DEF Split, Parses
  <2>4. Len(Append(z.blocks, Block(b.h))) = q + 1 /\ Append(z.blocks, Block(b.h))[q + 1] = Block(b.h)
        /\ \A i \in 1..q : Append(z.blocks, Block(b.h))[i] = z.blocks[i]
    BY <1>7
  <2>5. Block(b.h).h = b.h /\ Block(b.h).body = SubSeq(b.body, 1, 0)
    BY <1>1, WholeSubSeq DEF Block
  <2>6. G(run[m + 1], 0)
    BY <2>2, <2>3, <2>4, <2>5 DEF Like
  <2>7. m + 1 + 0 = m + 1 /\ 0 \in 0..n
    BY <1>1
  <2> HIDE DEF G
  <2> QED
    BY <2>6, <2>7
<1>10. ASSUME NEW j \in 1..n, j - 1 \in T PROVE j \in T
  <2> DEFINE y == run[m + 1 + (j - 1)]
             l == b.body[j]
  <2>1. m + 1 + j \in 1..(m + n + 1) /\ (m + 1 + j) - 1 = m + 1 + (j - 1) /\ j \in 0..n
    BY <1>1
  <2>2. run[m + 1 + j] = Split(y, l) /\ y \in Parses
    BY <1>4, <1>8, <2>1
  <2>3. G(y, j - 1)
    BY <1>10
  <2>4. l \in Lines /\ ~IsHeading(l)
    BY <1>1 DEF Plain, n
  <2> HIDE DEF y, l
  <2>5. y.blocks \in Seq(Sections) /\ y.blocks # <<>> /\ q + 1 = Len(y.blocks) /\ q + 1 \in 1..Len(y.blocks)
        /\ \A i \in 1..q : i \in 1..Len(y.blocks) /\ i # Len(y.blocks)
    BY <1>7, <2>2, <2>3 DEF Parses
  <2> DEFINE x == Split(y, l)
  <2>6. /\ Len(x.blocks) = Len(y.blocks) /\ x.head = y.head
        /\ \A i \in 1..Len(y.blocks) : /\ x.blocks[i].h = y.blocks[i].h
                                       /\ x.blocks[i].body = IF i = Len(y.blocks) THEN Append(y.blocks[i].body, l) ELSE y.blocks[i].body
    BY <2>2, <2>4, <2>5, SplitFields
  <2> HIDE DEF x
  <2>7. Append(SubSeq(b.body, 1, j - 1), l) = SubSeq(b.body, 1, j)
    <3>1. j \in 1..Len(b.body)
      BY DEF n
    <3> QED
      BY <1>1, <3>1, SubSeqMore DEF l
  <2>8. x.blocks[q + 1].h = b.h /\ x.blocks[q + 1].body = SubSeq(b.body, 1, j)
    BY <2>3, <2>5, <2>6, <2>7
  <2>9. \A i \in 1..q : Like(x.blocks[i], z.blocks[i])
    BY <2>3, <2>5, <2>6 DEF Like
  <2>10. G(x, j)
    BY <2>3, <2>6, <2>8, <2>9
  <2> HIDE DEF G
  <2> QED
    BY <2>1, <2>2, <2>10 DEF x
<1>11. \A j \in 0..n : j \in T
  <2> HIDE DEF T
  <2> QED
    BY <1>1, <1>9, <1>10, UpToLast
<1>12. G(run[m + 1 + n], n)
  <2>1. n \in 0..n
    BY <1>1
  <2> QED
    BY <1>11, <2>1
<1>13. Parsed(all) = run[m + 1 + n]
  <2>1. Len(all) = m + 1 + n
    BY <1>1, <1>3
  <2> QED
    BY <1>5, <2>1
<1>14. SubSeq(b.body, 1, n) = b.body
  BY <1>1, WholeSubSeq DEF n
<1> QED
  BY <1>12, <1>13, <1>14 DEF Like, all, z

(* Sections of which only the last may end in the middle of a line. *)
Joinable(blocks) ==
  /\ \A i \in 1..Len(blocks) : Plain(blocks[i].body)
  /\ \A i \in 1..Len(blocks) : i # Len(blocks) => blocks[i].ends
LEMMA RenderParsed ==
  ASSUME NEW head \in Seq(Lines), Plain(head), NEW blocks \in Seq(Sections), Joinable(blocks)
  PROVE  LET z == parse(Render(head, blocks)).blocks
         IN  /\ Len(z) = Len(blocks) /\ \A i \in 1..Len(blocks) : Like(z[i], blocks[i])
             /\ parse(Render(head, blocks)).head = head
             /\ IF blocks = <<>> THEN Render(head, blocks).ends ELSE Render(head, blocks).ends = blocks[Len(blocks)].ends
<1> DEFINE n == Len(blocks)
<1>1. PICK run \in [0..n -> Files] : Glues(run, head, blocks) /\ Render(head, blocks) = run[n]
  BY RenderRun
<1>2. n \in Nat /\ \A k \in 1..n : blocks[k] \in Sections /\ Plain(blocks[k].body) /\ (k # n => blocks[k].ends)
  BY DEF Joinable
<1>3. run[0] = File(head, TRUE) /\ \A k \in 1..n : run[k] = Glue(run[k - 1], blocks[k])
  BY <1>1 DEF Glues
<1> HIDE DEF n
<1> DEFINE P(k) == Parsed(run[k].lines).blocks
           G(k) == /\ k # n => run[k].ends
                   /\ Parsed(run[k].lines).head = head
                   /\ IF k = 0 THEN run[k].ends ELSE run[k].ends = blocks[k].ends
                   /\ Len(P(k)) = k /\ \A i \in 1..k : Like(P(k)[i], blocks[i])
           T == {k \in 0..n : G(k)}
<1>4. 0 \in T
  <2>1. run[0].lines = head /\ run[0].ends
    BY <1>3 DEF File
  <2>2. P(0) = <<>> /\ Parsed(run[0].lines).head = head
    BY <2>1, ParsedHead
  <2> HIDE DEF P
  <2> QED
    BY <1>2, <2>1, <2>2
<1>5. ASSUME NEW k \in 1..n, k - 1 \in T PROVE k \in T
  <2> DEFINE lines == run[k - 1].lines
             b == blocks[k]
  <2>1. k - 1 \in 0..n /\ k - 1 # n /\ k \in 0..n
    BY <1>2
  <2>2. /\ run[k - 1].ends /\ Len(P(k - 1)) = k - 1 /\ \A i \in 1..(k - 1) : Like(P(k - 1)[i], blocks[i])
        /\ Parsed(lines).head = head
    <3> HIDE DEF P
    <3> QED
      BY <1>5, <2>1
  <2>3. run[k - 1] \in Files
    BY <2>1
  <2>4. lines \in Seq(Lines)
    BY <2>3 DEF Files
  <2>5. run[k] = File(lines \o Text(b), b.ends)
    BY <1>3, <2>2 DEF Glue
  <2>6. run[k].lines = lines \o Text(b) /\ run[k].ends = b.ends
    <3> HIDE DEF lines, b
    <3>1. File(lines \o Text(b), b.ends).lines = lines \o Text(b) /\ File(lines \o Text(b), b.ends).ends = b.ends
      BY DEF File
    <3> QED
      BY <2>5, <3>1
  <2>7. b \in Sections /\ Plain(b.body) /\ (k # n => b.ends)
    BY <1>2
  <2> DEFINE z == Parsed(lines).blocks
             y == Parsed(lines \o Text(b)).blocks
  <2> HIDE DEF lines, b
  <2>8. /\ Len(y) = Len(z) + 1 /\ Like(y[Len(z) + 1], b) /\ \A i \in 1..Len(z) : Like(y[i], z[i])
        /\ Parsed(lines \o Text(b)).head = Parsed(lines).head
    BY <2>4, <2>7, ParsedSection
  <2>12. Parsed(run[k].lines).head = head /\ k # 0
    BY <1>2, <2>2, <2>6, <2>8 DEF lines
  <2>9. P(k) = y /\ P(k - 1) = z
    BY <2>6 DEF lines
  <2> HIDE DEF y, z, P
  <2>10. Len(y) = k /\ Like(y[k], b) /\ \A i \in 1..(k - 1) : Like(y[i], blocks[i])
    <3>1. Len(z) = k - 1 /\ (k - 1) + 1 = k
      BY <2>2, <2>9
    <3> QED
      BY <2>2, <2>8, <2>9, <3>1 DEF Like
  <2>11. \A i \in 1..k : Like(y[i], blocks[i])
    <3>1. \A i \in 1..k : i = k \/ i \in 1..(k - 1)
      OBVIOUS
    <3> QED
      BY <2>10, <3>1 DEF b
  <2> QED
    BY <2>1, <2>6, <2>7, <2>9, <2>10, <2>11, <2>12 DEF b
<1>6. \A k \in 0..n : k \in T
  <2> HIDE DEF T
  <2> QED
    BY <1>2, <1>4, <1>5, UpToLast
<1>7. n \in 0..n /\ run[n] \in Files
  BY <1>2
<1>8. /\ Len(P(n)) = n /\ \A i \in 1..n : Like(P(n)[i], blocks[i])
      /\ Parsed(run[n].lines).head = head
      /\ IF n = 0 THEN run[n].ends ELSE run[n].ends = blocks[n].ends
  <2> HIDE DEF P
  <2> QED
    BY <1>6, <1>7
<1> DEFINE z == parse(run[n]).blocks
<1>9. /\ Len(z) = Len(P(n)) /\ \A i \in 1..Len(P(n)) : z[i].h = P(n)[i].h /\ z[i].body = P(n)[i].body
      /\ parse(run[n]).head = Parsed(run[n].lines).head
  BY <1>7, ParseFields
<1> HIDE DEF P, z
<1>10. Len(z) = n /\ \A i \in 1..n : Like(z[i], blocks[i])
  BY <1>8, <1>9 DEF Like
<1>11. IF blocks = <<>> THEN run[n].ends ELSE run[n].ends = blocks[n].ends
  <2>1. blocks = <<>> <=> n = 0
    BY DEF n
  <2> QED
    BY <1>8, <2>1
<1> QED
  BY <1>1, <1>8, <1>9, <1>10, <1>11 DEF z, n
-----------------------------------------------------------------------------
(* A rotation stopped halfway: what a file says. *)
Says(file, archived) == {Said(b, archived) : b \in Range(releases(file))}

LEMMA ContentsAre ==
  ASSUME NEW t \in Ledgers, NEW s
  PROVE  s \in Contents(t) <=> s \in Says(t[Root], FALSE) \/ \E m \in Volumes : s \in Says(t[m], TRUE)
<1>1. (Root # Root) = FALSE /\ \A m \in Volumes : (m # Root) = TRUE
  BY VolumesAreNoRoot
<1>2. \A m \in Volumes : m \notin VolumesOf(t) => Says(t[m], TRUE) = {}
  <2>1. Range(releases(NoFile)) = {}
    BY FirstReleases DEF Range
  <2> QED
    BY <2>1 DEF VolumesOf, Says
<1>3. \A f \in {Root} \cup Volumes : {Said(b, f # Root) : b \in InFile(t, f)} = Says(t[f], f # Root)
  BY DEF Says, InFile
<1>4. Says(t[Root], Root # Root) = Says(t[Root], FALSE) /\ \A m \in Volumes : Says(t[m], m # Root) = Says(t[m], TRUE)
  BY <1>1
<1>5. s \in Contents(t) <=> \E f \in {Root} \cup VolumesOf(t) : s \in Says(t[f], f # Root)
  BY <1>3, VolumesAreNoRoot DEF Contents
<1> QED
  BY <1>2, <1>4, <1>5, VolumesAreNoRoot

(* The sections of one kind are as they were parsed. *)
LEMMA KindWhole ==
  ASSUME NEW file \in Files, NEW kind, NEW n \in 1..Len(OfKind(file, kind))
  PROVE  LET s == OfKind(file, kind)
         IN  s[n].h.k = kind /\ Plain(s[n].body) /\ (n # Len(s) \/ file.ends => s[n].ends)
<1> DEFINE all == parse(file).blocks
           z == Parsed(file.lines)
           at == {k \in DOMAIN all : all[k].h.k = kind}
           s == OfKind(file, kind)
<1>1. file.lines \in Seq(Lines) /\ all \in Seq(Sections)
  BY ParseType DEF Files, Parses
<1>2. z \in Parses /\ Whole(z)
  BY <1>1, ParsedWhole
<1>3. Len(all) = Len(z.blocks) /\ \A i \in 1..Len(z.blocks) : /\ all[i].body = z.blocks[i].body
                                                             /\ all[i].ends = IF i = Len(z.blocks) THEN file.ends ELSE z.blocks[i].ends
  BY ParseFields
<1>4. s = Those(all, at)
  BY DEF OfKind, ThoseOfKind
<1> HIDE DEF all, z, s
<1>5. n \in 1..Len(Those(all, at))
  BY <1>4 DEF s
<1> HIDE DEF at
<1>6. PICK k \in 1..Len(all) : k \in at /\ Those(all, at)[n] = all[k] /\ (n # Len(Those(all, at)) => k # Len(all))
  BY <1>1, <1>5, ThoseFrom
<1>7. Plain(all[k].body) /\ (k # Len(all) \/ file.ends => all[k].ends)
  BY <1>2, <1>3, <1>6 DEF Whole
<1>8. all[k].h.k = kind
  BY <1>6 DEF at
<1>9. s[n] = all[k] /\ (n # Len(s) => k # Len(all))
  BY <1>4, <1>6
<1> QED
  BY <1>7, <1>8, <1>9 DEF s

LEMMA SaidLike ==
  ASSUME NEW b, NEW c, Like(b, c), NEW archived
  PROVE  Said(b, archived) = Said(c, archived)
<1>1. Text(b) = Text(c)
  BY DEF Like, Text
<1> QED
  BY <1>1 DEF Said

(* What is rendered says what its releases do. *)
LEMMA RenderSays ==
  ASSUME NEW head \in Seq(Lines), Plain(head), NEW blocks \in Seq(Sections), Joinable(blocks),
         NEW i \in 1..Len(blocks), blocks[i].h.k = "release", NEW archived
  PROVE  Said(blocks[i], archived) \in Says(Render(head, blocks), archived)
<1> DEFINE file == Render(head, blocks)
           all == parse(file).blocks
           at == {k \in DOMAIN all : all[k].h.k = "release"}
<1>1. file \in Files
  BY RenderType
<1>2. Len(all) = Len(blocks) /\ Like(all[i], blocks[i])
  BY RenderParsed
<1>3. all \in Seq(Sections)
  BY <1>1, ParseType DEF Parses
<1>4. releases(file) = Those(all, at)
  BY DEF releases, OfKind, ThoseOfKind
<1> HIDE DEF file, all
<1>5. i \in 1..Len(all) /\ i \in at
  <2>1. DOMAIN all = 1..Len(all)
    BY <1>3
  <2> QED
    BY <1>2, <2>1 DEF Like
<1> HIDE DEF at
<1>6. PICK j \in 1..Len(Those(all, at)) : Those(all, at)[j] = all[i]
  BY <1>3, <1>5, ThoseHas
<1>7. all[i] \in Range(releases(file))
  <2>1. Those(all, at) \in Seq(Sections)
    BY <1>3, ThoseType
  <2>2. j \in DOMAIN releases(file) /\ releases(file)[j] = all[i]
    BY <1>4, <1>6, <2>1
  <2> QED
    BY <2>2 DEF Range
<1>8. Said(all[i], archived) = Said(blocks[i], archived)
  BY <1>2, SaidLike
<1> QED
  BY <1>7, <1>8 DEF Says, file
-----------------------------------------------------------------------------
(* What the files of a rotation say. *)
VolumeSays(file) == Says(file, TRUE)
RootSays(file) == Says(file, FALSE)
AllWhole(blocks) == \A i \in 1..Len(blocks) : Plain(blocks[i].body) /\ blocks[i].ends /\ blocks[i].h.k = "release"

LEMMA MovedPlain ==
  ASSUME NEW b \in Sections, Plain(b.body)
  PROVE  toVolume(b).ends = b.ends /\ Plain(toVolume(b).body)
<1> DEFINE up == [u \in Nat |-> IF u = 0 THEN 0 ELSE u + 1]
           links == [n \in DOMAIN b.body |-> [b.body[n] EXCEPT !.up = up[b.body[n].up]]]
<1>1. toVolume(b) = [b EXCEPT !.body = links]
  BY DEF toVolume, MapLinks
<1>2. \A x : [b EXCEPT !.body = x].ends = b.ends
  BY DEF Sections
<1> HIDE DEF links
<1>3. toVolume(b).ends = b.ends
  BY <1>1, <1>2
<1>4. \A l \in Lines : IsHeading(Deeper(l)) <=> IsHeading(l)
  BY DEF Deeper, IsHeading, Lines
<1>5. ASSUME NEW n \in 1..Len(b.body) PROVE b.body[n] \in Lines
  BY DEF Sections
<1>6. Len(toVolume(b).body) = Len(b.body) /\ \A n \in 1..Len(b.body) : toVolume(b).body[n] = Deeper(b.body[n])
  BY ToVolumeFields
<1> QED
  BY <1>3, <1>4, <1>5, <1>6 DEF Plain

LEMMA VolumeBlocks ==
  ASSUME NEW t \in Ledgers, NEW moved \in Seq(Sections), NEW m \in Volumes
  PROVE  volume(t, moved, m) = InVolume(incoming(moved, m)) \o releases(t[m])
<1>1. m \notin VolumesOf(t) => releases(t[m]) = <<>>
  BY FirstReleases DEF VolumesOf
<1> QED
  BY <1>1 DEF volume

LEMMA IncomingWhole ==
  ASSUME NEW t \in Ledgers, NEW moved \in Seq(Sections), NEW m \in Volumes, AllWhole(moved)
  PROVE  AllWhole(InVolume(incoming(moved, m)))
<1> DEFINE s == incoming(moved, m)
           at == {n \in DOMAIN moved : Month(moved[n].h.d) = m}
<1>1. s \in Seq(Sections) /\ Len(InVolume(s)) = Len(s)
  BY VolumeType
<1>2. s = Those(moved, at)
  BY DEF incoming
<1> SUFFICES ASSUME NEW i \in 1..Len(s)
             PROVE  Plain(InVolume(s)[i].body) /\ InVolume(s)[i].ends /\ InVolume(s)[i].h.k = "release"
  BY <1>1 DEF AllWhole
<1> HIDE DEF s
<1>3. i \in 1..Len(Those(moved, at))
  BY <1>2
<1> HIDE DEF at
<1>4. PICK k \in 1..Len(moved) : Those(moved, at)[i] = moved[k]
  BY <1>3, ThoseFrom
<1>5. s[i] \in Sections /\ s[i] = moved[k]
  BY <1>1, <1>2, <1>4
<1>6. Plain(s[i].body) /\ s[i].ends /\ s[i].h.k = "release"
  BY <1>5 DEF AllWhole
<1>7. InVolume(s)[i] = toVolume(s[i])
  BY <1>1 DEF InVolume
<1>8. toVolume(s[i]).h = s[i].h /\ toVolume(s[i]).ends = s[i].ends /\ Plain(toVolume(s[i]).body)
  BY <1>5, <1>6, MovedPlain, ToVolumeFields
<1> QED
  BY <1>6, <1>7, <1>8

LEMMA JoinableConcat ==
  ASSUME NEW p \in Seq(Sections), NEW q \in Seq(Sections), AllWhole(p),
         \A i \in 1..Len(q) : Plain(q[i].body) /\ q[i].h.k = "release",
         \A i \in 1..Len(q) : i # Len(q) => q[i].ends
  PROVE  Joinable(p \o q) /\ \A i \in 1..Len(p \o q) : (p \o q)[i].h.k = "release"
<1> DEFINE u == p \o q
<1>1. Len(p) \in Nat /\ Len(q) \in Nat /\ Len(u) = Len(p) + Len(q)
  OBVIOUS
<1>2. ASSUME NEW i \in 1..Len(u)
      PROVE  Plain(u[i].body) /\ u[i].h.k = "release" /\ (i # Len(u) => u[i].ends)
  <2>1. CASE i \in 1..Len(p)
    <3>1. u[i] = p[i]
      BY <2>1
    <3> QED
      BY <2>1, <3>1 DEF AllWhole
  <2>2. CASE i \notin 1..Len(p)
    <3>1. i - Len(p) \in 1..Len(q) /\ u[i] = q[i - Len(p)] /\ (i # Len(u) => i - Len(p) # Len(q))
      BY <1>1, <2>2
    <3> DEFINE j == i - Len(p)
    <3> HIDE DEF j, u
    <3>2. j \in 1..Len(q) /\ u[i] = q[j] /\ (i # Len(u) => j # Len(q))
      BY <3>1 DEF j
    <3> QED
      BY <3>2
  <2> QED
    BY <2>1, <2>2
<1> QED
  BY <1>2 DEF Joinable

LEMMA ConcatPlaces ==
  ASSUME NEW p \in Seq(Sections), NEW q \in Seq(Sections)
  PROVE  /\ p \o q \in Seq(Sections)
         /\ \A i \in 1..Len(p) : i \in 1..Len(p \o q) /\ (p \o q)[i] = p[i]
         /\ \A i \in 1..Len(q) : Len(p) + i \in 1..Len(p \o q) /\ (p \o q)[Len(p) + i] = q[i]
<1>1. Len(p) \in Nat /\ Len(q) \in Nat /\ Len(p \o q) = Len(p) + Len(q)
  OBVIOUS
<1>2. \A i \in 1..Len(p) : i \in 1..Len(p \o q) /\ (p \o q)[i] = p[i]
  BY <1>1
<1>3. ASSUME NEW i \in 1..Len(q) PROVE Len(p) + i \in 1..Len(p \o q) /\ (p \o q)[Len(p) + i] = q[i]
  BY <1>1
<1> QED
  BY <1>2, <1>3

LEMMA VolumeKept ==
  ASSUME NEW t \in Ledgers, NEW moved \in Seq(Sections), NEW m \in Volumes, AllWhole(moved)
  PROVE  /\ VolumeSays(t[m]) \subseteq VolumeSays(nextVolume(t, moved, m))
         /\ \A b \in Range(moved) : Month(b.h.d) = m => Said(b, FALSE) \in VolumeSays(nextVolume(t, moved, m))
<1> DEFINE s == incoming(moved, m)
           p == InVolume(s)
           q == releases(t[m])
           all == p \o q
           head == <<volumeHead(m)>>
           file == Render(head, all)
<1>1. s \in Seq(Sections) /\ p \in Seq(Sections) /\ Len(p) = Len(s) /\ q \in Seq(Sections)
  BY VolumeType
<1>2. nextVolume(t, moved, m) = file
  BY VolumeBlocks DEF nextVolume, volume
<1>3. AllWhole(p)
  BY IncomingWhole
<1>4. \A i \in 1..Len(q) : Plain(q[i].body) /\ q[i].h.k = "release" /\ (i # Len(q) => q[i].ends)
  <2>1. t[m] \in Files
    BY FileTypes
  <2> QED
    BY <2>1, KindWhole DEF releases
<1>5. head \in Seq(Lines) /\ Plain(head)
  <2>1. m \in Nat
    BY SMTT(30), VolumeNumbers
  <2>2. volumeHead(m) \in Lines /\ ~IsHeading(volumeHead(m))
    BY <2>1, LineTypes, LineKinds
  <2> HIDE DEF file
  <2> QED
    BY <2>2 DEF Plain
<1>6. \A i \in 1..Len(p) : p[i] = toVolume(s[i]) /\ s[i] \in Sections
  BY <1>1 DEF InVolume
<1>7. ASSUME NEW b \in Range(moved), Month(b.h.d) = m PROVE \E i \in 1..Len(p) : s[i] = b
  <2> DEFINE at == {n \in DOMAIN moved : Month(moved[n].h.d) = m}
  <2>1. PICK k \in 1..Len(moved) : b = moved[k]
    BY DEF Range
  <2>2. k \in at
    BY <1>7, <2>1
  <2>3. s = Those(moved, at)
    BY DEF incoming
  <2> HIDE DEF at, s
  <2>4. \E j \in 1..Len(Those(moved, at)) : Those(moved, at)[j] = moved[k]
    BY <2>2, ThoseHas
  <2> QED
    BY <1>1, <2>1, <2>3, <2>4
<1> HIDE DEF s, p, q
<1>8. Joinable(all) /\ \A i \in 1..Len(all) : all[i].h.k = "release"
  BY <1>1, <1>3, <1>4, JoinableConcat
<1>9. all \in Seq(Sections) /\ (\A i \in 1..Len(p) : i \in 1..Len(all) /\ all[i] = p[i])
      /\ \A i \in 1..Len(q) : Len(p) + i \in 1..Len(all) /\ all[Len(p) + i] = q[i]
  BY <1>1, ConcatPlaces
<1> HIDE DEF all, head
<1>10. \A i \in 1..Len(all) : Said(all[i], TRUE) \in VolumeSays(file)
  BY <1>5, <1>8, <1>9, RenderSays DEF VolumeSays
<1> HIDE DEF file
<1>11. ASSUME NEW x \in VolumeSays(t[m]) PROVE x \in VolumeSays(file)
  <2>1. PICK b \in Range(q) : x = Said(b, TRUE)
    BY DEF VolumeSays, Says, q
  <2>2. PICK i \in 1..Len(q) : b = q[i]
    BY <1>1, <2>1 DEF Range
  <2> QED
    BY <1>9, <1>10, <2>1, <2>2
<1>12. ASSUME NEW b \in Range(moved), Month(b.h.d) = m PROVE Said(b, FALSE) \in VolumeSays(file)
  <2>1. PICK i \in 1..Len(p) : s[i] = b
    BY <1>7, <1>12
  <2>2. all[i] = toVolume(b) /\ b \in Sections /\ i \in 1..Len(all)
    BY <1>6, <1>9, <2>1
  <2>3. Said(toVolume(b), TRUE) = Said(b, FALSE)
    BY <2>2, MovedSaysTheSame
  <2> QED
    BY <1>10, <2>2, <2>3
<1> QED
  BY <1>2, <1>11, <1>12
LEMMA RootHeadPlain ==
  ASSUME NEW t \in Ledgers, NEW months \in SUBSET Nat
  PROVE  rootHead(t, months) \in Seq(Lines) /\ Plain(rootHead(t, months))
<1> DEFINE head == parse(t[Root]).head
           kept == WithoutIndex(head)
           at == {n \in DOMAIN head : head[n].k # "index"}
           tail == IF months = {} THEN <<>> ELSE <<indexLine(months)>>
<1>1. t[Root] \in Files
  BY FileTypes
<1>2. head \in Seq(Lines) /\ Plain(head)
  <2>1. parse(t[Root]).head = Parsed(t[Root].lines).head
    BY <1>1, ParseFields
  <2>2. t[Root].lines \in Seq(Lines)
    BY <1>1 DEF Files
  <2> QED
    BY <2>1, <2>2, ParsedWhole DEF Whole, Parses
<1>3. kept = Those(head, at) /\ kept \in Seq(Lines)
  BY <1>2, ThoseType DEF WithoutIndex
<1>4. \A i \in 1..Len(kept) : ~IsHeading(kept[i])
  <2> HIDE DEF head, kept, at
  <2> SUFFICES ASSUME NEW i \in 1..Len(kept) PROVE ~IsHeading(kept[i])
    OBVIOUS
  <2>1. i \in 1..Len(Those(head, at))
    BY <1>3
  <2>2. PICK k \in 1..Len(head) : Those(head, at)[i] = head[k]
    BY <1>2, <2>1, ThoseFrom
  <2> QED
    BY <1>2, <1>3, <2>2 DEF Plain
<1>5. tail \in Seq(Lines) /\ \A i \in 1..Len(tail) : ~IsHeading(tail[i])
  <2>1. indexLine(months) \in Lines /\ ~IsHeading(indexLine(months))
    BY LineTypes, LineKinds
  <2> DEFINE l == indexLine(months)
  <2> HIDE DEF l
  <2>2. <<l>> \in Seq(Lines) /\ Len(<<l>>) = 1 /\ \A i \in 1..1 : <<l>>[i] = l
    BY <2>1 DEF l
  <2>3. <<>> \in Seq(Lines) /\ Len(<<>>) = 0
    OBVIOUS
  <2>4. tail = <<>> \/ tail = <<l>>
    BY DEF l
  <2> HIDE DEF tail
  <2>5. CASE tail = <<>>
    BY <2>3, <2>5
  <2>6. CASE tail = <<l>>
    BY <2>1, <2>2, <2>6 DEF l
  <2> QED
    BY <2>4, <2>5, <2>6
<1>6. rootHead(t, months) = kept \o tail
  BY DEF rootHead
<1> HIDE DEF kept, tail
<1>7. kept \o tail \in Seq(Lines) /\ Plain(kept \o tail)
  <2>1. Len(kept) \in Nat /\ Len(tail) \in Nat /\ Len(kept \o tail) = Len(kept) + Len(tail) /\ kept \o tail \in Seq(Lines)
    BY <1>3, <1>5
  <2>2. ASSUME NEW i \in 1..Len(kept \o tail) PROVE ~IsHeading((kept \o tail)[i])
    <3>1. CASE i \in 1..Len(kept)
      <4>1. (kept \o tail)[i] = kept[i]
        BY <1>3, <1>5, <3>1
      <4> QED
        BY <1>4, <3>1, <4>1
    <3>2. CASE i \notin 1..Len(kept)
      <4>1. i - Len(kept) \in 1..Len(tail) /\ (kept \o tail)[i] = tail[i - Len(kept)]
        <5> DEFINE a == Len(kept)
                   b == Len(tail)
        <5>1. a \in Nat /\ b \in Nat /\ i \in 1..(a + b) /\ i \notin 1..a
          BY <2>1, <3>2
        <5>2. kept \in Seq(Lines) /\ tail \in Seq(Lines)
          BY <1>3, <1>5
        <5>3. i \in 1..(Len(kept) + Len(tail)) /\ i \notin 1..Len(kept)
          BY <5>1
        <5>4. (kept \o tail)[i] = tail[i - Len(kept)]
          BY ONLY <5>2, <5>3
        <5> HIDE DEF a, b
        <5>5. i - a \in 1..b
          BY <5>1
        <5> QED
          BY <5>4, <5>5 DEF a, b
      <4> QED
        BY <1>5, <4>1
    <3> QED
      BY <3>1, <3>2
  <2> QED
    BY <2>1, <2>2 DEF Plain
<1> QED
  BY <1>6, <1>7

LEMMA OneUnreleased ==
  ASSUME NEW t \in Ledgers, ~Dies(t)
  PROVE  1 \in 1..Len(OfKind(t[Root], "unreleased")) /\ OfKind(t[Root], "unreleased")[1] \in Sections
<1> DEFINE s == OfKind(t[Root], "unreleased")
<1>1. t[Root] \in Files
  BY FileTypes
<1>2. s \in Seq(Sections) /\ Len(s) = 1
  BY <1>1, OfKindType DEF Dies
<1> HIDE DEF s
<1>3. 1 \in 1..Len(s) /\ s[1] \in Sections
  BY <1>2
<1> QED
  BY <1>3 DEF s

LEMMA RootJoins ==
  ASSUME NEW t \in Ledgers, ~Dies(t), t[Root].ends, NEW keep \in Seq(Sections), AllWhole(keep)
  PROVE  /\ Joinable(rootBlocks(t, keep)) /\ rootBlocks(t, keep) \in Seq(Sections)
         /\ \A i \in 1..Len(keep) : 1 + i \in 1..Len(rootBlocks(t, keep)) /\ rootBlocks(t, keep)[1 + i] = keep[i]
<1> DEFINE unreleased == OfKind(t[Root], "unreleased")
           u == unreleased[1]
           all == <<u>> \o keep
<1>1. rootBlocks(t, keep) = all
  BY DEF rootBlocks
<1>2. u \in Sections /\ Plain(u.body) /\ u.ends
  <2>1. t[Root] \in Files
    BY FileTypes
  <2>2. 1 \in 1..Len(unreleased) /\ u \in Sections
    BY OneUnreleased
  <2>3. Plain(u.body) /\ u.ends
    BY <2>1, <2>2, KindWhole
  <2> QED
    BY <2>2, <2>3
<1> HIDE DEF u
<1>4. <<u>> \in Seq(Sections) /\ Len(<<u>>) = 1 /\ <<u>>[1] = u
  BY <1>2
<1>5. all \in Seq(Sections) /\ (\A i \in 1..Len(keep) : 1 + i \in 1..Len(all) /\ all[1 + i] = keep[i])
  BY <1>4, ConcatPlaces
<1>6. Joinable(all)
  <2>1. Len(keep) \in Nat /\ Len(all) = 1 + Len(keep) /\ all[1] = u
    BY <1>2, <1>4
  <2>2. ASSUME NEW i \in 1..Len(all) PROVE Plain(all[i].body) /\ all[i].ends
    <3>1. CASE i = 1
      BY <1>2, <2>1, <3>1
    <3>2. CASE i # 1
      <4>1. i - 1 \in 1..Len(keep) /\ 1 + (i - 1) = i
        BY <2>1, <3>2
      <4>2. all[i] = keep[i - 1]
        BY <1>5, <4>1
      <4> QED
        BY <4>1, <4>2 DEF AllWhole
    <3> QED
      BY <3>1, <3>2
  <2> QED
    BY <2>2 DEF Joinable
<1> QED
  BY <1>1, <1>5, <1>6

LEMMA RootKept ==
  ASSUME NEW t \in Ledgers, ~Dies(t), t[Root].ends, NEW keep \in Seq(Sections), AllWhole(keep), NEW months \in SUBSET Nat,
         NEW b \in Range(keep)
  PROVE  Said(b, FALSE) \in RootSays(renderRoot(t, keep, months))
<1> DEFINE all == rootBlocks(t, keep)
           head == rootHead(t, months)
           file == Render(head, all)
<1>1. renderRoot(t, keep, months) = file
  BY DEF renderRoot, rootHead, rootBlocks
<1>2. head \in Seq(Lines) /\ Plain(head)
  BY RootHeadPlain
<1>3. Joinable(all) /\ all \in Seq(Sections) /\ \A i \in 1..Len(keep) : 1 + i \in 1..Len(all) /\ all[1 + i] = keep[i]
  BY RootJoins
<1> HIDE DEF head, all
<1>7. PICK i \in 1..Len(keep) : b = keep[i]
  BY DEF Range
<1>8. 1 + i \in 1..Len(all) /\ all[1 + i] = b /\ b.h.k = "release"
  BY <1>3, <1>7 DEF AllWhole
<1>9. Said(all[1 + i], FALSE) \in Says(file, FALSE)
  BY <1>2, <1>3, <1>8, RenderSays
<1> QED
  BY <1>1, <1>8, <1>9 DEF RootSays
-----------------------------------------------------------------------------
(* What a running rotation owes: every section it began with is in a volume *)
(* already or in a file that it has yet to write, each volume is written    *)
(* once, with all that it says, and the root comes last.                    *)
Owed(t, p, s) ==
  \/ s \in RootSays(p[Len(p)].file)
  \/ \E i \in 1..(Len(p) - 1) : s \in VolumeSays(p[i].file)
  \/ \E m \in Volumes : s \in VolumeSays(t[m])
Promised(t, p, sections) ==
  /\ p[Len(p)].at = Root
  /\ \A i \in 1..(Len(p) - 1) : p[i].at \in Volumes /\ VolumeSays(t[p[i].at]) \subseteq VolumeSays(p[i].file)
  /\ \A i, j \in 1..(Len(p) - 1) : p[i].at = p[j].at => i = j
  /\ \A s \in sections : Owed(t, p, s)

LEMMA RootCut ==
  ASSUME NEW t \in Ledgers, t[Root].ends
  PROVE  /\ AllWhole(Shrink(t).keep) /\ AllWhole(Shrink(t).moved)
         /\ \A s \in RootSays(t[Root]) : \/ \E b \in Range(Shrink(t).keep) : s = Said(b, FALSE)
                                         \/ \E b \in Range(Shrink(t).moved) : s = Said(b, FALSE)
<1> DEFINE root == releases(t[Root])
           n == Len(root)
<1>1. root \in Seq(Sections) /\ t[Root] \in Files
  BY FileTypes
<1>2. PICK k \in 0..n : Shrink(t) = Cut(root, k)
  BY ShrinkCuts
<1>3. ASSUME NEW i \in 1..n PROVE Plain(root[i].body) /\ root[i].ends /\ root[i].h.k = "release"
  BY <1>1, KindWhole DEF releases
<1>4. \A s \in RootSays(t[Root]) : \E b \in Range(root) : s = Said(b, FALSE)
  BY DEF RootSays, Says
<1> HIDE DEF root
<1> DEFINE keep == SubSeq(root, 1, k)
           moved == SubSeq(root, k + 1, n)
<1>5. Shrink(t).keep = keep /\ Shrink(t).moved = moved
  BY <1>2 DEF Cut
<1>6. n \in Nat /\ k \in Nat /\ k <= n
  BY <1>1
<1>7. keep \in Seq(Sections) /\ Len(keep) = k /\ \A i \in 1..k : keep[i] = root[i] /\ i \in 1..n
  BY <1>1, <1>6
<1>8. moved \in Seq(Sections) /\ Len(moved) = n - k /\ \A i \in 1..(n - k) : moved[i] = root[k + i] /\ k + i \in 1..n
  BY <1>1, <1>6
<1> HIDE DEF keep, moved
<1>9. AllWhole(keep) /\ AllWhole(moved)
  BY SMTT(30), <1>3, <1>7, <1>8 DEF AllWhole
<1>10. ASSUME NEW s \in RootSays(t[Root])
       PROVE  (\E b \in Range(keep) : s = Said(b, FALSE)) \/ \E b \in Range(moved) : s = Said(b, FALSE)
  <2>1. PICK b \in Range(root) : s = Said(b, FALSE)
    BY <1>4
  <2>2. PICK i \in 1..n : b = root[i]
    BY <1>1 DEF Range
  <2>3. CASE i <= k
    <3>1. i \in 1..k
      BY <1>6, <2>3
    <3>2. b \in Range(keep)
      BY <1>7, <2>2, <3>1 DEF Range
    <3> QED
      BY <2>1, <3>2
  <2>4. CASE ~(i <= k)
    <3>1. i - k \in 1..(n - k) /\ k + (i - k) = i
      BY <1>6, <2>4
    <3>2. moved[i - k] = b /\ i - k \in 1..Len(moved)
      BY <1>8, <2>2, <3>1
    <3>3. b \in Range(moved)
      BY <1>8, <3>2 DEF Range
    <3> QED
      BY <2>1, <3>3
  <2> QED
    BY <2>3, <2>4
<1> QED
  BY <1>5, <1>9, <1>10

LEMMA PromisedWrites ==
  ASSUME NEW t \in Ledgers, t[Root].ends, Writes(t) # <<>>
  PROVE  Promised(t, Writes(t), Contents(t))
<1> DEFINE z == Shrink(t)
           months == Months(t, z.moved)
           order == monthOrder(t, z.moved)
           volumes == VolumeWrites(t, z)
           root == RootWrite(t, z, months)
           p == Append(volumes, root)
           n == Len(order)
<1>1. Writes(t) = p /\ ~Dies(t)
  BY WritesForm
<1>2. z.keep \in Seq(Sections) /\ z.moved \in Seq(Sections) /\ InMonths(z.moved)
  BY ShrinkType, MovedInMonths
<1>3. /\ AllWhole(z.keep) /\ AllWhole(z.moved)
      /\ \A s \in RootSays(t[Root]) : (\E b \in Range(z.keep) : s = Said(b, FALSE)) \/ \E b \in Range(z.moved) : s = Said(b, FALSE)
  BY RootCut
<1> HIDE DEF z
<1>4. months \in SUBSET Nat /\ \A b \in Range(z.moved) : Month(b.h.d) \in months
  BY <1>2, MonthsType DEF Months, Dates
<1>5. order \in Seq(Volumes) /\ n \in Nat
  <2>1. order \in Seq(Volumes)
    BY <1>2, OrderIs
  <2> QED
    BY <2>1
<1>6. /\ \A m \in Volumes : m \in months => \E i \in 1..n : order[i] = m
      /\ \A i, j \in 1..n : order[i] = order[j] => i = j
  BY <1>2, OrderIs
<1> HIDE DEF months
<1>7. volumes = [i \in 1..n |-> [at |-> order[i], file |-> nextVolume(t, z.moved, order[i])]]
  BY <1>5 DEF VolumeWrites
<1>8. root.at = Root /\ root.file = renderRoot(t, z.keep, months)
  BY DEF RootWrite
<1> HIDE DEF order, volumes, root
<1>9. Len(p) = n + 1 /\ p[n + 1] = root /\ (n + 1) - 1 = n
      /\ \A i \in 1..n : p[i].at = order[i] /\ p[i].file = nextVolume(t, z.moved, order[i])
  <2> DEFINE V == {volumes[i] : i \in 1..n}
  <2>0. volumes \in [1..n -> V]
    BY <1>7
  <2>2. \A i \in 1..n : volumes[i].at = order[i] /\ volumes[i].file = nextVolume(t, z.moved, order[i])
    BY <1>7
  <2> HIDE DEF V, n
  <2>1. volumes \in Seq(V) /\ Len(volumes) = n
    BY <1>5, <2>0
  <2>3. Len(p) = n + 1 /\ p[n + 1] = root /\ \A i \in 1..n : p[i] = volumes[i]
    BY <1>5, <2>1
  <2> QED
    BY <1>5, <2>2, <2>3
<1> HIDE DEF p, n
<1>10. \A i \in 1..n : order[i] \in Volumes
  BY <1>5 DEF n
<1>11. ASSUME NEW i \in 1..n PROVE p[i].at \in Volumes /\ VolumeSays(t[p[i].at]) \subseteq VolumeSays(p[i].file)
  BY <1>2, <1>3, <1>9, <1>10, VolumeKept
<1>12. ASSUME NEW s \in Contents(t) PROVE Owed(t, p, s)
  <2>1. s \in RootSays(t[Root]) \/ \E m \in Volumes : s \in VolumeSays(t[m])
    BY ContentsAre DEF RootSays, VolumeSays
  <2>2. ASSUME NEW b \in Range(z.keep), s = Said(b, FALSE) PROVE s \in RootSays(p[n + 1].file)
    <3>1. Said(b, FALSE) \in RootSays(renderRoot(t, z.keep, months))
      BY <1>1, <1>2, <1>3, <1>4, RootKept
    <3> QED
      BY <1>8, <1>9, <2>2, <3>1
  <2>3. ASSUME NEW b \in Range(z.moved), s = Said(b, FALSE) PROVE \E i \in 1..n : s \in VolumeSays(p[i].file)
    <3>1. b \in Sections /\ b.h.k = "release"
      BY <1>2, <1>3 DEF Range, AllWhole
    <3>2. Month(b.h.d) \in Volumes /\ Month(b.h.d) \in months
      BY <1>4, <3>1 DEF Sections, Heads, Lines
    <3>3. PICK i \in 1..n : order[i] = Month(b.h.d)
      BY <1>6, <3>2
    <3>4. Said(b, FALSE) \in VolumeSays(nextVolume(t, z.moved, order[i]))
      BY <1>2, <1>3, <1>10, <3>3, VolumeKept
    <3> QED
      BY <1>9, <2>3, <3>4
  <2> QED
    BY <1>3, <1>9, <2>1, <2>2, <2>3 DEF Owed
<1>13. Promised(t, p, Contents(t))
  BY <1>6, <1>8, <1>9, <1>11, <1>12 DEF Promised
<1> QED
  BY <1>1, <1>13
LEMMA PromiseKept ==
  ASSUME NEW t \in Ledgers, NEW p \in Seq(FilesToWrite), p # <<>>, NEW sections, sections \subseteq Contents(t),
         Promised(t, p, sections), NEW u \in Ledgers, u = [t EXCEPT ![Head(p).at] = Head(p).file]
  PROVE  sections \subseteq Contents(u) /\ (Tail(p) # <<>> => Promised(u, Tail(p), sections))
<1> DEFINE n == Len(p)
           q == Tail(p)
<1>1. n \in Nat /\ n >= 1 /\ Head(p) = p[1]
  OBVIOUS
<1>2. q \in Seq(FilesToWrite) /\ Len(q) = n - 1 /\ \A i \in 1..(n - 1) : q[i] = p[i + 1]
  OBVIOUS
<1>3. /\ p[n].at = Root
      /\ \A i \in 1..(n - 1) : p[i].at \in Volumes /\ VolumeSays(t[p[i].at]) \subseteq VolumeSays(p[i].file)
      /\ \A i, j \in 1..(n - 1) : p[i].at = p[j].at => i = j
  BY DEF Promised
<1>4. ASSUME NEW s \in sections
      PROVE  \/ s \in RootSays(p[n].file)
             \/ \E i \in 1..(n - 1) : s \in VolumeSays(p[i].file)
             \/ \E m \in Volumes : s \in VolumeSays(t[m])
  BY <1>4 DEF Promised, Owed
<1>5. \A v \in Ledgers : \A s : s \in Contents(v) <=> s \in RootSays(v[Root]) \/ \E m \in Volumes : s \in VolumeSays(v[m])
  BY ContentsAre DEF RootSays, VolumeSays
<1>6. \A f \in {Root} \cup Volumes : u[f] = IF f = p[1].at THEN p[1].file ELSE t[f]
  BY <1>1 DEF Ledgers
<1> HIDE DEF q, n
<1>7. CASE n = 1
  <2>1. p[1].at = Root /\ u[Root] = p[n].file /\ \A m \in Volumes : u[m] = t[m]
    BY <1>3, <1>6, <1>7, VolumesAreNoRoot
  <2>2. ASSUME NEW s \in sections PROVE s \in Contents(u)
    <3>1. \A i : i \notin 1..(n - 1)
      BY <1>7
    <3>2. s \in RootSays(u[Root]) \/ \E m \in Volumes : s \in VolumeSays(u[m])
      BY <1>4, <2>1, <3>1
    <3> QED
      BY <1>5, <3>2
  <2>3. Tail(p) = <<>>
    <3>1. Len(q) = 0
      BY <1>2, <1>7
    <3>2. q = <<>>
      BY <1>2, <3>1
    <3> QED
      BY <3>2 DEF q
  <2> QED
    BY <2>2, <2>3
<1>8. CASE n # 1
  <2>1. 1 \in 1..(n - 1) /\ n - 1 \in Nat /\ n - 1 >= 1 /\ (n - 1) + 1 = n
    BY <1>1, <1>8
  <2> DEFINE m == p[1].at
  <2>2. m \in Volumes /\ m # Root /\ VolumeSays(t[m]) \subseteq VolumeSays(p[1].file)
    BY <1>3, <2>1, VolumesAreNoRoot
  <2> HIDE DEF m
  <2>3. u[m] = p[1].file /\ u[Root] = t[Root] /\ \A v \in Volumes : v # m => u[v] = t[v]
    BY <1>6, <2>2 DEF m
  <2>4. \A v \in Volumes : VolumeSays(t[v]) \subseteq VolumeSays(u[v])
    BY <2>2, <2>3
  <2>5. ASSUME NEW s \in sections PROVE s \in Contents(u)
    <3>1. s \in RootSays(t[Root]) \/ \E v \in Volumes : s \in VolumeSays(t[v])
      BY <1>5
    <3> QED
      BY <1>5, <2>3, <2>4, <3>1
  <2>6. q[n - 1] = p[n] /\ q[n - 1].at = Root
    <3>1. n - 1 \in 1..(n - 1)
      BY <2>1
    <3> QED
      BY <1>2, <1>3, <2>1, <3>1
  <2>7. ASSUME NEW i \in 1..((n - 1) - 1)
        PROVE  i \in 1..(n - 1) /\ i + 1 \in 1..(n - 1) /\ i + 1 # 1
    BY <1>1
  <2>8. ASSUME NEW i \in 1..((n - 1) - 1)
        PROVE  q[i].at \in Volumes /\ VolumeSays(u[q[i].at]) \subseteq VolumeSays(q[i].file)
    <3>1. q[i] = p[i + 1] /\ i + 1 \in 1..(n - 1) /\ i + 1 # 1
      BY <1>2, <2>7
    <3>2. p[i + 1].at \in Volumes /\ p[i + 1].at # m
      BY <1>3, <2>1, <3>1 DEF m
    <3> QED
      BY <1>3, <2>3, <3>1, <3>2
  <2>9. ASSUME NEW i \in 1..((n - 1) - 1), NEW j \in 1..((n - 1) - 1), q[i].at = q[j].at PROVE i = j
    <3>1. q[i] = p[i + 1] /\ q[j] = p[j + 1] /\ i + 1 \in 1..(n - 1) /\ j + 1 \in 1..(n - 1)
      BY <1>2, <2>7
    <3>2. i + 1 = j + 1
      BY <1>3, <2>9, <3>1
    <3> QED
      BY <3>2
  <2>10. ASSUME NEW s \in sections PROVE Owed(u, q, s)
    <3>1. CASE s \in RootSays(p[n].file)
      BY <1>2, <2>6, <3>1 DEF Owed
    <3>2. ASSUME NEW i \in 1..(n - 1), s \in VolumeSays(p[i].file) PROVE Owed(u, q, s)
      <4>1. CASE i = 1
        BY <2>2, <2>3, <3>2, <4>1 DEF Owed
      <4>2. CASE i # 1
        <5>1. i - 1 \in 1..((n - 1) - 1) /\ i - 1 \in 1..(n - 1) /\ (i - 1) + 1 = i
          BY <1>1, <4>2
        <5>2. q[i - 1] = p[i]
          BY <1>2, <5>1
        <5> QED
          BY <1>2, <3>2, <5>1, <5>2 DEF Owed
      <4> QED
        BY <4>1, <4>2
    <3>3. ASSUME NEW v \in Volumes, s \in VolumeSays(t[v]) PROVE Owed(u, q, s)
      BY <2>4, <3>3 DEF Owed
    <3> QED
      BY <1>4, <3>1, <3>2, <3>3
  <2>11. Promised(u, q, sections)
    BY <1>2, <2>6, <2>8, <2>9, <2>10 DEF Promised
  <2> QED
    BY <2>5, <2>11 DEF q
<1> QED
  BY <1>7, <1>8

(* Nothing leaves the tree, and what a rotation has yet to write keeps it   *)
(* so.  Nothing is held of a tree whose root does not end with its line, or *)
(* of one that is edited meanwhile.                                         *)
KeptInv == NothingLeavesTheTree /\ (held # {} /\ pending # <<>> => Promised(tree, pending, held))

LEMMA KeptStep == TypeInv /\ TypeInv' /\ KeptInv /\ [Next]_vars => KeptInv'
<1> SUFFICES ASSUME TypeInv, TypeInv', KeptInv, [Next]_vars PROVE KeptInv'
  OBVIOUS
<1>1. held' = {} => KeptInv'
  BY DEF KeptInv, NothingLeavesTheTree
<1>2. CASE Rotate
  <2>1. pending' = Writes(tree) /\ Writes(tree) # <<>> /\ tree' = tree
        /\ held' = IF tree[Root].ends THEN Contents(tree) ELSE {}
    BY <1>2 DEF Rotate
  <2>2. tree[Root].ends => Promised(tree, Writes(tree), Contents(tree))
    BY <2>1, PromisedWrites DEF TypeInv
  <2> QED
    BY <1>1, <2>1, <2>2 DEF KeptInv, NothingLeavesTheTree
<1>3. CASE Write
  <2>1. /\ pending # <<>> /\ pending' = Tail(pending) /\ held' = held
        /\ tree' = [tree EXCEPT ![Head(pending).at] = Head(pending).file]
    BY <1>3 DEF Write, Idle
  <2>2. tree \in Ledgers /\ tree' \in Ledgers /\ pending \in Seq(FilesToWrite)
    BY DEF TypeInv
  <2>3. CASE held # {}
    <3>1. held \subseteq Contents(tree) /\ Promised(tree, pending, held)
      BY <2>1, <2>3 DEF KeptInv, NothingLeavesTheTree
    <3>2. \A u \in Ledgers : u = [tree EXCEPT ![Head(pending).at] = Head(pending).file]
            => held \subseteq Contents(u) /\ (Tail(pending) # <<>> => Promised(u, Tail(pending), held))
      BY <2>1, <2>2, <3>1, PromiseKept
    <3>3. held \subseteq Contents(tree') /\ (Tail(pending) # <<>> => Promised(tree', Tail(pending), held))
      BY <2>1, <2>2, <3>2
    <3> QED
      BY <2>1, <3>3 DEF KeptInv, NothingLeavesTheTree
  <2> QED
    BY <1>1, <2>1, <2>3
<1>4. CASE Crash
  <2>1. pending' = <<>> /\ ((tree' = tree /\ held' = held) \/ held' = {})
    BY <1>4 DEF Crash
  <2> QED
    BY <1>1, <2>1 DEF KeptInv, NothingLeavesTheTree
<1>5. CASE \/ \E l \in {Bullet(2, 1), Bullet(3, 0)} : AddItem(l)
           \/ \E d \in {today - 1, today} : Bump(d)
           \/ Tamper \/ Land \/ Discard
  BY <1>1, <1>5 DEF AddItem, Bump, Tamper, Land, Discard, Edited
<1>6. CASE UNCHANGED vars
  BY <1>6 DEF KeptInv, NothingLeavesTheTree, vars
<1> QED
  BY <1>2, <1>3, <1>4, <1>5, <1>6 DEF Next

(* A rotation stopped between two files leaves every section in the tree,   *)
(* with the same text and links that lead where they led: a section is in   *)
(* its volume before it leaves the root.                                    *)
THEOREM NothingLeaves == Spec => []NothingLeavesTheTree
<1>1. Init => KeptInv
  BY DEF Init, KeptInv, NothingLeavesTheTree
<1>2. KeptInv => NothingLeavesTheTree
  BY DEF KeptInv
<1> QED
  BY <1>1, <1>2, TypeInit, TypeStep, KeptStep, PTL DEF Spec
-----------------------------------------------------------------------------
(* What is picked of sections one after another. *)
LEMMA ThoseAll ==
  ASSUME NEW S, NEW s \in Seq(S), NEW at, \A i \in 1..Len(s) : i \in at
  PROVE  Those(s, at) = s
<1> DEFINE m == Len(s)
<1>1. PICK run \in [0..m -> Seq(S)] : Picks(run, s, at) /\ Those(s, at) = run[m]
  BY ThoseRun
<1>0. run[0] = <<>> /\ \A k \in 1..m : run[k] = IF k \in at THEN Append(run[k - 1], s[k]) ELSE run[k - 1]
  BY <1>1 DEF Picks
<1>2. m \in Nat /\ run[0] = <<>> /\ \A k \in 1..m : run[k] = Append(run[k - 1], s[k])
  <2>1. \A k \in 1..m : k \in at
    OBVIOUS
  <2>2. ASSUME NEW k \in 1..m PROVE run[k] = Append(run[k - 1], s[k])
    BY <1>0, <2>1
  <2>3. m \in Nat
    OBVIOUS
  <2> HIDE DEF m
  <2> QED
    BY <1>0, <2>2, <2>3
<1>3. SubSeq(s, 1, 0) = <<>> /\ SubSeq(s, 1, m) = s
  BY WholeSubSeq
<1>4. \A k \in 1..m : Append(SubSeq(s, 1, k - 1), s[k]) = SubSeq(s, 1, k)
  BY SubSeqMore
<1> HIDE DEF m
<1> DEFINE T == {k \in 0..m : run[k] = SubSeq(s, 1, k)}
<1>5. 0 \in T
  BY <1>2, <1>3
<1>6. ASSUME NEW k \in 1..m, k - 1 \in T PROVE k \in T
  <2>1. run[k - 1] = SubSeq(s, 1, k - 1) /\ k \in 0..m
    BY <1>6
  <2> QED
    BY <1>2, <1>4, <2>1
<1>7. \A k \in 0..m : k \in T
  <2> HIDE DEF T
  <2> QED
    BY <1>2, <1>5, <1>6, UpToLast
<1>8. m \in 0..m
  BY <1>2
<1> QED
  BY <1>1, <1>3, <1>7, <1>8

LEMMA ThoseNone ==
  ASSUME NEW S, NEW s \in Seq(S), NEW at, \A i \in 1..Len(s) : i \notin at
  PROVE  Those(s, at) = <<>>
<1> DEFINE r == Those(s, at)
<1>1. r \in Seq(S)
  BY ThoseType
<1>2. \A j : j \notin 1..Len(r)
  <2> SUFFICES ASSUME NEW j \in 1..Len(r) PROVE FALSE
    OBVIOUS
  <2>1. j \in 1..Len(Those(s, at))
    OBVIOUS
  <2> HIDE DEF r
  <2>2. \E k \in 1..Len(s) : k \in at
    BY <2>1, ThoseFrom
  <2> QED
    BY <2>2
<1> HIDE DEF r
<1>3. Len(r) = 0
  <2>1. Len(r) \in Nat
    BY <1>1
  <2>2. 1 \notin 1..Len(r)
    BY <1>2
  <2> QED
    BY <2>1, <2>2
<1>4. r = <<>>
  BY <1>1, <1>3
<1> QED
  BY <1>4 DEF r

Joined(p, q) == p \o q
Beyond(at, p, q) == {i \in 1..Len(q) : Len(p) + i \in at}
LEMMA ThoseJoined ==
  ASSUME NEW S, NEW p \in Seq(S), NEW q \in Seq(S), NEW at
  PROVE  Those(Joined(p, q), at) = Joined(Those(p, at), Those(q, Beyond(at, p, q)))
<1> DEFINE u == p \o q
           m == Len(p)
           n == Len(q)
           to == {i \in 1..n : m + i \in at}
<1>1. u \in Seq(S) /\ Len(u) = m + n /\ m \in Nat /\ n \in Nat
      /\ (\A i \in 1..m : u[i] = p[i] /\ i \in 1..(m + n)) /\ \A i \in 1..n : u[m + i] = q[i] /\ m + i \in 1..(m + n)
  OBVIOUS
<1> HIDE DEF u
<1>2. PICK a \in [0..m -> Seq(S)] : Picks(a, p, at) /\ Those(p, at) = a[m]
  BY ThoseRun
<1> HIDE DEF to
<1>3. PICK b \in [0..n -> Seq(S)] : Picks(b, q, to) /\ Those(q, to) = b[n]
  BY ThoseRun
<1>4. PICK run \in [0..Len(u) -> Seq(S)] : Picks(run, u, at) /\ Those(u, at) = run[Len(u)]
  <2>1. \A v \in Seq(S) : \E run \in [0..Len(v) -> Seq(S)] : Picks(run, v, at) /\ Those(v, at) = run[Len(v)]
    BY ThoseRun
  <2>2. u \in Seq(S)
    BY <1>1
  <2> QED
    BY <2>1, <2>2, Zenon
<1>5. run[0] = <<>> /\ \A k \in 1..(m + n) : run[k] = IF k \in at THEN Append(run[k - 1], u[k]) ELSE run[k - 1]
  BY <1>1, <1>4 DEF Picks
<1>6. a[0] = <<>> /\ \A k \in 1..m : a[k] = IF k \in at THEN Append(a[k - 1], p[k]) ELSE a[k - 1]
  BY <1>2 DEF Picks
<1>7. b[0] = <<>> /\ \A k \in 1..n : b[k] = IF k \in to THEN Append(b[k - 1], q[k]) ELSE b[k - 1]
  BY <1>3 DEF Picks
<1>15. \A i \in 1..n : q[i] \in S
  OBVIOUS
<1> HIDE DEF m, n
<1>8. \A k \in 0..m : run[k] = a[k]
  <2> DEFINE T == {k \in 0..m : run[k] = a[k]}
  <2>1. 0 \in T
    BY <1>1, <1>5, <1>6
  <2>2. ASSUME NEW k \in 1..m, k - 1 \in T PROVE k \in T
    <3>1. run[k - 1] = a[k - 1] /\ k \in 0..m /\ k \in 1..(m + n) /\ u[k] = p[k]
      BY <1>1, <2>2
    <3> QED
      BY <1>5, <1>6, <3>1
  <2> HIDE DEF T
  <2>3. \A k \in 0..m : k \in T
    BY <1>1, <2>1, <2>2, UpToLast
  <2> QED
    BY <2>3 DEF T
<1>16. m \in Nat /\ n \in Nat
  BY <1>1
<1>9. a[m] \in Seq(S) /\ run[m] = a[m]
  BY <1>16, <1>8
<1>10. \A k \in 0..n : run[m + k] = a[m] \o b[k]
  <2> DEFINE T == {k \in 0..n : run[m + k] = a[m] \o b[k]}
  <2>1. 0 \in T
    <3>1. a[m] \o <<>> = a[m]
      BY <1>9
    <3>2. m + 0 = m /\ 0 \in 0..n
      BY <1>16
    <3>3. run[m + 0] = a[m] \o b[0]
      BY <1>7, <1>9, <3>1, <3>2
    <3> QED
      BY <3>2, <3>3
  <2>2. ASSUME NEW k \in 1..n, k - 1 \in T PROVE k \in T
    <3>1. run[m + (k - 1)] = a[m] \o b[k - 1] /\ k \in 0..n /\ k - 1 \in 0..n
      BY <1>16, <2>2
    <3>2. m + k \in 1..(m + n) /\ (m + k) - 1 = m + (k - 1) /\ u[m + k] = q[k] /\ (m + k \in at <=> k \in to)
      BY <1>1 DEF to
    <3>3. b[k - 1] \in Seq(S) /\ q[k] \in S
      BY <1>15, <3>1
    <3>4. Append(a[m] \o b[k - 1], q[k]) = a[m] \o Append(b[k - 1], q[k])
      <4> DEFINE z == a[m]
                 y == b[k - 1]
                 x == q[k]
      <4>1. z \in Seq(S) /\ y \in Seq(S) /\ x \in S
        BY <1>9, <3>3
      <4> HIDE DEF x, y, z
      <4> DEFINE one == Append(z \o y, x)
                 other == z \o Append(y, x)
                 l == Len(z) + Len(y) + 1
      <4>3. one \in Seq(S) /\ Len(one) = l /\ other \in Seq(S) /\ Len(other) = l /\ l \in Nat
        BY <4>1
      <4>4. ASSUME NEW i \in 1..l PROVE one[i] = other[i]
        <5>1. CASE i \in 1..Len(z)
          BY <4>1, <5>1
        <5>2. CASE i = l
          <6>1. one[i] = x
            BY <4>1, <5>2
          <6>2. other[i] = x
            BY <4>1, <5>2
          <6> QED
            BY <6>1, <6>2
        <5>3. CASE i \notin 1..Len(z) /\ i # l
          <6>0. Len(z) \in Nat /\ Len(y) \in Nat
            BY <4>1
          <6>1. i - Len(z) \in 1..Len(y)
            <7> DEFINE c == Len(z)
                       d == Len(y)
            <7>1. c \in Nat /\ d \in Nat /\ i \in 1..(c + d + 1) /\ i \notin 1..c /\ i # c + d + 1
              BY <5>3, <6>0
            <7> HIDE DEF c, d
            <7>2. i - c \in 1..d
              BY <7>1
            <7> QED
              BY <7>2 DEF c, d
          <6>2. one[i] = y[i - Len(z)]
            BY <4>1, <5>3, <6>1
          <6>3. other[i] = y[i - Len(z)]
            BY <4>1, <5>3, <6>1
          <6> QED
            BY <6>2, <6>3
        <5> QED
          BY <5>1, <5>2, <5>3
      <4> HIDE DEF one, other
      <4>2. one = other
        BY <4>3, <4>4, SeqEqual
      <4> QED
        BY <4>2 DEF one, other, x, y, z
    <3>5. run[m + k] = IF m + k \in at THEN Append(run[m + (k - 1)], u[m + k]) ELSE run[m + (k - 1)]
      BY <1>5, <3>2
    <3> QED
      BY <1>7, <3>1, <3>2, <3>4, <3>5
  <2> HIDE DEF T
  <2>3. \A k \in 0..n : k \in T
    BY <1>1, <2>1, <2>2, UpToLast
  <2> QED
    BY <2>3 DEF T
<1>11. n \in 0..n /\ run[m + n] = a[m] \o b[n]
  BY SMTT(30), <1>1, <1>10
<1>12. Those(u, at) = Those(p, at) \o Those(q, to)
  BY <1>1, <1>2, <1>3, <1>4, <1>11
<1> QED
  BY <1>12 DEF u, to, m, n, Joined, Beyond

(* What is rendered is parsed as exactly what it was made of. *)
LEMMA RenderExact ==
  ASSUME NEW head \in Seq(Lines), Plain(head), NEW blocks \in Seq(Sections), Joinable(blocks)
  PROVE  /\ Render(head, blocks) \in Files
         /\ parse(Render(head, blocks)).head = head /\ parse(Render(head, blocks)).blocks = blocks
<1> DEFINE file == Render(head, blocks)
           all == parse(file).blocks
           n == Len(blocks)
           q == Parsed(file.lines)
<1>1. file \in Files
  BY RenderType
<1>2. Len(all) = n /\ (\A i \in 1..n : Like(all[i], blocks[i])) /\ parse(file).head = head
      /\ IF blocks = <<>> THEN file.ends ELSE file.ends = blocks[n].ends
  BY RenderParsed
<1> HIDE DEF file, all
<1>3. all \in Seq(Sections)
  BY <1>1, ParseType DEF Parses, all
<1>4. file.lines \in Seq(Lines)
  BY <1>1 DEF Files
<1>5. Len(all) = Len(q.blocks) /\ \A i \in 1..Len(q.blocks) : all[i].ends = IF i = Len(q.blocks) THEN file.ends ELSE q.blocks[i].ends
  BY <1>1, ParseFields DEF all
<1>6. \A i \in 1..Len(q.blocks) : q.blocks[i].ends
  BY <1>4, ParsedWhole DEF Whole
<1> HIDE DEF q
<1>7. ASSUME NEW i \in 1..n PROVE all[i] = blocks[i]
  <2>1. all[i] \in Sections /\ blocks[i] \in Sections
    BY <1>2, <1>3
  <2>2. all[i].h = blocks[i].h /\ all[i].body = blocks[i].body
    BY <1>2 DEF Like
  <2>3. all[i].ends = blocks[i].ends
    <3>1. CASE i = n
      <4>1. blocks # <<>>
        OBVIOUS
      <4> QED
        BY <1>2, <1>5, <3>1, <4>1
    <3>2. CASE i # n
      <4>1. all[i].ends
        BY <1>2, <1>5, <1>6, <3>2
      <4>2. blocks[i].ends
        BY <3>2 DEF Joinable
      <4>3. all[i].ends \in BOOLEAN /\ blocks[i].ends \in BOOLEAN
        BY <2>1 DEF Sections
      <4> QED
        BY <4>1, <4>2, <4>3
    <3> QED
      BY <3>1, <3>2
  <2>4. all[i] = [h |-> all[i].h, body |-> all[i].body, ends |-> all[i].ends]
    BY <2>1 DEF Sections
  <2>5. blocks[i] = [h |-> blocks[i].h, body |-> blocks[i].body, ends |-> blocks[i].ends]
    BY <2>1 DEF Sections
  <2> QED
    BY <2>2, <2>3, <2>4, <2>5
<1>8. all = blocks
  BY <1>2, <1>3, <1>7, SeqEqual
<1> QED
  BY <1>1, <1>2, <1>8 DEF file, all
-----------------------------------------------------------------------------
(* The files of a rotation, read again. *)
LEMMA JoinedToNone ==
  ASSUME NEW S, NEW s \in Seq(S)
  PROVE  Joined(<<>>, s) = s /\ Joined(s, <<>>) = s
BY DEF Joined

JoinsWell(S, p, q) ==
  /\ Joined(p, q) \in Seq(S) /\ Len(Joined(p, q)) = Len(p) + Len(q)
  /\ DOMAIN Joined(p, q) = 1..(Len(p) + Len(q)) /\ Len(p) \in Nat /\ Len(q) \in Nat
  /\ \A i \in 1..Len(p) : Joined(p, q)[i] = p[i]
  /\ \A i \in 1..Len(q) : Joined(p, q)[Len(p) + i] = q[i]
LEMMA JoinedFields ==
  ASSUME NEW S, NEW p \in Seq(S), NEW q \in Seq(S)
  PROVE  JoinsWell(S, p, q)
<1>1. Len(p) \in Nat /\ Len(q) \in Nat /\ p \o q \in Seq(S) /\ Len(p \o q) = Len(p) + Len(q)
  OBVIOUS
<1>2. \A i \in 1..Len(p) : (p \o q)[i] = p[i]
  BY <1>1
<1>3. \A i \in 1..Len(q) : (p \o q)[Len(p) + i] = q[i]
  BY <1>1
<1> QED
  BY <1>1, <1>2, <1>3 DEF Joined, JoinsWell

LEMMA FirstAndRest ==
  ASSUME NEW u \in Sections, u.h.k = "unreleased", NEW keep \in Seq(Sections), AllWhole(keep)
  PROVE  /\ ThoseOfKind(<<u>> \o keep, "release") = keep
         /\ ThoseOfKind(<<u>> \o keep, "unreleased") = <<u>>
         /\ ThoseOfKind(<<u>> \o keep, "unknown") = <<>>
<1> DEFINE one == <<u>>
           all == Joined(one, keep)
           At(kind) == {n \in DOMAIN all : all[n].h.k = kind}
           To(kind) == Beyond(At(kind), one, keep)
<1>1. one \in Seq(Sections) /\ Len(one) = 1 /\ one[1] = u /\ one # <<>>
  OBVIOUS
<1> HIDE DEF one
<1>2. all \in Seq(Sections) /\ Len(all) = 1 + Len(keep) /\ all[1] = u /\ DOMAIN all = 1..(1 + Len(keep))
      /\ Len(keep) \in Nat /\ \A i \in 1..Len(keep) : all[1 + i] = keep[i]
  <2>1. /\ all \in Seq(Sections) /\ Len(all) = Len(one) + Len(keep)
        /\ DOMAIN all = 1..(Len(one) + Len(keep)) /\ Len(keep) \in Nat
        /\ \A i \in 1..Len(one) : all[i] = one[i]
        /\ \A i \in 1..Len(keep) : all[Len(one) + i] = keep[i]
    <3>1. JoinsWell(Sections, one, keep)
      BY <1>1, JoinedFields
    <3> QED
      BY <3>1 DEF JoinsWell
  <2> HIDE DEF all
  <2>2. 1 \in 1..Len(one)
    BY <1>1
  <2> QED
    BY <1>1, <2>1, <2>2
<1>3. ASSUME NEW kind
      PROVE  /\ (1 \in At(kind) <=> kind = "unreleased")
             /\ \A i \in 1..Len(keep) : i \in To(kind) <=> kind = "release"
  <2> HIDE DEF all
  <2>1. 1 \in DOMAIN all /\ \A i \in 1..Len(keep) : 1 + i \in DOMAIN all
    BY <1>2
  <2>2. \A i \in 1..Len(keep) : all[1 + i].h.k = "release"
    BY <1>2 DEF AllWhole
  <2> QED
    BY <1>1, <1>2, <2>1, <2>2 DEF Beyond
<1>4. ASSUME NEW kind PROVE ThoseOfKind(all, kind) = Joined(Those(one, At(kind)), Those(keep, To(kind)))
  <2>1. ThoseOfKind(all, kind) = Those(all, At(kind))
    BY DEF ThoseOfKind
  <2> HIDE DEF At
  <2> QED
    BY <1>1, <2>1, ThoseJoined
<1> HIDE DEF all, At, To
<1>5. ASSUME NEW kind
      PROVE  /\ kind = "unreleased" => Those(one, At(kind)) = one
             /\ kind # "unreleased" => Those(one, At(kind)) = <<>>
  <2>1. \A i \in 1..Len(one) : i = 1
    BY <1>1
  <2>2. kind = "unreleased" => \A i \in 1..Len(one) : i \in At(kind)
    BY <1>3, <2>1
  <2>3. kind # "unreleased" => \A i \in 1..Len(one) : i \notin At(kind)
    BY <1>3, <2>1
  <2> QED
    BY <1>1, <2>2, <2>3, ThoseAll, ThoseNone
<1>6. ASSUME NEW kind
      PROVE  /\ kind = "release" => Those(keep, To(kind)) = keep
             /\ kind # "release" => Those(keep, To(kind)) = <<>>
  BY <1>3, ThoseAll, ThoseNone
<1>7. /\ ThoseOfKind(all, "release") = Joined(<<>>, keep) /\ ThoseOfKind(all, "unreleased") = Joined(one, <<>>)
      /\ ThoseOfKind(all, "unknown") = Joined(<<>>, <<>>)
  BY <1>4, <1>5, <1>6
<1>8. Joined(<<>>, keep) = keep /\ Joined(one, <<>>) = one /\ Joined(<<>>, <<>>) = <<>>
  <2>1. <<>> \in Seq(Sections)
    OBVIOUS
  <2> QED
    BY <1>1, <2>1, JoinedToNone
<1>9. all = <<u>> \o keep
  BY DEF all, one, Joined
<1> QED
  BY <1>7, <1>8, <1>9 DEF one

LEMMA RootRead ==
  ASSUME NEW t \in Ledgers, ~Dies(t), t[Root].ends, NEW keep \in Seq(Sections), AllWhole(keep), NEW months \in SUBSET Nat
  PROVE  LET f == renderRoot(t, keep, months)
         IN  /\ f \in Files /\ parse(f).head = rootHead(t, months) /\ parse(f).blocks = rootBlocks(t, keep)
             /\ releases(f) = keep
             /\ OfKind(f, "unreleased") = <<OfKind(t[Root], "unreleased")[1]>>
             /\ OfKind(f, "unknown") = <<>>
<1> DEFINE all == rootBlocks(t, keep)
           head == rootHead(t, months)
           f == Render(head, all)
           u == OfKind(t[Root], "unreleased")[1]
<1>1. renderRoot(t, keep, months) = f
  BY DEF renderRoot, rootHead, rootBlocks
<1>2. head \in Seq(Lines) /\ Plain(head)
  BY RootHeadPlain
<1>3. Joinable(all) /\ all \in Seq(Sections)
  BY RootJoins
<1>4. all = <<u>> \o keep
  BY DEF rootBlocks
<1>5. u \in Sections /\ u.h.k = "unreleased"
  <2>1. t[Root] \in Files
    BY FileTypes
  <2>2. 1 \in 1..Len(OfKind(t[Root], "unreleased")) /\ u \in Sections
    BY OneUnreleased
  <2> QED
    BY <2>1, <2>2, KindWhole
<1> HIDE DEF head, all, u
<1>6. f \in Files /\ parse(f).head = head /\ parse(f).blocks = all
  BY <1>2, <1>3, RenderExact
<1>7. /\ ThoseOfKind(all, "release") = keep /\ ThoseOfKind(all, "unreleased") = <<u>>
      /\ ThoseOfKind(all, "unknown") = <<>>
  BY <1>4, <1>5, FirstAndRest
<1> HIDE DEF f
<1>8. releases(f) = keep /\ OfKind(f, "unreleased") = <<u>> /\ OfKind(f, "unknown") = <<>>
  BY <1>6, <1>7 DEF releases, OfKind
<1> QED
  BY <1>1, <1>6, <1>8 DEF head, all, u

LEMMA RootHeadRead ==
  ASSUME NEW t \in Ledgers, NEW months \in SUBSET Nat
  PROVE  /\ WithoutIndex(rootHead(t, months)) = WithoutIndex(parse(t[Root]).head)
         /\ months # {} => IndexOf(rootHead(t, months)) = <<indexLine(months)>>
         /\ months = {} => IndexOf(rootHead(t, months)) = <<>>
<1> DEFINE old == parse(t[Root]).head
           kept == WithoutIndex(old)
           at == {n \in DOMAIN old : old[n].k # "index"}
           tail == IF months = {} THEN <<>> ELSE <<indexLine(months)>>
           head == Joined(kept, tail)
           Idx == {n \in DOMAIN head : head[n].k = "index"}
           Rest == {n \in DOMAIN head : head[n].k # "index"}
<1>1. t[Root] \in Files
  BY FileTypes
<1>2. old \in Seq(Lines)
  BY <1>1, ParseType DEF Parses
<1>3. kept = Those(old, at) /\ kept \in Seq(Lines)
  BY <1>2, ThoseType DEF WithoutIndex
<1>4. \A i \in 1..Len(kept) : kept[i].k # "index"
  <2> HIDE DEF old, kept, at
  <2> SUFFICES ASSUME NEW i \in 1..Len(kept) PROVE kept[i].k # "index"
    OBVIOUS
  <2>1. i \in 1..Len(Those(old, at))
    BY <1>3
  <2>2. PICK k \in 1..Len(old) : k \in at /\ Those(old, at)[i] = old[k]
    BY <1>2, <2>1, ThoseFrom
  <2> QED
    BY <1>3, <2>2 DEF at
<1>5. tail \in Seq(Lines) /\ \A i \in 1..Len(tail) : tail[i].k = "index"
  <2> DEFINE l == indexLine(months)
  <2>1. l \in Lines /\ l.k = "index"
    BY LineTypes DEF indexLine, Blank
  <2> HIDE DEF l
  <2>2. <<l>> \in Seq(Lines) /\ Len(<<l>>) = 1 /\ \A i \in 1..1 : <<l>>[i] = l
    BY <2>1
  <2>3. <<>> \in Seq(Lines) /\ Len(<<>>) = 0
    OBVIOUS
  <2>4. tail = <<>> \/ tail = <<l>>
    BY DEF l
  <2> HIDE DEF tail
  <2>5. CASE tail = <<>>
    BY <2>3, <2>5
  <2>6. CASE tail = <<l>>
    BY <2>1, <2>2, <2>6
  <2> QED
    BY <2>4, <2>5, <2>6
<1>6. rootHead(t, months) = head
  BY DEF rootHead, Joined
<1> HIDE DEF kept, old, tail
<1>7. head \in Seq(Lines) /\ DOMAIN head = 1..(Len(kept) + Len(tail)) /\ Len(kept) \in Nat /\ Len(tail) \in Nat
      /\ (\A i \in 1..Len(kept) : head[i] = kept[i]) /\ \A i \in 1..Len(tail) : head[Len(kept) + i] = tail[i]
  <2>1. kept \in Seq(Lines) /\ tail \in Seq(Lines)
    BY <1>3, <1>5
  <2>2. JoinsWell(Lines, kept, tail)
    BY <2>1, JoinedFields
  <2> QED
    BY <2>2 DEF JoinsWell
<1>8. WithoutIndex(head) = Joined(Those(kept, Rest), Those(tail, Beyond(Rest, kept, tail)))
  <2>1. WithoutIndex(head) = Those(head, Rest)
    BY DEF WithoutIndex
  <2> HIDE DEF Rest
  <2> QED
    BY <1>3, <1>5, <2>1, ThoseJoined
<1>9. IndexOf(head) = Joined(Those(kept, Idx), Those(tail, Beyond(Idx, kept, tail)))
  <2>1. IndexOf(head) = Those(head, Idx)
    BY DEF IndexOf
  <2> HIDE DEF Idx
  <2> QED
    BY <1>3, <1>5, <2>1, ThoseJoined
<1> HIDE DEF head
<1>10. \A i \in 1..Len(kept) : i \in Rest /\ i \notin Idx
  <2>1. \A i \in 1..Len(kept) : i \in DOMAIN head
    BY <1>7
  <2> QED
    BY <1>4, <1>7, <2>1
<1>11. \A i \in 1..Len(tail) : Len(kept) + i \notin Rest /\ Len(kept) + i \in Idx
  <2>1. \A i \in 1..Len(tail) : Len(kept) + i \in DOMAIN head
    BY <1>7
  <2> QED
    BY <1>5, <1>7, <2>1
<1> HIDE DEF Rest, Idx
<1>12. Those(kept, Rest) = kept /\ Those(kept, Idx) = <<>>
  BY <1>3, <1>10, ThoseAll, ThoseNone
<1>13. Those(tail, Beyond(Rest, kept, tail)) = <<>> /\ Those(tail, Beyond(Idx, kept, tail)) = tail
  <2>1. \A i \in 1..Len(tail) : i \notin Beyond(Rest, kept, tail) /\ i \in Beyond(Idx, kept, tail)
    BY <1>11 DEF Beyond
  <2> QED
    BY <1>5, <2>1, ThoseAll, ThoseNone
<1>14. Joined(kept, <<>>) = kept /\ Joined(<<>>, tail) = tail
  BY <1>3, <1>5, JoinedToNone
<1>15. WithoutIndex(head) = kept /\ IndexOf(head) = tail
  BY <1>8, <1>9, <1>12, <1>13, <1>14
<1>16. (months # {} => tail = <<indexLine(months)>>) /\ (months = {} => tail = <<>>)
  BY DEF tail
<1> QED
  BY <1>6, <1>15, <1>16 DEF kept, old
-----------------------------------------------------------------------------
(* What a rotation keeps, and what it moves. *)
CutAt(root, k, z) ==
  /\ z.keep \in Seq(Sections) /\ Len(z.keep) = k /\ \A i \in 1..k : z.keep[i] = root[i]
  /\ z.moved \in Seq(Sections) /\ Len(z.moved) = Len(root) - k /\ \A i \in 1..(Len(root) - k) : z.moved[i] = root[k + i]
LEMMA CutParts ==
  ASSUME NEW root \in Seq(Sections), NEW k \in 0..Len(root)
  PROVE  CutAt(root, k, Cut(root, k))
<1> DEFINE n == Len(root)
           keep == SubSeq(root, 1, k)
           moved == SubSeq(root, k + 1, n)
<1>1. n \in Nat /\ k \in Nat /\ k <= n
  OBVIOUS
<1>2. keep \in Seq(Sections) /\ Len(keep) = k /\ \A i \in 1..k : keep[i] = root[i]
  BY <1>1
<1>3. moved \in Seq(Sections) /\ Len(moved) = n - k /\ \A i \in 1..(n - k) : moved[i] = root[k + i]
  BY <1>1
<1>4. Cut(root, k).keep = keep /\ Cut(root, k).moved = moved
  BY DEF Cut
<1> HIDE DEF keep, moved
<1> QED
  BY <1>2, <1>3, <1>4 DEF CutAt

LEMMA ShrinkAt ==
  ASSUME NEW t \in Ledgers
  PROVE  LET root == releases(t[Root])
         IN  \E k \in 0..Len(root) :
               /\ CutAt(root, k, Shrink(t)) /\ EndsDate(root, k) /\ MayStop(t, Shrink(t))
               /\ \A j \in 0..Len(root) : EndsDate(root, j) /\ MayStop(t, Cut(root, j)) => j <= k
<1> DEFINE root == releases(t[Root])
           cuts == {k \in 0..Len(root) : EndsDate(root, k) /\ MayStop(t, Cut(root, k))}
<1>1. root \in Seq(Sections)
  BY FileTypes
<1>2. Shrink(t) = Cut(root, Max(cuts))
  BY DEF Shrink, Shortened
<1> HIDE DEF root
<1>3. 0 \in cuts
  <2>1. Cut(root, 0).keep = <<>>
    BY <1>1 DEF Cut
  <2>2. Dates(Cut(root, 0).keep) = {}
    BY <2>1 DEF Dates, Range
  <2>3. Cardinality(Dates(Cut(root, 0).keep)) = 0
    BY <2>2, FS_EmptySet
  <2> QED
    BY <1>1, <2>3 DEF EndsDate, MayStop
<1>4. Max(cuts) \in cuts /\ \A j \in cuts : Max(cuts) >= j
  <2>1. cuts \in SUBSET (0..Len(root)) /\ cuts # {} /\ Len(root) \in Nat
    BY <1>1, <1>3
  <2> HIDE DEF cuts
  <2> QED
    BY <2>1, GreatestIndex
<1> DEFINE k == Max(cuts)
<1>5. k \in 0..Len(root) /\ EndsDate(root, k) /\ MayStop(t, Cut(root, k))
  BY <1>4
<1>6. \A j \in 0..Len(root) : EndsDate(root, j) /\ MayStop(t, Cut(root, j)) => j \in cuts
  OBVIOUS
<1> HIDE DEF cuts
<1>7. \A j \in 0..Len(root) : EndsDate(root, j) /\ MayStop(t, Cut(root, j)) => j <= k
  BY <1>1, <1>4, <1>5, <1>6
<1>8. Shrink(t) = Cut(root, k)
  BY <1>2
<1> HIDE DEF k
<1>9. CutAt(root, k, Cut(root, k))
  BY <1>1, <1>5, CutParts
<1> QED
  BY <1>5, <1>7, <1>8, <1>9 DEF root

(* What is picked of a sequence that falls does so too. *)
LEMMA ThoseFalls ==
  ASSUME NEW s \in Seq(Sections), NEW at, Falls(s), OneByOne(s)
  PROVE  Falls(Those(s, at)) /\ OneByOne(Those(s, at))
<1> DEFINE r == Those(s, at)
           k == Len(s)
<1>1. Embedded(k, s, at, r)
  BY ThoseEmbedded
<1>2. r \in Seq(Sections)
  BY ThoseType
<1> HIDE DEF r
<1>3. PICK g : Embeds(g, k, s, at, r)
  BY <1>1 DEF Embedded
<1>4. /\ \A i \in 1..Len(r) : g[i] \in 1..k /\ r[i] = s[g[i]]
      /\ \A i, j \in 1..Len(r) : i < j => g[i] < g[j]
  BY <1>3 DEF Embeds
<1>5. k \in Nat /\ Len(r) \in Nat
  BY <1>2
<1>6. ASSUME NEW j \in 1..Len(r), NEW i \in 1..j PROVE r[j].h.d <= r[i].h.d
  <2>1. i \in 1..Len(r) /\ (i < j \/ i = j)
    BY <1>5
  <2>2. g[j] \in 1..k /\ g[i] \in 1..k /\ g[i] <= g[j]
    BY <1>4, <1>5, <2>1
  <2>3. g[i] \in 1..g[j]
    BY <1>5, <2>2
  <2>4. s[g[j]].h.d <= s[g[i]].h.d
    BY <2>2, <2>3 DEF Falls
  <2> QED
    BY <1>4, <2>1, <2>4
<1>7. ASSUME NEW i \in 1..Len(r), NEW j \in 1..Len(r), r[i].h = r[j].h PROVE i = j
  <2>1. g[i] = g[j]
    BY <1>4, <1>7 DEF OneByOne
  <2>2. g[i] \in 1..k /\ g[j] \in 1..k
    BY <1>4
  <2>3. ~(i < j) /\ ~(j < i)
    BY <1>4, <1>5, <2>1, <2>2
  <2> QED
    BY <1>5, <2>3
<1>8. Falls(r) /\ OneByOne(r)
  BY <1>6, <1>7 DEF Falls, OneByOne
<1> QED
  BY <1>8 DEF r

LEMMA VolumeRead ==
  ASSUME NEW t \in Ledgers, NEW moved \in Seq(Sections), NEW m \in Volumes, AllWhole(moved)
  PROVE  LET f == nextVolume(t, moved, m)
         IN  /\ f \in Files /\ parse(f).head = <<volumeHead(m)>> /\ parse(f).blocks = volume(t, moved, m)
             /\ releases(f) = volume(t, moved, m)
             /\ \A b \in Range(volume(t, moved, m)) : b.h.k = "release"
<1> DEFINE p == InVolume(incoming(moved, m))
           q == releases(t[m])
           all == volume(t, moved, m)
           head == <<volumeHead(m)>>
           f == Render(head, all)
<1>1. p \in Seq(Sections) /\ q \in Seq(Sections) /\ all \in Seq(Sections) /\ all = p \o q
  BY VolumeType, VolumeBlocks
<1>2. nextVolume(t, moved, m) = f
  BY DEF nextVolume, volume
<1>3. AllWhole(p)
  BY IncomingWhole
<1>4. \A i \in 1..Len(q) : Plain(q[i].body) /\ q[i].h.k = "release" /\ (i # Len(q) => q[i].ends)
  <2>1. t[m] \in Files
    BY FileTypes
  <2> QED
    BY <2>1, KindWhole DEF releases
<1>5. head \in Seq(Lines) /\ Plain(head)
  <2>1. m \in Nat
    BY SMTT(30), VolumeNumbers
  <2>2. volumeHead(m) \in Lines /\ ~IsHeading(volumeHead(m))
    BY <2>1, LineTypes, LineKinds
  <2> HIDE DEF f
  <2> QED
    BY <2>2 DEF Plain
<1> HIDE DEF p, q, all, head
<1>6. Joinable(all) /\ \A i \in 1..Len(all) : all[i].h.k = "release"
  <2>1. Joinable(p \o q) /\ \A i \in 1..Len(p \o q) : (p \o q)[i].h.k = "release"
    BY <1>1, <1>3, <1>4, JoinableConcat
  <2> QED
    BY <1>1, <2>1
<1>7. f \in Files /\ parse(f).head = head /\ parse(f).blocks = all
  BY <1>1, <1>5, <1>6, RenderExact
<1> HIDE DEF f
<1>8. releases(f) = all
  <2> DEFINE at == {n \in DOMAIN all : all[n].h.k = "release"}
  <2>1. \A i \in 1..Len(all) : i \in at
    BY <1>1, <1>6
  <2>2. ThoseOfKind(all, "release") = Those(all, at)
    BY DEF ThoseOfKind
  <2> HIDE DEF at
  <2>3. Those(all, at) = all
    BY <1>1, <2>1, ThoseAll
  <2> QED
    BY <1>7, <2>2, <2>3 DEF releases, OfKind
<1>9. \A b \in Range(all) : b.h.k = "release"
  BY <1>1, <1>6 DEF Range
<1> QED
  BY <1>2, <1>7, <1>8, <1>9 DEF all, head
-----------------------------------------------------------------------------
(* The tree when the rotation has ended. *)
MonthsAfter(t) == Months(t, Shrink(t).moved)
Rotated(t) ==
  [f \in {Root} \cup Volumes |->
     IF f = Root THEN renderRoot(t, Shrink(t).keep, MonthsAfter(t))
     ELSE IF f \in MonthsAfter(t) THEN nextVolume(t, Shrink(t).moved, f) ELSE t[f]]

LEMMA MonthsInRange ==
  ASSUME NEW t \in Ledgers, t[Root].ends
  PROVE  /\ VolumesOf(t) \subseteq MonthsAfter(t) /\ MonthsAfter(t) \subseteq Volumes
         /\ \A b \in Range(Shrink(t).moved) : Month(b.h.d) \in MonthsAfter(t)
<1> DEFINE moved == Shrink(t).moved
<1>1. moved \in Seq(Sections) /\ AllWhole(moved)
  BY ShrinkType, RootCut
<1>2. MonthsAfter(t) = VolumesOf(t) \cup {Month(d) : d \in Dates(moved)}
  BY DEF MonthsAfter, Months
<1> HIDE DEF moved
<1>3. ASSUME NEW b \in Range(moved) PROVE Month(b.h.d) \in Volumes
  <2>1. b \in Sections /\ b.h.k = "release"
    BY <1>1 DEF Range, AllWhole
  <2> QED
    BY <2>1 DEF Sections, Heads, Lines
<1>4. {Month(d) : d \in Dates(moved)} = {Month(b.h.d) : b \in Range(moved)}
  BY DEF Dates
<1>5. VolumesOf(t) \subseteq Volumes
  BY VolumesAreNoRoot
<1> QED
  BY <1>2, <1>3, <1>4, <1>5 DEF moved

LEMMA RotatedFiles ==
  ASSUME NEW t \in Ledgers, t[Root].ends, ~Dies(t)
  PROVE  LET u == Rotated(t)  z == Shrink(t)  months == MonthsAfter(t)
         IN  /\ u \in Ledgers /\ VolumesOf(u) = months /\ u[Root] # NoFile
             /\ u[Root] = renderRoot(t, z.keep, months) /\ releases(u[Root]) = z.keep
             /\ \A m \in months : u[m] = nextVolume(t, z.moved, m) /\ releases(u[m]) = volume(t, z.moved, m)
             /\ \A m \in Volumes : m \notin months => u[m] = NoFile /\ t[m] = NoFile
<1> DEFINE z == Shrink(t)
           months == MonthsAfter(t)
           u == Rotated(t)
<1>1. z.keep \in Seq(Sections) /\ z.moved \in Seq(Sections) /\ AllWhole(z.keep) /\ AllWhole(z.moved)
  BY ShrinkType, RootCut
<1>2. VolumesOf(t) \subseteq months /\ months \subseteq Volumes /\ months \in SUBSET Nat
  BY MonthsInRange, VolumeNumbers
<1>3. u = [f \in {Root} \cup Volumes |->
             IF f = Root THEN renderRoot(t, z.keep, months)
             ELSE IF f \in months THEN nextVolume(t, z.moved, f) ELSE t[f]]
  BY DEF Rotated
<1> HIDE DEF z, months, u
<1>4. u[Root] = renderRoot(t, z.keep, months)
  BY <1>3
<1>5. \A m \in months : u[m] = nextVolume(t, z.moved, m)
  BY <1>2, <1>3, VolumesAreNoRoot
<1>6. \A m \in Volumes : m \notin months => u[m] = t[m]
  BY <1>3, VolumesAreNoRoot
<1>7. \A m \in Volumes : m \notin months => t[m] = NoFile
  BY <1>2 DEF VolumesOf
<1>8. /\ renderRoot(t, z.keep, months) \in Files /\ releases(renderRoot(t, z.keep, months)) = z.keep
      /\ parse(renderRoot(t, z.keep, months)).blocks = rootBlocks(t, z.keep)
  BY <1>1, <1>2, RootRead
<1>9. \A m \in months : /\ nextVolume(t, z.moved, m) \in Files
                        /\ releases(nextVolume(t, z.moved, m)) = volume(t, z.moved, m)
                        /\ parse(nextVolume(t, z.moved, m)).head = <<volumeHead(m)>>
  BY <1>1, <1>2, VolumeRead
<1>10. u[Root] # NoFile
  <2>1. rootBlocks(t, z.keep) # <<>>
    <3>1. OfKind(t[Root], "unreleased")[1] \in Sections
      BY OneUnreleased
    <3> QED
      BY <1>1, <3>1 DEF rootBlocks
  <2>2. parse(NoFile).blocks = <<>>
    BY NoFileParsed DEF Empty
  <2> QED
    BY <1>4, <1>8, <2>1, <2>2
<1>11. ASSUME NEW m \in months PROVE u[m] # NoFile
  <2>1. parse(u[m]).head = <<volumeHead(m)>>
    BY <1>5, <1>9
  <2>2. parse(NoFile).head = <<>>
    BY NoFileParsed DEF Empty
  <2>3. <<volumeHead(m)>> # <<>>
    OBVIOUS
  <2> QED
    BY <2>1, <2>2, <2>3
<1>12. VolumesOf(u) = months
  BY <1>2, <1>6, <1>7, <1>11 DEF VolumesOf
<1>13. u \in Ledgers
  <2>1. \A f \in {Root} \cup Volumes : u[f] \in Files
    BY <1>4, <1>5, <1>6, <1>8, <1>9 DEF Ledgers
  <2> QED
    BY <1>3, <2>1 DEF Ledgers
<1> QED
  BY <1>4, <1>5, <1>6, <1>7, <1>8, <1>9, <1>10, <1>12, <1>13 DEF z, months, u

(* The order of the files of a ledger, and of what is moved. *)
LEMMA LedgerOrder ==
  ASSUME NEW t \in Ledgers, InOrder(t)
  PROVE  /\ \A f \in {Root} \cup Volumes : Falls(releases(t[f])) /\ OneByOne(releases(t[f]))
         /\ \A m \in Volumes : \A i \in 1..Len(releases(t[m])) :
              /\ Month(releases(t[m])[i].h.d) = m
              /\ \A j \in 1..Len(releases(t[Root])) : releases(t[m])[i].h.d < releases(t[Root])[j].h.d
<1>1. \A m \in Volumes : releases(t[m]) # <<>> => m \in VolumesOf(t)
  BY FirstReleases DEF VolumesOf
<1>2. ASSUME NEW f \in {Root} \cup Volumes PROVE Falls(releases(t[f])) /\ OneByOne(releases(t[f]))
  <2> DEFINE s == releases(t[f])
  <2>1. s \in Seq(Sections) /\ DOMAIN s = 1..Len(s)
    BY FileTypes
  <2>2. OneByOne(s)
    BY <2>1, OneOfAHeading DEF OneByOne, InOrder
  <2>3. NewestFirst(s)
    <3>1. CASE f = Root
      BY <3>1 DEF InOrder
    <3>2. CASE s = <<>>
      BY <3>2 DEF NewestFirst
    <3>3. CASE f \in Volumes /\ s # <<>>
      BY <1>1, <3>3 DEF InOrder
    <3> QED
      BY <3>1, <3>2, <3>3
  <2>4. Falls(s)
    <3> HIDE DEF s
    <3> QED
      BY <2>1, <2>3, NewestFalls
  <2> QED
    BY <2>2, <2>4
<1>3. ASSUME NEW m \in Volumes, NEW i \in 1..Len(releases(t[m]))
      PROVE  /\ Month(releases(t[m])[i].h.d) = m
             /\ \A j \in 1..Len(releases(t[Root])) : releases(t[m])[i].h.d < releases(t[Root])[j].h.d
  <2> DEFINE q == releases(t[m])
             root == releases(t[Root])
  <2>1. q \in Seq(Sections) /\ root \in Seq(Sections) /\ Falls(root)
    BY <1>2, FileTypes
  <2>2. q # <<>> /\ q[i] \in InFile(t, m)
    BY <2>1 DEF InFile, Range
  <2>3. m \in VolumesOf(t)
    BY <1>1, <2>2
  <2>4. Month(q[i].h.d) = m /\ (root # <<>> => q[i].h.d < Last(root).h.d)
    BY <2>2, <2>3 DEF InOrder
  <2>5. ASSUME NEW j \in 1..Len(root) PROVE q[i].h.d < root[j].h.d
    <3>1. Len(root) \in 1..Len(root) /\ j \in 1..Len(root) /\ root # <<>> /\ Last(root) = root[Len(root)]
      BY <2>1 DEF Last
    <3>2. root[Len(root)].h.d <= root[j].h.d
      BY <2>1, <3>1 DEF Falls
    <3>3. q[i].h.d \in Nat /\ root[j].h.d \in Nat /\ root[Len(root)].h.d \in Nat
      BY <2>1, <3>1, SectionDates
    <3>4. q[i].h.d < root[Len(root)].h.d
      BY <2>4, <3>1
    <3> QED
      BY <3>2, <3>3, <3>4
  <2> QED
    BY <2>4, <2>5
<1> QED
  BY <1>2, <1>3

LEMMA CutOrder ==
  ASSUME NEW root \in Seq(Sections), Falls(root), OneByOne(root), NEW k \in 0..Len(root), NEW z,
         CutAt(root, k, z), EndsDate(root, k)
  PROVE  /\ Falls(z.keep) /\ OneByOne(z.keep) /\ Falls(z.moved) /\ OneByOne(z.moved)
         /\ \A i \in 1..Len(z.moved), j \in 1..Len(z.keep) : z.moved[i].h.d < z.keep[j].h.d
<1> DEFINE n == Len(root)
           keep == z.keep
           moved == z.moved
<1>1. n \in Nat /\ k \in Nat /\ k <= n
  OBVIOUS
<1>2. keep \in Seq(Sections) /\ Len(keep) = k /\ \A i \in 1..k : keep[i] = root[i] /\ i \in 1..n
  BY <1>1 DEF CutAt
<1>3. moved \in Seq(Sections) /\ Len(moved) = n - k /\ \A i \in 1..(n - k) : moved[i] = root[k + i] /\ k + i \in 1..n
  BY <1>1 DEF CutAt
<1>4. /\ \A j \in 1..n : \A i \in 1..j : root[j].h.d <= root[i].h.d
      /\ \A i, j \in 1..n : root[i].h = root[j].h => i = j
  BY DEF Falls, OneByOne
<1>5. \A i \in 1..n : root[i].h.d \in Nat
  BY SectionDates
<1>6. k \in {0, n} \/ root[k].h.d # root[k + 1].h.d
  BY DEF EndsDate
<1> HIDE DEF n, keep, moved
<1>7. Falls(keep) /\ OneByOne(keep)
  BY <1>1, <1>2, <1>4 DEF Falls, OneByOne
<1>8. OneByOne(moved)
  <2>1. ASSUME NEW i \in 1..(n - k), NEW j \in 1..(n - k), moved[i].h = moved[j].h PROVE i = j
    <3>1. k + i = k + j
      BY <1>3, <1>4, <2>1
    <3> QED
      BY <1>1, <3>1
  <2> QED
    BY <1>3, <2>1 DEF OneByOne
<1>9. Falls(moved)
  <2>1. ASSUME NEW j \in 1..(n - k), NEW i \in 1..j PROVE moved[j].h.d <= moved[i].h.d
    <3>1. i \in 1..(n - k) /\ k + i \in 1..(k + j) /\ k + j \in 1..n
      BY <1>1
    <3>2. root[k + j].h.d <= root[k + i].h.d
      BY <1>4, <3>1
    <3> QED
      BY <1>3, <3>1, <3>2
  <2> QED
    BY <1>3, <2>1 DEF Falls
<1>10. ASSUME NEW i \in 1..(n - k), NEW j \in 1..k PROVE moved[i].h.d < keep[j].h.d
  <2>1. k \in 1..n /\ k + 1 \in 1..n /\ j \in 1..n /\ k + i \in 1..n /\ k \notin {0, n}
    BY <1>1
  <2>2. k + 1 \in 1..(k + i) /\ j \in 1..k /\ k \in 1..(k + 1)
    BY <1>1
  <2>3. root[k].h.d # root[k + 1].h.d
    BY <1>6, <2>1
  <2>4. root[k + 1].h.d <= root[k].h.d /\ root[k].h.d <= root[j].h.d /\ root[k + i].h.d <= root[k + 1].h.d
    BY <1>4, <2>1, <2>2
  <2>5. root[k].h.d \in Nat /\ root[k + 1].h.d \in Nat /\ root[j].h.d \in Nat /\ root[k + i].h.d \in Nat
    BY <1>5, <2>1
  <2>6. moved[i] = root[k + i] /\ keep[j] = root[j]
    BY <1>2, <1>3
  <2> DEFINE a == root[k + i].h.d
             b == root[k + 1].h.d
             c == root[k].h.d
             e == root[j].h.d
  <2>7. a \in Nat /\ b \in Nat /\ c \in Nat /\ e \in Nat /\ a <= b /\ b <= c /\ c <= e /\ b # c
    BY <2>3, <2>4, <2>5
  <2> HIDE DEF a, b, c, e
  <2>8. a < e
    BY <2>7
  <2> QED
    BY <2>6, <2>8 DEF a, e
<1> QED
  BY <1>2, <1>3, <1>7, <1>8, <1>9, <1>10 DEF keep, moved

LEMMA ShrinkOrder ==
  ASSUME NEW t \in Ledgers, InOrder(t)
  PROVE  LET z == Shrink(t)  root == releases(t[Root])
         IN  /\ Falls(z.keep) /\ OneByOne(z.keep) /\ Falls(z.moved) /\ OneByOne(z.moved)
             /\ \A i \in 1..Len(z.moved), j \in 1..Len(z.keep) : z.moved[i].h.d < z.keep[j].h.d
             /\ \A i \in 1..Len(z.keep) : \E j \in 1..Len(root) : z.keep[i] = root[j]
             /\ \A i \in 1..Len(z.moved) : \E j \in 1..Len(root) : z.moved[i] = root[j]
<1> DEFINE root == releases(t[Root])
           z == Shrink(t)
<1>1. root \in Seq(Sections)
  BY FileTypes
<1>2. Falls(root) /\ OneByOne(root)
  BY LedgerOrder
<1>3. PICK k \in 0..Len(root) : CutAt(root, k, z) /\ EndsDate(root, k)
  BY ShrinkAt
<1> HIDE DEF root, z
<1>4. /\ Falls(z.keep) /\ OneByOne(z.keep) /\ Falls(z.moved) /\ OneByOne(z.moved)
      /\ \A i \in 1..Len(z.moved), j \in 1..Len(z.keep) : z.moved[i].h.d < z.keep[j].h.d
  BY <1>1, <1>2, <1>3, CutOrder
<1>5. /\ Len(z.keep) = k /\ \A i \in 1..k : z.keep[i] = root[i]
      /\ Len(z.moved) = Len(root) - k /\ \A i \in 1..(Len(root) - k) : z.moved[i] = root[k + i]
  BY <1>3 DEF CutAt
<1>6. Len(root) \in Nat /\ (\A i \in 1..k : i \in 1..Len(root)) /\ \A i \in 1..(Len(root) - k) : k + i \in 1..Len(root)
  BY <1>1
<1>7. /\ \A i \in 1..Len(z.keep) : \E j \in 1..Len(root) : z.keep[i] = root[j]
      /\ \A i \in 1..Len(z.moved) : \E j \in 1..Len(root) : z.moved[i] = root[j]
  BY <1>5, <1>6
<1> QED
  BY <1>4, <1>7 DEF root, z

(* What comes to a volume: the sections of its month, as they were moved. *)
LEMMA IncomingAre ==
  ASSUME NEW moved \in Seq(Sections), NEW m \in Volumes
  PROVE  LET p == InVolume(incoming(moved, m))
         IN  /\ p \in Seq(Sections)
             /\ \A i \in 1..Len(p) : \E j \in 1..Len(moved) : p[i] = toVolume(moved[j]) /\ p[i].h = moved[j].h /\ Month(p[i].h.d) = m
             /\ \A j \in 1..Len(moved) : Month(moved[j].h.d) = m => \E i \in 1..Len(p) : p[i] = toVolume(moved[j])
             /\ Falls(moved) /\ OneByOne(moved) => Falls(p) /\ OneByOne(p)
<1> DEFINE s == incoming(moved, m)
           p == InVolume(s)
           at == {n \in DOMAIN moved : Month(moved[n].h.d) = m}
<1>1. s = Those(moved, at)
  BY DEF incoming
<1>2. \A n : n \in at <=> n \in 1..Len(moved) /\ Month(moved[n].h.d) = m
  OBVIOUS
<1> HIDE DEF s, at
<1>3. s \in Seq(Sections)
  BY <1>1, ThoseType
<1>4. DOMAIN s = 1..Len(s) /\ \A i \in 1..Len(s) : s[i] \in Sections
  BY <1>3
<1>5. p \in Seq(Sections) /\ Len(p) = Len(s) /\ \A i \in 1..Len(s) : p[i] = toVolume(s[i])
  <2>1. p = [n \in 1..Len(s) |-> toVolume(s[n])] /\ Len(s) \in Nat
    BY <1>3, <1>4 DEF InVolume
  <2>2. \A i \in 1..Len(s) : toVolume(s[i]) \in Sections
    BY <1>4, ToVolumeFields
  <2> HIDE DEF p
  <2>3. p \in [1..Len(s) -> Sections]
    BY <2>1, <2>2
  <2> QED
    BY <2>1, <2>3
<1> HIDE DEF p
<1>6. \A i \in 1..Len(s) : p[i].h = s[i].h
  BY <1>4, <1>5, ToVolumeFields
<1>7. ASSUME NEW i \in 1..Len(s) PROVE \E j \in 1..Len(moved) : j \in at /\ s[i] = moved[j]
  <2>1. i \in 1..Len(Those(moved, at))
    BY <1>1
  <2>2. PICK k \in 1..Len(moved) : k \in at /\ Those(moved, at)[i] = moved[k]
    BY <2>1, ThoseFrom
  <2> QED
    BY <1>1, <2>2
<1>8. ASSUME NEW j \in 1..Len(moved), Month(moved[j].h.d) = m PROVE \E i \in 1..Len(s) : s[i] = moved[j]
  <2>1. j \in at
    BY <1>2, <1>8
  <2>2. \E i \in 1..Len(Those(moved, at)) : Those(moved, at)[i] = moved[j]
    BY <2>1, ThoseHas
  <2> QED
    BY <1>1, <2>2
<1>9. ASSUME Falls(moved), OneByOne(moved) PROVE Falls(p) /\ OneByOne(p)
  <2>1. Falls(s) /\ OneByOne(s)
    BY <1>1, <1>9, ThoseFalls
  <2>2. \A j \in 1..Len(s) : \A i \in 1..j : i \in 1..Len(s)
    BY <1>3
  <2> QED
    BY <1>5, <1>6, <2>1, <2>2 DEF Falls, OneByOne
<1>10. ASSUME NEW i \in 1..Len(p)
       PROVE  \E j \in 1..Len(moved) : p[i] = toVolume(moved[j]) /\ p[i].h = moved[j].h /\ Month(p[i].h.d) = m
  <2>1. PICK j \in 1..Len(moved) : j \in at /\ s[i] = moved[j]
    BY <1>5, <1>7
  <2> QED
    BY <1>2, <1>5, <1>6, <2>1
<1>11. ASSUME NEW j \in 1..Len(moved), Month(moved[j].h.d) = m PROVE \E i \in 1..Len(p) : p[i] = toVolume(moved[j])
  <2>1. PICK i \in 1..Len(s) : s[i] = moved[j]
    BY <1>8, <1>11
  <2> QED
    BY <1>5, <2>1
<1> QED
  BY <1>5, <1>9, <1>10, <1>11 DEF p, s

LEMMA VolumeOrder ==
  ASSUME NEW t \in Ledgers, InOrder(t), NEW m \in Volumes
  PROVE  LET z == Shrink(t)  v == volume(t, z.moved, m)
         IN  /\ v \in Seq(Sections) /\ Falls(v) /\ OneByOne(v)
             /\ \A i \in 1..Len(v) : Month(v[i].h.d) = m /\ \A j \in 1..Len(z.keep) : v[i].h.d < z.keep[j].h.d
<1> DEFINE z == Shrink(t)
           moved == z.moved
           keep == z.keep
           root == releases(t[Root])
           p == InVolume(incoming(moved, m))
           q == releases(t[m])
           v == volume(t, moved, m)
<1>1. moved \in Seq(Sections) /\ keep \in Seq(Sections)
  BY ShrinkType
<1>2. q \in Seq(Sections) /\ root \in Seq(Sections) /\ v = p \o q
  <2>1. v = p \o q
    BY <1>1, VolumeBlocks
  <2> QED
    BY <2>1, FileTypes
<1>3. /\ Falls(moved) /\ OneByOne(moved)
      /\ \A i \in 1..Len(moved), j \in 1..Len(keep) : moved[i].h.d < keep[j].h.d
      /\ \A i \in 1..Len(keep) : \E j \in 1..Len(root) : keep[i] = root[j]
      /\ \A i \in 1..Len(moved) : \E j \in 1..Len(root) : moved[i] = root[j]
  BY ShrinkOrder
<1>4. /\ Falls(q) /\ OneByOne(q)
      /\ \A i \in 1..Len(q) : Month(q[i].h.d) = m /\ \A j \in 1..Len(root) : q[i].h.d < root[j].h.d
  BY LedgerOrder
<1> HIDE DEF moved, keep, root, q
<1>5. /\ p \in Seq(Sections) /\ Falls(p) /\ OneByOne(p)
      /\ \A i \in 1..Len(p) : \E j \in 1..Len(moved) : p[i].h = moved[j].h /\ Month(p[i].h.d) = m
  BY <1>1, <1>3, IncomingAre
<1> HIDE DEF p, v
<1>6. \A i \in 1..Len(q), j \in 1..Len(p) : q[i].h.d < p[j].h.d
  <2>1. ASSUME NEW i \in 1..Len(q), NEW j \in 1..Len(p) PROVE q[i].h.d < p[j].h.d
    <3>1. PICK n \in 1..Len(moved) : p[j].h = moved[n].h
      BY <1>5
    <3>2. PICK r \in 1..Len(root) : moved[n] = root[r]
      BY <1>3
    <3>3. q[i].h.d < root[r].h.d
      BY <1>4
    <3> QED
      BY <3>1, <3>2, <3>3
  <2> QED
    BY <2>1
<1>7. Before(p, q)
  <2>1. ASSUME NEW i \in 1..Len(p), NEW j \in 1..Len(q) PROVE q[j].h.d <= p[i].h.d /\ q[j].h # p[i].h
    <3>1. q[j].h.d \in Nat /\ p[i].h.d \in Nat
      BY <1>2, <1>5, SectionDates
    <3>2. q[j].h.d < p[i].h.d
      BY <1>6
    <3> QED
      BY <3>1, <3>2
  <2> QED
    BY <2>1 DEF Before
<1>8. Falls(v) /\ OneByOne(v)
  BY <1>2, <1>4, <1>5, <1>7, OneAfterAnother
<1>9. v \in Seq(Sections) /\ \A i \in 1..Len(v) : (\E j \in 1..Len(p) : v[i] = p[j]) \/ \E j \in 1..Len(q) : v[i] = q[j]
  <2>1. Len(p) \in Nat /\ Len(q) \in Nat /\ v \in Seq(Sections) /\ Len(v) = Len(p) + Len(q)
    BY <1>2, <1>5
  <2>2. ASSUME NEW i \in 1..Len(v) PROVE (\E j \in 1..Len(p) : v[i] = p[j]) \/ \E j \in 1..Len(q) : v[i] = q[j]
    <3>1. CASE i \in 1..Len(p)
      <4>1. v[i] = p[i]
        BY <1>2, <1>5, <3>1
      <4> QED
        BY <3>1, <4>1
    <3>2. CASE i \notin 1..Len(p)
      <4>1. i - Len(p) \in 1..Len(q)
        BY <2>1, <3>2
      <4>2. v[i] = q[i - Len(p)]
        BY <1>2, <1>5, <2>1, <3>2
      <4> QED
        BY <4>1, <4>2
    <3> QED
      BY <3>1, <3>2
  <2> QED
    BY <2>1, <2>2
<1>10. ASSUME NEW i \in 1..Len(v) PROVE Month(v[i].h.d) = m /\ \A j \in 1..Len(keep) : v[i].h.d < keep[j].h.d
  <2>1. CASE \E j \in 1..Len(p) : v[i] = p[j]
    <3>1. PICK j \in 1..Len(p) : v[i] = p[j]
      BY <2>1
    <3>2. PICK k \in 1..Len(moved) : p[j].h = moved[k].h /\ Month(p[j].h.d) = m
      BY <1>5
    <3> QED
      BY <1>3, <3>1, <3>2
  <2>2. CASE \E j \in 1..Len(q) : v[i] = q[j]
    BY <1>3, <1>4, <2>2
  <2> QED
    BY <1>9, <2>1, <2>2
<1> QED
  BY <1>8, <1>9, <1>10 DEF v, moved, keep

LEMMA ApartDistinct ==
  ASSUME NEW u \in Ledgers, \A f \in {Root} \cup Volumes : OneByOne(releases(u[f])),
         \A f, g \in {Root} \cup Volumes : f # g =>
           \A i \in 1..Len(releases(u[f])), j \in 1..Len(releases(u[g])) : releases(u[f])[i].h # releases(u[g])[j].h
  PROVE  Distinct(u)
<1> DEFINE heading == [p \in Places(u) |-> releases(u[p[1]])[p[2]].h]
<1>1. ASSUME NEW p \in Places(u)
      PROVE  p[1] \in {Root} \cup Volumes /\ p[2] \in 1..Len(releases(u[p[1]])) /\ p = <<p[1], p[2]>>
  <2>1. PICK f \in {Root} \cup Volumes : p \in {<<f, n>> : n \in DOMAIN releases(u[f])}
    BY DEF Places
  <2>2. PICK n \in DOMAIN releases(u[f]) : p = <<f, n>>
    BY <2>1
  <2>3. releases(u[f]) \in Seq(Sections)
    BY FileTypes
  <2>4. p[1] = f /\ p[2] = n /\ n \in 1..Len(releases(u[f]))
    BY <2>2, <2>3
  <2> QED
    BY <2>2, <2>4
<1>2. ASSUME NEW p \in Places(u), NEW q \in Places(u), heading[p] = heading[q] PROVE p = q
  <2>1. releases(u[p[1]])[p[2]].h = releases(u[q[1]])[q[2]].h
    BY <1>2
  <2>2. p[1] = q[1]
    BY <1>1, <2>1
  <2>3. p[2] = q[2]
    BY <1>1, <2>1, <2>2 DEF OneByOne
  <2> QED
    BY <1>1, <2>2, <2>3
<1>3. DOMAIN heading = Places(u)
  OBVIOUS
<1> HIDE DEF heading
<1>4. IsInjective(heading)
  BY <1>2, <1>3 DEF IsInjective
<1> QED
  BY <1>4 DEF Distinct, heading

LEMMA RotatedOrder ==
  ASSUME NEW t \in Ledgers, t[Root].ends, ~Dies(t), InOrder(t)
  PROVE  LET u == Rotated(t)
         IN  /\ \A f \in {Root} \cup Volumes : Falls(releases(u[f])) /\ OneByOne(releases(u[f]))
             /\ \A m \in Volumes : \A i \in 1..Len(releases(u[m])) :
                  /\ Month(releases(u[m])[i].h.d) = m
                  /\ \A j \in 1..Len(releases(u[Root])) : releases(u[m])[i].h.d < releases(u[Root])[j].h.d
             /\ Distinct(u)
<1> DEFINE z == Shrink(t)
           months == MonthsAfter(t)
           u == Rotated(t)
<1>1. /\ u \in Ledgers /\ releases(u[Root]) = z.keep
      /\ \A m \in months : releases(u[m]) = volume(t, z.moved, m)
      /\ \A m \in Volumes : m \notin months => u[m] = NoFile
  BY RotatedFiles
<1>2. months \subseteq Volumes
  BY MonthsInRange
<1>3. Falls(z.keep) /\ OneByOne(z.keep) /\ z.keep \in Seq(Sections)
  BY ShrinkOrder, ShrinkType
<1>4. \A m \in Volumes : LET v == volume(t, z.moved, m)
                         IN  /\ v \in Seq(Sections) /\ Falls(v) /\ OneByOne(v)
                             /\ \A i \in 1..Len(v) : Month(v[i].h.d) = m /\ \A j \in 1..Len(z.keep) : v[i].h.d < z.keep[j].h.d
  BY VolumeOrder
<1> HIDE DEF z, months, u
<1>5. ASSUME NEW m \in Volumes
      PROVE  LET v == releases(u[m])
             IN  /\ Falls(v) /\ OneByOne(v)
                 /\ \A i \in 1..Len(v) : Month(v[i].h.d) = m /\ \A j \in 1..Len(z.keep) : v[i].h.d < z.keep[j].h.d
  <2>1. CASE m \in months
    BY <1>1, <1>4, <2>1
  <2>2. CASE m \notin months
    <3>1. releases(u[m]) = <<>>
      BY <1>1, <2>2, FirstReleases
    <3>2. Len(<<>>) = 0
      OBVIOUS
    <3> QED
      BY <3>1, <3>2 DEF Falls, OneByOne
  <2> QED
    BY <2>1, <2>2
<1>6. \A f \in {Root} \cup Volumes : releases(u[f]) \in Seq(Sections)
  BY <1>1, FileTypes
<1>7. \A f \in {Root} \cup Volumes : Falls(releases(u[f])) /\ OneByOne(releases(u[f]))
  BY <1>1, <1>3, <1>5
<1>8. ASSUME NEW m \in Volumes, NEW i \in 1..Len(releases(u[m]))
      PROVE  /\ Month(releases(u[m])[i].h.d) = m /\ releases(u[m])[i].h.d \in Nat
             /\ \A j \in 1..Len(releases(u[Root])) : /\ releases(u[m])[i].h.d < releases(u[Root])[j].h.d
                                                     /\ releases(u[Root])[j].h.d \in Nat
  BY <1>1, <1>5, <1>6, SectionDates
<1>9. ASSUME NEW f \in {Root} \cup Volumes, NEW g \in {Root} \cup Volumes, f # g,
             NEW i \in 1..Len(releases(u[f])), NEW j \in 1..Len(releases(u[g]))
      PROVE  releases(u[f])[i].h # releases(u[g])[j].h
  <2>1. CASE f = Root
    <3>1. g \in Volumes
      BY <1>9, <2>1
    <3>2. releases(u[g])[j].h.d < releases(u[f])[i].h.d /\ releases(u[g])[j].h.d \in Nat /\ releases(u[f])[i].h.d \in Nat
      BY <1>8, <2>1, <3>1
    <3> QED
      BY <3>2
  <2>2. CASE g = Root
    <3>1. f \in Volumes
      BY <1>9, <2>2
    <3>2. releases(u[f])[i].h.d < releases(u[g])[j].h.d /\ releases(u[g])[j].h.d \in Nat /\ releases(u[f])[i].h.d \in Nat
      BY <1>8, <2>2, <3>1
    <3> QED
      BY <3>2
  <2>3. CASE f # Root /\ g # Root
    <3>1. Month(releases(u[f])[i].h.d) = f /\ Month(releases(u[g])[j].h.d) = g
      BY <1>8, <2>3
    <3> QED
      BY <1>9, <3>1
  <2> QED
    BY <2>1, <2>2, <2>3
<1>10. Distinct(u)
  BY <1>1, <1>7, <1>9, ApartDistinct
<1> QED
  BY <1>7, <1>8, <1>10 DEF u

(* It is as the check asks of the form of a ledger. *)
LEMMA RotatedStructure ==
  ASSUME NEW t \in Ledgers, t[Root].ends, ~Dies(t), Structure(t)
  PROVE  Structure(Rotated(t))
<1> DEFINE z == Shrink(t)
           months == MonthsAfter(t)
           u == Rotated(t)
           root == releases(u[Root])
           idx == IndexOf(parse(u[Root]).head)
<1>1. InOrder(t)
  BY StructureInOrder
<1>2. /\ u \in Ledgers /\ VolumesOf(u) = months /\ u[Root] # NoFile
      /\ u[Root] = renderRoot(t, z.keep, months)
      /\ \A m \in months : u[m] = nextVolume(t, z.moved, m) /\ releases(u[m]) = volume(t, z.moved, m)
  BY RotatedFiles
<1>3. months \subseteq Volumes /\ months \in SUBSET Nat
  BY MonthsInRange, VolumeNumbers
<1>4. z.keep \in Seq(Sections) /\ z.moved \in Seq(Sections) /\ AllWhole(z.keep) /\ AllWhole(z.moved)
  BY ShrinkType, RootCut
<1>5. /\ \A f \in {Root} \cup Volumes : Falls(releases(u[f])) /\ OneByOne(releases(u[f]))
      /\ \A m \in Volumes : \A i \in 1..Len(releases(u[m])) :
           /\ Month(releases(u[m])[i].h.d) = m
           /\ \A j \in 1..Len(root) : releases(u[m])[i].h.d < root[j].h.d
      /\ Distinct(u)
  BY <1>1, RotatedOrder
<1> HIDE DEF z, months, u
<1>6. /\ parse(u[Root]).head = rootHead(t, months)
      /\ OfKind(u[Root], "unreleased") = <<OfKind(t[Root], "unreleased")[1]>> /\ OfKind(u[Root], "unknown") = <<>>
  BY <1>2, <1>3, <1>4, RootRead
<1>7. Len(OfKind(u[Root], "unreleased")) = 1
  BY <1>6
<1>8. IF months = {} THEN idx = <<>> ELSE idx = <<indexLine(months)>>
  BY <1>3, <1>6, RootHeadRead
<1>9. \A f \in {Root} \cup Volumes : releases(u[f]) \in Seq(Sections)
  BY <1>2, FileTypes
<1>10. \A f \in {Root} \cup Volumes : NewestFirst(releases(u[f]))
  BY <1>5, <1>9, FallsNewest
<1>11. ASSUME NEW m \in months
       PROVE  /\ parse(u[m]).head = <<volumeHead(m)>> /\ parse(u[m]).blocks = releases(u[m])
              /\ \A b \in Range(releases(u[m])) : b.h.k = "release"
  BY <1>2, <1>3, <1>4, VolumeRead
<1>12. ASSUME NEW m \in months, NEW b \in Range(releases(u[m]))
       PROVE  Month(b.h.d) = m /\ (root # <<>> => b.h.d < Last(root).h.d)
  <2>1. releases(u[m]) \in Seq(Sections) /\ m \in Volumes /\ root \in Seq(Sections)
    BY <1>3, <1>9
  <2>2. PICK i \in 1..Len(releases(u[m])) : b = releases(u[m])[i]
    BY <2>1 DEF Range
  <2>3. Month(b.h.d) = m /\ \A j \in 1..Len(root) : b.h.d < root[j].h.d
    BY <1>5, <2>1, <2>2
  <2> HIDE DEF root
  <2>4. root # <<>> => Len(root) \in 1..Len(root) /\ Last(root) = root[Len(root)]
    BY <2>1 DEF Last
  <2> QED
    BY <2>3, <2>4
<1>13. \A m \in months : /\ parse(u[m]).head = <<volumeHead(m)>>
                         /\ \A b \in Range(parse(u[m]).blocks) : b.h.k = "release" /\ Month(b.h.d) = m
                         /\ NewestFirst(releases(u[m]))
                         /\ root # <<>> => \A b \in InFile(u, m) : b.h.d < Last(root).h.d
  BY <1>3, <1>10, <1>11, <1>12 DEF InFile
<1>14. Structure(u)
  BY <1>2, <1>5, <1>6, <1>7, <1>8, <1>10, <1>13 DEF Structure
<1> QED
  BY <1>14 DEF u
-----------------------------------------------------------------------------
(* Where the sections are when the rotation has ended. *)
LEMMA ConcatRange ==
  ASSUME NEW p \in Seq(Sections), NEW q \in Seq(Sections)
  PROVE  Range(p \o q) = Range(p) \cup Range(q)
<1> DEFINE u == p \o q
<1>1. Len(p) \in Nat /\ Len(q) \in Nat /\ u \in Seq(Sections) /\ Len(u) = Len(p) + Len(q)
  OBVIOUS
<1>2. /\ \A i \in 1..Len(p) : i \in 1..Len(u) /\ u[i] = p[i]
      /\ \A i \in 1..Len(q) : Len(p) + i \in 1..Len(u) /\ u[Len(p) + i] = q[i]
  BY ConcatPlaces
<1>3. ASSUME NEW i \in 1..Len(u) PROVE (\E j \in 1..Len(p) : u[i] = p[j]) \/ \E j \in 1..Len(q) : u[i] = q[j]
  <2>1. CASE i \in 1..Len(p)
    BY <1>2, <2>1
  <2>2. CASE i \notin 1..Len(p)
    <3>1. i - Len(p) \in 1..Len(q) /\ Len(p) + (i - Len(p)) = i
      BY <1>1, <2>2
    <3>2. u[i] = q[i - Len(p)]
      BY <1>2, <3>1
    <3> QED
      BY <3>1, <3>2
  <2> QED
    BY <2>1, <2>2
<1> HIDE DEF u
<1>4. Range(u) = {u[i] : i \in 1..Len(u)} /\ Range(p) = {p[i] : i \in 1..Len(p)} /\ Range(q) = {q[i] : i \in 1..Len(q)}
  BY SMTT(30), <1>1 DEF Range
<1>5. Range(u) = Range(p) \cup Range(q)
  BY <1>2, <1>3, <1>4
<1> QED
  BY <1>5 DEF u

LEMMA RotatedSections ==
  ASSUME NEW t \in Ledgers, t[Root].ends, ~Dies(t)
  PROVE  LET u == Rotated(t)  z == Shrink(t)
         IN  /\ InFile(u, Root) = Range(z.keep)
             /\ InFile(t, Root) = Range(z.keep) \cup Range(z.moved)
             /\ InVolumes(u) = InVolumes(t) \cup {toVolume(b) : b \in Range(z.moved)}
<1> DEFINE u == Rotated(t)
           z == Shrink(t)
           root == releases(t[Root])
           months == MonthsAfter(t)
           p(m) == InVolume(incoming(z.moved, m))
           q(m) == releases(t[m])
<1>1. z.keep \in Seq(Sections) /\ z.moved \in Seq(Sections)
  BY ShrinkType
<1>2. /\ VolumesOf(u) = months /\ releases(u[Root]) = z.keep
      /\ \A m \in months : releases(u[m]) = volume(t, z.moved, m)
      /\ \A m \in Volumes : m \notin months => t[m] = NoFile
  BY RotatedFiles
<1>3. /\ VolumesOf(t) \subseteq months /\ months \subseteq Volumes
      /\ \A b \in Range(z.moved) : Month(b.h.d) \in months
  BY MonthsInRange
<1>4. InFile(u, Root) = Range(z.keep)
  BY <1>2 DEF InFile
<1>5. InFile(t, Root) = Range(z.keep) \cup Range(z.moved)
  <2>1. root \in Seq(Sections)
    BY FileTypes
  <2>2. PICK k \in 0..Len(root) : CutAt(root, k, z)
    BY ShrinkAt
  <2>3. Len(z.keep) = k /\ (\A i \in 1..k : z.keep[i] = root[i])
        /\ Len(z.moved) = Len(root) - k /\ \A i \in 1..(Len(root) - k) : z.moved[i] = root[k + i]
    BY <2>2 DEF CutAt
  <2>4. Range(root) = {root[i] : i \in 1..Len(root)} /\ Range(z.keep) = {z.keep[i] : i \in 1..Len(z.keep)}
        /\ Range(z.moved) = {z.moved[i] : i \in 1..Len(z.moved)}
    BY <1>1, <2>1 DEF Range
  <2>5. Len(root) \in Nat /\ k \in Nat /\ k <= Len(root)
    BY <2>1
  <2>6. InFile(t, Root) = Range(root)
    BY DEF InFile
  <2> HIDE DEF root, z
  <2>7. ASSUME NEW i \in 1..Len(root) PROVE root[i] \in Range(z.keep) \cup Range(z.moved)
    <3>1. CASE i <= k
      <4>1. i \in 1..k
        BY <2>5, <3>1
      <4> QED
        BY <2>3, <2>4, <4>1
    <3>2. CASE ~(i <= k)
      <4>1. i - k \in 1..(Len(root) - k) /\ k + (i - k) = i
        BY <2>5, <3>2
      <4>2. z.moved[i - k] = root[i]
        BY <2>3, <4>1
      <4> QED
        BY <2>3, <2>4, <4>1, <4>2
    <3> QED
      BY <3>1, <3>2
  <2>8. (\A i \in 1..k : i \in 1..Len(root)) /\ \A i \in 1..(Len(root) - k) : k + i \in 1..Len(root)
    BY <2>5
  <2>9. Range(z.keep) \subseteq Range(root) /\ Range(z.moved) \subseteq Range(root)
    BY <2>3, <2>4, <2>8
  <2>10. Range(root) \subseteq Range(z.keep) \cup Range(z.moved)
    BY <2>4, <2>7
  <2> QED
    BY ZenonT(30), <2>6, <2>9, <2>10
<1>6. ASSUME NEW m \in months
      PROVE  InFile(u, m) = InFile(t, m) \cup {toVolume(b) : b \in {c \in Range(z.moved) : Month(c.h.d) = m}}
  <2>1. m \in Volumes
    BY <1>3
  <2>2. q(m) \in Seq(Sections)
    BY <2>1, FileTypes
  <2>3. /\ p(m) \in Seq(Sections)
        /\ \A i \in 1..Len(p(m)) : \E j \in 1..Len(z.moved) : p(m)[i] = toVolume(z.moved[j]) /\ p(m)[i].h = z.moved[j].h /\ Month(p(m)[i].h.d) = m
        /\ \A j \in 1..Len(z.moved) : Month(z.moved[j].h.d) = m => \E i \in 1..Len(p(m)) : p(m)[i] = toVolume(z.moved[j])
    BY <1>1, <2>1, IncomingAre
  <2>4. volume(t, z.moved, m) = p(m) \o q(m)
    BY <1>1, <2>1, VolumeBlocks
  <2> HIDE DEF p, q, z
  <2>5. Range(volume(t, z.moved, m)) = Range(p(m)) \cup Range(q(m))
    BY <2>2, <2>3, <2>4, ConcatRange
  <2>6. Range(p(m)) = {p(m)[i] : i \in 1..Len(p(m))} /\ Range(z.moved) = {z.moved[i] : i \in 1..Len(z.moved)}
    BY <1>1, <2>3 DEF Range
  <2>7. Range(p(m)) = {toVolume(b) : b \in {c \in Range(z.moved) : Month(c.h.d) = m}}
    <3> DEFINE P == p(m)
               come == {c \in Range(z.moved) : Month(c.h.d) = m}
    <3>1. \A i \in 1..Len(P) : \E j \in 1..Len(z.moved) : P[i] = toVolume(z.moved[j]) /\ Month(z.moved[j].h.d) = m
      BY <2>3
    <3>2. \A j \in 1..Len(z.moved) : Month(z.moved[j].h.d) = m => \E i \in 1..Len(P) : P[i] = toVolume(z.moved[j])
      BY <2>3
    <3>3. Range(P) = {P[i] : i \in 1..Len(P)}
      BY <2>6
    <3>4. \A j \in 1..Len(z.moved) : Month(z.moved[j].h.d) = m => z.moved[j] \in come
      BY <2>6
    <3>5. \A b \in come : \E j \in 1..Len(z.moved) : b = z.moved[j] /\ Month(z.moved[j].h.d) = m
      BY <2>6
    <3> HIDE DEF P, come
    <3>6. \A x \in Range(P) : \E b \in come : x = toVolume(b)
      BY <3>1, <3>3, <3>4
    <3>7. \A b \in come : toVolume(b) \in Range(P)
      BY <3>2, <3>3, <3>5
    <3>8. Range(P) = {toVolume(b) : b \in come}
      BY <3>6, <3>7
    <3> QED
      BY <3>8 DEF P, come
  <2>8. InFile(u, m) = Range(volume(t, z.moved, m)) /\ InFile(t, m) = Range(q(m))
    BY <1>2 DEF InFile, q
  <2> QED
    BY <2>5, <2>7, <2>8
<1>7. \A m \in Volumes : m \notin VolumesOf(t) => InFile(t, m) = {}
  <2>1. Range(<<>>) = {}
    BY DEF Range
  <2> QED
    BY <2>1, FirstReleases DEF VolumesOf, InFile
<1> HIDE DEF months, u, z
<1>8. InVolumes(u) = UNION {InFile(u, m) : m \in months} /\ InVolumes(t) = UNION {InFile(t, m) : m \in VolumesOf(t)}
  BY <1>2 DEF InVolumes
<1>9. InVolumes(u) \subseteq InVolumes(t) \cup {toVolume(b) : b \in Range(z.moved)}
  <2> SUFFICES ASSUME NEW x \in InVolumes(u) PROVE x \in InVolumes(t) \/ \E b \in Range(z.moved) : x = toVolume(b)
    OBVIOUS
  <2>1. PICK m \in months : x \in InFile(u, m)
    BY <1>8
  <2>2. x \in InFile(t, m) \/ \E b \in Range(z.moved) : x = toVolume(b)
    BY <1>6, <2>1
  <2>3. x \in InFile(t, m) => m \in VolumesOf(t)
    BY <1>3, <1>7
  <2> QED
    BY <1>8, <2>2, <2>3
<1>10. InVolumes(t) \subseteq InVolumes(u)
  <2> SUFFICES ASSUME NEW x \in InVolumes(t) PROVE x \in InVolumes(u)
    OBVIOUS
  <2>1. PICK m \in VolumesOf(t) : x \in InFile(t, m)
    BY <1>8
  <2>2. m \in months /\ x \in InFile(u, m)
    BY <1>3, <1>6, <2>1
  <2> QED
    BY <1>8, <2>2
<1>11. ASSUME NEW b \in Range(z.moved) PROVE toVolume(b) \in InVolumes(u)
  <2>1. Month(b.h.d) \in months /\ toVolume(b) \in InFile(u, Month(b.h.d))
    BY <1>3, <1>6
  <2> QED
    BY <1>8, <2>1
<1>12. InVolumes(u) = InVolumes(t) \cup {toVolume(b) : b \in Range(z.moved)}
  BY <1>9, <1>10, <1>11
<1> QED
  BY <1>4, <1>5, <1>12 DEF u, z

(* What is moved is of the past: the newest date stays, whatever its length. *)
LEMMA NewestDateStays ==
  ASSUME NEW t \in Ledgers, InOrder(t), NEW b \in Range(Shrink(t).moved)
  PROVE  releases(t[Root]) # <<>> /\ b.h.d # Head(releases(t[Root])).h.d
<1> DEFINE z == Shrink(t)
           root == releases(t[Root])
           n == Len(root)
<1>1. root \in Seq(Sections) /\ Falls(root) /\ OneByOne(root)
  BY LedgerOrder, FileTypes
<1>2. PICK k \in 0..n : /\ CutAt(root, k, z) /\ EndsDate(root, k)
                        /\ \A j \in 0..n : EndsDate(root, j) /\ MayStop(t, Cut(root, j)) => j <= k
  BY ShrinkAt
<1>3. b \in Range(z.moved)
  OBVIOUS
<1> HIDE DEF z, root
<1>4. /\ Len(z.keep) = k /\ \A i \in 1..k : z.keep[i] = root[i]
      /\ z.moved \in Seq(Sections) /\ Len(z.moved) = n - k /\ \A i \in 1..(n - k) : z.moved[i] = root[k + i]
  BY <1>2 DEF CutAt
<1>9. PICK i \in 1..Len(z.moved) : b = z.moved[i]
  <2>1. DOMAIN z.moved = 1..Len(z.moved)
    BY <1>4
  <2> QED
    BY <1>3, <2>1 DEF Range
<1>5. i \in 1..(n - k) /\ b = root[k + i] /\ b = z.moved[i] /\ b \in Sections
  <2>1. b \in Sections
    BY <1>4, <1>9
  <2> QED
    BY <1>4, <1>9, <2>1
<1>6. n \in Nat /\ k \in Nat /\ 1 \in 1..n /\ k + i \in 1..n /\ root # <<>> /\ Head(root) = root[1]
  <2>1. n \in Nat /\ k \in Nat /\ k <= n
    BY <1>1
  <2> HIDE DEF n
  <2>2. i \in 1..(n - k)
    BY <1>5
  <2>3. 1 \in 1..n /\ k + i \in 1..n
    BY <2>1, <2>2
  <2>4. root # <<>> /\ Head(root) = root[1]
    BY <1>1, <2>3 DEF n
  <2> QED
    BY <2>1, <2>3, <2>4
<1>7. CASE k # 0
  <2>1. 1 \in 1..k
    BY <1>6, <1>7
  <2>2. \A i_1 \in 1..Len(z.moved), j \in 1..Len(z.keep) : z.moved[i_1].h.d < z.keep[j].h.d
    BY <1>1, <1>2, CutOrder
  <2>3. b.h.d < root[1].h.d
    BY <1>4, <1>5, <2>1, <2>2
  <2>4. b.h.d \in Nat /\ root[1].h.d \in Nat
    <3>1. root[1] \in Sections
      BY <1>1, <1>6
    <3> QED
      BY <1>5, <3>1, SectionDates
  <2> QED
    BY <1>6, <2>3, <2>4 DEF root
<1>8. CASE k = 0
  <2> DEFINE T == {j \in 1..n : root[j].h.d = root[1].h.d}
             s == Max(T)
  <2>1. T \in SUBSET (1..n) /\ 1 \in T
    BY <1>6
  <2>2. s \in T /\ \A j \in T : s >= j
    <3> HIDE DEF T
    <3> QED
      BY <1>6, <2>1, GreatestPosition
  <2> HIDE DEF s
  <2>3. s \in 1..n /\ root[s].h.d = root[1].h.d /\ \A j \in 1..n : root[j].h.d = root[1].h.d => s >= j
    BY <2>2
  <2> HIDE DEF T
  <2>4. EndsDate(root, s)
    <3>1. CASE s = n
      BY <3>1 DEF EndsDate, n
    <3>2. CASE s # n
      <4>1. s + 1 \in 1..n /\ ~(s >= s + 1)
        BY <1>6, <2>3, <3>2
      <4>2. root[s + 1].h.d # root[1].h.d
        BY <2>3, <4>1
      <4> QED
        BY <2>3, <4>2 DEF EndsDate
    <3> QED
      BY <3>1, <3>2
  <2> DEFINE cut == Cut(root, s)
  <2>5. s \in 0..Len(root) /\ s >= 1 /\ s \in Nat
    BY <1>6, <2>3
  <2>6. CutAt(root, s, cut)
    BY <1>1, <2>5, CutParts
  <2> HIDE DEF cut
  <2>7. cut.keep \in Seq(Sections) /\ Len(cut.keep) = s /\ \A j \in 1..s : cut.keep[j] = root[j]
    BY <2>6 DEF CutAt
  <2>8. ASSUME NEW j \in 1..s PROVE root[j].h.d = root[1].h.d
    <3>1. j \in 1..n /\ 1 \in 1..j
      BY <1>6, <2>3
    <3>2. root[s].h.d <= root[j].h.d /\ root[j].h.d <= root[1].h.d
      BY <1>1, <2>3, <3>1 DEF Falls, n
    <3>3. root[j].h.d \in Nat /\ root[1].h.d \in Nat
      BY <1>1, <1>6, <3>1, SectionDates
    <3> QED
      BY <2>3, <3>2, <3>3
  <2>9. Dates(cut.keep) = {root[1].h.d}
    <3>1. Range(cut.keep) = {cut.keep[j] : j \in 1..s}
      BY <2>7 DEF Range
    <3>2. 1 \in 1..s
      BY <2>5
    <3>3. \A x \in Range(cut.keep) : x.h.d = root[1].h.d
      BY <2>7, <2>8, <3>1
    <3>4. \E x \in Range(cut.keep) : x.h.d = root[1].h.d
      BY <2>7, <2>8, <3>1, <3>2
    <3> QED
      BY <3>3, <3>4 DEF Dates
  <2>10. Cardinality(Dates(cut.keep)) = 1
    BY <2>9, FS_Singleton
  <2>11. MayStop(t, cut)
    BY <2>10 DEF MayStop
  <2>12. s <= k
    BY <1>2, <2>4, <2>5, <2>11 DEF cut
  <2> QED
    BY <1>8, <2>5, <2>12
<1> QED
  BY <1>7, <1>8

LEMMA RotatedPreserves ==
  ASSUME NEW t \in Ledgers, NEW base \in Ledgers, t[Root].ends, ~Dies(t), InOrder(t), Preserves(t, base), Rotatable(t, base)
  PROVE  Preserves(Rotated(t), base)
<1> DEFINE u == Rotated(t)
           z == Shrink(t)
           inRoot == InFile(t, Root)
           baseRoot == InFile(base, Root)
           baseVolumes == InVolumes(base)
<1>1. /\ InFile(u, Root) = Range(z.keep) /\ inRoot = Range(z.keep) \cup Range(z.moved)
      /\ InVolumes(u) = InVolumes(t) \cup {toVolume(b) : b \in Range(z.moved)}
  BY RotatedSections
<1>2. inRoot = Range(releases(t[Root]))
  BY DEF InFile
<1>3. \A b \in Range(z.moved) : b \in baseRoot \/ (b.h \notin Headings(baseRoot) /\ b.h.d = Head(releases(t[Root])).h.d)
  BY <1>1, <1>2 DEF Rotatable
<1>4. \A b \in Range(z.moved) : b \in baseRoot
  BY <1>3, NewestDateStays
<1>5. baseRoot \subseteq Sections
  BY SectionTypes
<1>6. \A b \in Range(z.moved) : b \in Sections /\ toVolume(b).h = b.h
  BY <1>4, <1>5, ToVolumeFields
<1>7. /\ Distinct(base)
      /\ \A old \in baseVolumes : \E new \in InVolumes(t) : new.h = old.h /\ SameText(new, old)
      /\ \A old \in baseRoot : \/ old.h \in Headings(inRoot)
                               \/ \E new \in InVolumes(t) : new.h = old.h /\ SameText(new, toVolume(old))
      /\ Headings(InVolumes(t)) \subseteq Headings(baseVolumes \cup baseRoot)
      /\ \A new \in inRoot, old \in baseRoot : new.h = old.h => bytes(Text(new)) - bytes(Text(old)) <= BULLET_MAX_BYTES
  BY DEF Preserves
<1>8. \A b, c \in baseRoot : b.h = c.h => b = c
  BY <1>7, OnePlace
<1> HIDE DEF u, z, inRoot, baseRoot, baseVolumes
<1>9. \A old \in baseVolumes : \E new \in InVolumes(u) : new.h = old.h /\ SameText(new, old)
  BY <1>1, <1>7
<1>10. ASSUME NEW old \in baseRoot
       PROVE  \/ old.h \in Headings(InFile(u, Root))
              \/ \E new \in InVolumes(u) : new.h = old.h /\ SameText(new, toVolume(old))
  <2>1. CASE \E new \in InVolumes(t) : new.h = old.h /\ SameText(new, toVolume(old))
    BY <1>1, <2>1
  <2>2. CASE old.h \in Headings(inRoot)
    <3>1. PICK b \in inRoot : b.h = old.h
      BY <2>2 DEF Headings
    <3>2. CASE b \in Range(z.keep)
      BY <1>1, <3>1, <3>2 DEF Headings
    <3>3. CASE b \in Range(z.moved)
      <4>1. b = old
        BY <1>4, <1>8, <3>1, <3>3
      <4>2. toVolume(old) \in InVolumes(u) /\ toVolume(old).h = old.h
        BY <1>1, <1>6, <3>3, <4>1
      <4> QED
        BY <4>2 DEF SameText
    <3> QED
      BY <1>1, <3>2, <3>3
  <2> QED
    BY <1>7, <2>1, <2>2
<1>11. ASSUME NEW new \in InVolumes(u) PROVE new.h \in Headings(baseVolumes \cup baseRoot)
  <2>1. CASE new \in InVolumes(t)
    BY <1>7, <2>1 DEF Headings
  <2>2. CASE \E b \in Range(z.moved) : new = toVolume(b)
    BY <1>4, <1>6, <2>2 DEF Headings
  <2> QED
    BY <1>1, <2>1, <2>2
<1>12. Headings(InVolumes(u)) \subseteq Headings(baseVolumes \cup baseRoot)
  BY <1>11 DEF Headings
<1>13. \A new \in InFile(u, Root), old \in baseRoot : new.h = old.h => bytes(Text(new)) - bytes(Text(old)) <= BULLET_MAX_BYTES
  BY <1>1, <1>7
<1> QED
  BY <1>7, <1>9, <1>10, <1>12, <1>13 DEF Preserves, u, baseRoot, baseVolumes

(* The head is as long as it was: the index is one line before and after. *)
LEMMA BytesMore ==
  ASSUME NEW lines \in Seq(Lines), NEW l \in Lines
  PROVE  bytes(Append(lines, l)) = bytes(lines) + LineBytes(l)
<1> DEFINE more == Append(lines, l)
           m == Len(lines)
<1>1. m \in Nat /\ more \in Seq(Lines) /\ Len(more) = m + 1 /\ more[m + 1] = l /\ \A k \in 1..m : more[k] = lines[k]
  OBVIOUS
<1>2. PICK a : Sums(a, lines) /\ bytes(lines) = a[m]
  BY BytesRun
<1> HIDE DEF more
<1>3. PICK b : Sums(b, more) /\ bytes(more) = b[Len(more)]
  BY <1>1, BytesRun
<1>4. a[0] = 0 /\ \A k \in 1..m : a[k] = a[k - 1] + LineBytes(lines[k])
  BY <1>2 DEF Sums
<1>5. b[0] = 0 /\ \A k \in 1..(m + 1) : b[k] = b[k - 1] + LineBytes(more[k])
  BY <1>1, <1>3 DEF Sums
<1> DEFINE T == {k \in 0..m : a[k] = b[k]}
<1> HIDE DEF m
<1>6. 0 \in T
  BY <1>1, <1>4, <1>5
<1>7. ASSUME NEW k \in 1..m, k - 1 \in T PROVE k \in T
  <2>1. k \in 0..m /\ k \in 1..(m + 1) /\ a[k - 1] = b[k - 1] /\ more[k] = lines[k]
    BY <1>1, <1>7
  <2> QED
    BY <1>4, <1>5, <2>1
<1>8. \A k \in 0..m : k \in T
  <2> HIDE DEF T
  <2> QED
    BY <1>1, <1>6, <1>7, UpToLast
<1>9. a[m] = b[m] /\ m + 1 \in 1..(m + 1) /\ (m + 1) - 1 = m
  BY <1>1, <1>8
<1>10. b[m + 1] = b[m] + LineBytes(l)
  BY <1>1, <1>5, <1>9
<1> QED
  BY <1>1, <1>2, <1>3, <1>9, <1>10 DEF more

LEMMA NoBytes == bytes(<<>>) = 0
<1>1. <<>> \in Seq(Lines) /\ Len(<<>>) = 0
  OBVIOUS
<1>2. \A lines \in Seq(Lines) : \E run : Sums(run, lines) /\ bytes(lines) = run[Len(lines)]
  BY BytesRun
<1>3. PICK run : Sums(run, <<>>) /\ bytes(<<>>) = run[Len(<<>>)]
  BY <1>1, <1>2
<1> QED
  BY <1>1, <1>3 DEF Sums

LEMMA PartBytes ==
  ASSUME NEW lines \in Seq(Lines), NEW at, NEW rest, \A i \in 1..Len(lines) : i \in rest <=> i \notin at
  PROVE  bytes(Those(lines, at)) + bytes(Those(lines, rest)) = bytes(lines)
<1> DEFINE m == Len(lines)
<1>1. PICK a \in [0..m -> Seq(Lines)] : Picks(a, lines, at) /\ Those(lines, at) = a[m]
  BY ThoseRun
<1>2. PICK b \in [0..m -> Seq(Lines)] : Picks(b, lines, rest) /\ Those(lines, rest) = b[m]
  BY ThoseRun
<1>3. PICK c : Sums(c, lines) /\ bytes(lines) = c[m]
  BY BytesRun
<1>4. a[0] = <<>> /\ \A k \in 1..m : a[k] = IF k \in at THEN Append(a[k - 1], lines[k]) ELSE a[k - 1]
  BY <1>1 DEF Picks
<1>5. b[0] = <<>> /\ \A k \in 1..m : b[k] = IF k \in rest THEN Append(b[k - 1], lines[k]) ELSE b[k - 1]
  BY <1>2 DEF Picks
<1>6. c[0] = 0 /\ \A k \in 1..m : c[k] = c[k - 1] + LineBytes(lines[k])
  BY <1>3 DEF Sums
<1>7. m \in Nat /\ \A k \in 1..m : lines[k] \in Lines /\ (k \in rest <=> k \notin at)
  OBVIOUS
<1> HIDE DEF m
<1> DEFINE T == {k \in 0..m : bytes(a[k]) + bytes(b[k]) = c[k]}
<1>8. 0 \in T
  BY <1>4, <1>5, <1>6, <1>7, NoBytes
<1>9. ASSUME NEW k \in 1..m, k - 1 \in T PROVE k \in T
  <2>1. k \in 0..m /\ k - 1 \in 0..m /\ bytes(a[k - 1]) + bytes(b[k - 1]) = c[k - 1]
    BY <1>7, <1>9
  <2>2. a[k - 1] \in Seq(Lines) /\ b[k - 1] \in Seq(Lines) /\ lines[k] \in Lines
    BY <1>7, <2>1
  <2>3. /\ bytes(a[k - 1]) \in Nat /\ bytes(b[k - 1]) \in Nat /\ LineBytes(lines[k]) \in Nat
        /\ bytes(Append(a[k - 1], lines[k])) = bytes(a[k - 1]) + LineBytes(lines[k])
        /\ bytes(Append(b[k - 1], lines[k])) = bytes(b[k - 1]) + LineBytes(lines[k])
    BY <2>2, BytesMore, BytesType, LineBytesType
  <2>4. c[k] = c[k - 1] + LineBytes(lines[k])
    BY <1>6
  <2>5. bytes(a[k]) + bytes(b[k]) = c[k]
    <3>1. CASE k \in at
      <4>1. a[k] = Append(a[k - 1], lines[k]) /\ b[k] = b[k - 1]
        BY <1>4, <1>5, <1>7, <3>1
      <4> QED
        BY <2>1, <2>3, <2>4, <4>1
    <3>2. CASE k \notin at
      <4>1. b[k] = Append(b[k - 1], lines[k]) /\ a[k] = a[k - 1]
        BY <1>4, <1>5, <1>7, <3>2
      <4> QED
        BY <2>1, <2>3, <2>4, <4>1
    <3> QED
      BY <3>1, <3>2
  <2> QED
    BY <2>1, <2>5
<1>10. \A k \in 0..m : k \in T
  <2> HIDE DEF T
  <2> QED
    BY <1>7, <1>8, <1>9, UpToLast
<1>11. bytes(a[m]) + bytes(b[m]) = c[m]
  BY <1>7, <1>10
<1> QED
  BY <1>1, <1>2, <1>3, <1>11

LEMMA HeadBytes ==
  ASSUME NEW head \in Seq(Lines)
  PROVE  bytes(IndexOf(head)) + bytes(WithoutIndex(head)) = bytes(head)
<1> DEFINE at == {n \in DOMAIN head : head[n].k = "index"}
           rest == {n \in DOMAIN head : head[n].k # "index"}
<1>1. \A i \in 1..Len(head) : i \in rest <=> i \notin at
  OBVIOUS
<1>2. IndexOf(head) = Those(head, at) /\ WithoutIndex(head) = Those(head, rest)
  BY DEF IndexOf, WithoutIndex
<1> HIDE DEF at, rest
<1>3. bytes(Those(head, at)) + bytes(Those(head, rest)) = bytes(head)
  BY <1>1, PartBytes
<1> QED
  BY <1>2, <1>3

LEMMA IndexBytes ==
  ASSUME NEW months \in SUBSET Nat
  PROVE  bytes(<<indexLine(months)>>) = 1
<1> DEFINE l == indexLine(months)
<1>1. l \in Lines /\ LineBytes(l) = 1
  <2>1. l \in Lines
    BY LineTypes
  <2>2. l.k = "index" /\ l.glued = FALSE
    BY DEF indexLine, Blank
  <2> HIDE DEF l
  <2> QED
    BY <2>1, <2>2 DEF LineBytes
<1>2. <<>> \in Seq(Lines) /\ Append(<<>>, l) = <<l>>
  BY AppendOne
<1> HIDE DEF l
<1>3. bytes(Append(<<>>, l)) = bytes(<<>>) + LineBytes(l)
  BY <1>1, <1>2, BytesMore
<1> QED
  BY <1>1, <1>2, <1>3, NoBytes DEF l

(* What is not a release of the root stays as it was and as long. *)
LEMMA RotatedRest ==
  ASSUME NEW t \in Ledgers, t[Root].ends, ~Dies(t), Structure(t), VolumesOf(t) # {}
  PROVE  LET u == Rotated(t)
         IN  /\ OfKind(u[Root], "unreleased") = OfKind(t[Root], "unreleased")
             /\ WithoutIndex(parse(u[Root]).head) = WithoutIndex(parse(t[Root]).head)
             /\ FixedBytes(u) = FixedBytes(t)
<1> DEFINE z == Shrink(t)
           months == MonthsAfter(t)
           u == Rotated(t)
           old == parse(t[Root]).head
           new == parse(u[Root]).head
           one == OfKind(t[Root], "unreleased")
<1>1. u \in Ledgers /\ u[Root] = renderRoot(t, z.keep, months)
  BY RotatedFiles
<1>2. months \in SUBSET Nat /\ months # {} /\ VolumesOf(t) \in SUBSET Nat
  <2>1. VolumesOf(t) \subseteq months /\ months \subseteq Volumes
    BY MonthsInRange
  <2>2. Volumes \subseteq Nat
    BY VolumeNumbers
  <2> HIDE DEF months
  <2> QED
    BY <2>1, <2>2
<1>3. z.keep \in Seq(Sections) /\ AllWhole(z.keep)
  BY ShrinkType, RootCut
<1>4. t[Root] \in Files /\ u[Root] \in Files
  BY <1>1, FileTypes
<1>5. old \in Seq(Lines) /\ new \in Seq(Lines)
  BY <1>4, ParseType DEF Parses
<1>6. one \in Seq(Sections) /\ Len(one) = 1
  BY <1>4, OfKindType DEF Structure
<1> HIDE DEF z, months, u
<1>7. new = rootHead(t, months) /\ OfKind(u[Root], "unreleased") = <<one[1]>>
  BY <1>1, <1>2, <1>3, RootRead
<1>8. <<one[1]>> = one
  <2> HIDE DEF one
  <2>1. one[1] \in Sections
    <3>1. \A s \in Seq(Sections) : Len(s) = 1 => s[1] \in Sections
      OBVIOUS
    <3> QED
      BY <1>6, <3>1, Zenon
  <2>2. <<one[1]>> \in Seq(Sections) /\ Len(<<one[1]>>) = 1 /\ \A i \in 1..1 : <<one[1]>>[i] = one[i]
    BY <2>1
  <2> QED
    BY <1>6, <2>2, SeqEqual
<1>9. WithoutIndex(rootHead(t, months)) = WithoutIndex(old) /\ IndexOf(rootHead(t, months)) = <<indexLine(months)>>
  BY <1>2, RootHeadRead
<1>10. IndexOf(old) = <<indexLine(VolumesOf(t))>>
  BY DEF Structure
<1>11. OfKind(u[Root], "unreleased") = one
  BY <1>7, <1>8
<1> HIDE DEF old, new
<1>12. WithoutIndex(new) = WithoutIndex(old) /\ bytes(IndexOf(new)) = 1 /\ bytes(IndexOf(old)) = 1
  BY <1>2, <1>7, <1>9, <1>10, IndexBytes
<1>13. bytes(new) = bytes(old)
  BY <1>5, <1>12, HeadBytes
<1>14. FixedBytes(u) = FixedBytes(t)
  BY <1>11, <1>13 DEF FixedBytes, old, new, one
<1> QED
  BY <1>11, <1>12, <1>14 DEF u, old, new

(* A tree that is ready is only too long. *)
Ready(t, base) ==
  /\ t \in Ledgers /\ base \in Ledgers /\ t[Root].ends /\ ~Dies(t)
  /\ ButForLength(t, base) /\ FixedBytes(t) <= ROOT_MAX_BYTES /\ Rotatable(t, base) /\ InVolumes(base) # {}

LEMMA ReadyHasVolumes ==
  ASSUME NEW t, NEW base, Preserves(t, base), InVolumes(base) # {}
  PROVE  InVolumes(t) # {} /\ VolumesOf(t) # {}
<1>1. \A old \in InVolumes(base) : \E new \in InVolumes(t) : new.h = old.h /\ SameText(new, old)
  BY DEF Preserves
<1>2. InVolumes(t) # {}
  BY <1>1
<1>3. PICK x : x \in UNION {InFile(t, m) : m \in VolumesOf(t)}
  BY <1>2 DEF InVolumes
<1> QED
  BY <1>2, <1>3

LEMMA RotatedLetIn ==
  ASSUME NEW t, NEW base, Ready(t, base)
  PROVE  checkLedger(Rotated(t), base, Refs)
<1> DEFINE u == Rotated(t)
           z == Shrink(t)
           months == MonthsAfter(t)
           exempt == UNION {Range(itemsOf(b)) : b \in Range(OfKind(base[Root], "unreleased"))}
<1>1. /\ t \in Ledgers /\ base \in Ledgers /\ t[Root].ends /\ ~Dies(t)
      /\ Structure(t) /\ Preserves(t, base) /\ NewItemsAreShort(t, base)
      /\ FixedBytes(t) <= ROOT_MAX_BYTES /\ Rotatable(t, base) /\ InVolumes(base) # {}
  BY DEF Ready, ButForLength
<1>2. InOrder(t)
  BY <1>1, StructureInOrder
<1>3. Structure(u)
  BY <1>1, RotatedStructure
<1>4. Preserves(u, base)
  BY <1>1, <1>2, RotatedPreserves
<1>5. VolumesOf(t) # {}
  BY <1>1, ReadyHasVolumes
<1>6. /\ OfKind(u[Root], "unreleased") = OfKind(t[Root], "unreleased")
      /\ WithoutIndex(parse(u[Root]).head) = WithoutIndex(parse(t[Root]).head)
      /\ FixedBytes(u) = FixedBytes(t)
  BY <1>1, <1>5, RotatedRest
<1>7. InFile(u, Root) \subseteq InFile(t, Root)
  BY <1>1, RotatedSections
<1>8. u[Root] = renderRoot(t, z.keep, months) /\ releases(u[Root]) = z.keep
  BY <1>1, RotatedFiles
<1>9. bytes(u[Root].lines) <= ROOT_MAX_BYTES \/ Cardinality(Dates(releases(u[Root]))) <= 1
  <2>1. TooLong(t, z) => Cardinality(Dates(z.keep)) <= 1
    BY <1>1, ShrinkAt DEF MayStop
  <2>2. TooLong(t, z) <=> bytes(u[Root].lines) > ROOT_MAX_BYTES
    BY <1>8 DEF TooLong, MonthsAfter
  <2>3. bytes(u[Root].lines) \in Nat /\ ROOT_MAX_BYTES \in Nat
    <3>1. u \in Ledgers
      BY <1>1, RotatedFiles
    <3>2. u[Root].lines \in Seq(Lines)
      BY <3>1, FileTypes DEF Files
    <3> QED
      BY <3>2, BytesType, BoundsAreNatural
  <2> HIDE DEF z, u, months
  <2> QED
    BY <1>8, <2>1, <2>2, <2>3
<1> HIDE DEF u, z, months
<1>10. NewItemsAreShort(u, base)
  <2>1. /\ \A b \in Range(OfKind(t[Root], "unreleased")) : capBullets(b, exempt)
        /\ \A b \in InFile(t, Root) : b.h \in Headings(InFile(base, Root) \cup InVolumes(base)) \/ capBullets(b, exempt)
        /\ bytes(WithoutIndex(parse(t[Root]).head)) - bytes(WithoutIndex(parse(base[Root]).head)) <= BULLET_MAX_BYTES
    BY <1>1 DEF NewItemsAreShort
  <2> HIDE DEF exempt
  <2>2. /\ \A b \in Range(OfKind(u[Root], "unreleased")) : capBullets(b, exempt)
        /\ \A b \in InFile(u, Root) : b.h \in Headings(InFile(base, Root) \cup InVolumes(base)) \/ capBullets(b, exempt)
        /\ bytes(WithoutIndex(parse(u[Root]).head)) - bytes(WithoutIndex(parse(base[Root]).head)) <= BULLET_MAX_BYTES
    BY <1>6, <1>7, <2>1
  <2> QED
    BY <2>2 DEF NewItemsAreShort, exempt
<1>11. ShortEnough(u)
  BY <1>1, <1>6, <1>9 DEF ShortEnough
<1>12. baselineRef(Refs) # "none"
  BY DEF baselineRef, Refs
<1> QED
  BY <1>3, <1>4, <1>10, <1>11, <1>12 DEF checkLedger, ButForLength, u
-----------------------------------------------------------------------------
(* Another run finds nothing to change: what it would write is there. *)
LEMMA WrittenSame ==
  ASSUME NEW u \in Ledgers, NEW w \in Seq(FilesToWrite), \A i \in 1..Len(w) : u[w[i].at] = w[i].file
  PROVE  Written(u, w) = u
<1> DEFINE m == Len(w)
           V == {u}
           op(v, x) == [v EXCEPT ![x.at] = x.file]
           step == [y \in V \X (1..m) |-> u]
           Folds(it) == it = [s \in SUBSET (1..m) |-> IF s = {} THEN u ELSE op(it[s \ {Max(s)}], w[Max(s)])]
<1>1. m \in Nat /\ DOMAIN w = 1..m
  OBVIOUS
<1>2. \A i \in 1..m : op(u, w[i]) = u
  <2>1. ASSUME NEW i \in 1..m PROVE op(u, w[i]) = u
    <3>1. u[w[i].at] = w[i].file /\ DOMAIN u = {Root} \cup Volumes /\ u = [f \in {Root} \cup Volumes |-> u[f]]
      BY DEF Ledgers
    <3> QED
      BY <3>1
  <2> QED
    BY <2>1
<1>3. step \in [V \X (1..m) -> V] /\ u \in V
  OBVIOUS
<1>4. Written(u, w) = (CHOOSE it : Folds(it))[1..m]
  <2> HIDE DEF m
  <2> QED
    BY <1>1 DEF Written, FoldLeft, MapThenFoldSet
<1> HIDE DEF m
<1> DEFINE g == [s \in SUBSET (1..m) |-> u]
<1>5. Folds(g)
  <2>1. ASSUME NEW s \in SUBSET (1..m), s # {} PROVE op(g[s \ {Max(s)}], w[Max(s)]) = u
    <3>1. Max(s) \in 1..m /\ g[s \ {Max(s)}] = u
      BY <1>1, <2>1, GreatestPosition
    <3> HIDE DEF g
    <3> QED
      BY <1>2, <3>1
  <2> QED
    BY <2>1
<1>6. PICK it : Folds(it) /\ Written(u, w) = it[1..m]
  <2> HIDE DEF g, Folds
  <2> QED
    BY <1>4, <1>5
<1>7. it[{}] = u
  BY <1>6
<1>8. ASSUME NEW s \in SUBSET (1..m), s # {}, it[s \ {Max(s)}] \in V
      PROVE  it[s] = step[<<it[s \ {Max(s)}], Max(s)>>]
  <2>1. Max(s) \in 1..m
    BY <1>1, <1>8, GreatestPosition
  <2>2. it[s] = op(it[s \ {Max(s)}], w[Max(s)])
    BY <1>6, <1>8
  <2>3. it[s \ {Max(s)}] = u
    BY <1>8
  <2> QED
    BY <1>2, <2>1, <2>2, <2>3
<1> HIDE DEF step, V, Folds
<1>9. HasRun(it, V, m, u, step)
  <2>1. FoldsIn(it, V, m, u, step)
    BY <1>7, <1>8 DEF FoldsIn
  <2> QED
    BY <1>1, <1>3, <2>1, FoldRuns
<1>10. PICK run \in [0..m -> V] : it[1..m] = run[m]
  BY <1>9 DEF HasRun
<1>11. run[m] \in V
  BY <1>1
<1> QED
  BY <1>6, <1>10, <1>11 DEF V

LEMMA RotatedAgain ==
  ASSUME NEW t, NEW base, Ready(t, base)
  PROVE  Written(Rotated(t), Writes(Rotated(t))) = Rotated(t)
<1> DEFINE u == Rotated(t)
           z == Shrink(t)
           months == MonthsAfter(t)
           again == Shrink(u)
<1>1. /\ t \in Ledgers /\ t[Root].ends /\ ~Dies(t)
      /\ FixedBytes(t) <= ROOT_MAX_BYTES
  BY DEF Ready
<1>2. /\ u \in Ledgers /\ VolumesOf(u) = months
      /\ u[Root] = renderRoot(t, z.keep, months) /\ releases(u[Root]) = z.keep
      /\ \A m \in months : u[m] = nextVolume(t, z.moved, m) /\ releases(u[m]) = volume(t, z.moved, m)
  BY <1>1, RotatedFiles
<1>3. months \subseteq Volumes /\ months \in SUBSET Nat
  <2>1. months \subseteq Volumes
    BY <1>1, MonthsInRange
  <2>2. Volumes \subseteq Nat
    BY VolumeNumbers
  <2> HIDE DEF months
  <2> QED
    BY <2>1, <2>2
<1>4. z.keep \in Seq(Sections) /\ z.moved \in Seq(Sections) /\ AllWhole(z.keep)
  BY <1>1, ShrinkType, RootCut
<1>5. checkLedger(u, base, Refs)
  BY RotatedLetIn
<1>6. ShortEnough(u)
  BY <1>5 DEF checkLedger
<1> HIDE DEF u, z, months
<1>7. CASE Writes(u) = <<>>
  <2>1. <<>> \in Seq(FilesToWrite) /\ Len(<<>>) = 0
    OBVIOUS
  <2>2. \A i \in 1..Len(<<>>) : u[<<>>[i].at] = <<>>[i].file
    BY <2>1
  <2>3. Written(u, <<>>) = u
    BY <1>2, <2>1, <2>2, WrittenSame
  <2> QED
    BY <1>7, <2>3 DEF u
<1>8. CASE Writes(u) # <<>>
  <2>1. ~(bytes(u[Root].lines) <= ROOT_MAX_BYTES)
    BY <1>8 DEF Writes
  <2>2. Cardinality(Dates(z.keep)) <= 1
    BY <1>2, <1>6, <2>1 DEF ShortEnough
  <2>3. again.keep = z.keep /\ again.moved = <<>>
    <3> DEFINE n == Len(z.keep)
    <3>1. PICK k \in 0..n : /\ CutAt(z.keep, k, again)
                            /\ \A j \in 0..n : EndsDate(z.keep, j) /\ MayStop(u, Cut(z.keep, j)) => j <= k
      BY <1>2, ShrinkAt
    <3>2. n \in Nat /\ n \in 0..n
      BY <1>4
    <3>3. EndsDate(z.keep, n)
      BY DEF EndsDate
    <3>4. Cut(z.keep, n).keep = z.keep
      BY <1>4, WholeSubSeq DEF Cut
    <3>5. MayStop(u, Cut(z.keep, n))
      BY <2>2, <3>4 DEF MayStop
    <3>6. k = n
      BY <3>1, <3>2, <3>3, <3>5
    <3>7. /\ again.keep \in Seq(Sections) /\ Len(again.keep) = n /\ \A i \in 1..n : again.keep[i] = z.keep[i]
          /\ again.moved \in Seq(Sections) /\ Len(again.moved) = n - n
      BY <3>1, <3>6 DEF CutAt
    <3> HIDE DEF again
    <3>8. again.keep = z.keep
      BY <1>4, <3>7, SeqEqual
    <3>9. again.moved = <<>>
      BY <3>2, <3>7
    <3> QED
      BY <3>8, <3>9
  <2>4. Months(u, again.moved) = months
    <3>1. Dates(<<>>) = {}
      BY DEF Dates, Range
    <3>2. {Month(d) : d \in Dates(<<>>)} = {}
      BY <3>1
    <3> QED
      BY <1>2, <2>3, <3>2 DEF Months
  <2>5. Writes(u) = Append(VolumeWrites(u, again), RootWrite(u, again, months))
    BY <1>8, <2>4, WritesForm
  <2> HIDE DEF again
  <2>6. renderRoot(u, again.keep, months) = u[Root]
    <3>1. WithoutIndex(rootHead(t, months)) = WithoutIndex(parse(t[Root]).head)
      BY <1>1, <1>3, RootHeadRead
    <3>2. parse(u[Root]).head = rootHead(t, months) /\ OfKind(u[Root], "unreleased") = <<OfKind(t[Root], "unreleased")[1]>>
      BY <1>1, <1>2, <1>3, <1>4, RootRead
    <3>3. WithoutIndex(parse(u[Root]).head) = WithoutIndex(parse(t[Root]).head)
      BY <3>1, <3>2
    <3>4. OfKind(u[Root], "unreleased")[1] = OfKind(t[Root], "unreleased")[1]
      BY <3>2
    <3> QED
      BY <1>2, <2>3, <3>3, <3>4 DEF renderRoot
  <2>7. ASSUME NEW m \in months PROVE nextVolume(u, again.moved, m) = u[m]
    <3> DEFINE v == volume(t, z.moved, m)
    <3>1. m \in Volumes /\ m \in VolumesOf(u)
      BY <1>2, <1>3
    <3>2. v \in Seq(Sections)
      BY <1>1, <1>4, <3>1, VolumeType
    <3>3. <<>> \in Seq(Sections)
      OBVIOUS
    <3>4. InVolume(incoming(<<>>, m)) = <<>>
      <4> DEFINE p == InVolume(incoming(<<>>, m))
      <4>1. p \in Seq(Sections) /\ \A i \in 1..Len(p) : \E j \in 1..Len(<<>>) : TRUE
        BY <3>1, <3>3, IncomingAre
      <4> HIDE DEF p
      <4>2. \A i \in 1..Len(p) : FALSE
        BY <4>1
      <4>3. Len(p) = 0
        <5>1. Len(p) \in Nat /\ 1 \notin 1..Len(p)
          BY <4>1, <4>2
        <5> QED
          BY <5>1
      <4>4. p = <<>>
        BY <4>1, <4>3
      <4> QED
        BY <4>4 DEF p
    <3>5. volume(u, <<>>, m) = <<>> \o releases(u[m])
      BY <1>2, <3>1, <3>3, <3>4, VolumeBlocks
    <3>6. releases(u[m]) = v /\ u[m] = Render(<<volumeHead(m)>>, v)
      BY <1>2 DEF nextVolume, volume
    <3> HIDE DEF v
    <3>7. <<>> \o v = v
      BY <3>2
    <3>8. nextVolume(u, <<>>, m) = Render(<<volumeHead(m)>>, volume(u, <<>>, m))
      BY DEF nextVolume, volume
    <3> QED
      BY <2>3, <3>5, <3>6, <3>7, <3>8
  <2>8. Writes(u) \in Seq(FilesToWrite)
    BY <1>2, WritesType
  <2>9. ASSUME NEW i \in 1..Len(Writes(u)) PROVE u[Writes(u)[i].at] = Writes(u)[i].file
    <3> DEFINE order == monthOrder(u, again.moved)
               volumes == VolumeWrites(u, again)
               root == RootWrite(u, again, months)
               n == Len(order)
    <3>0. again.moved \in Seq(Sections) /\ InMonths(again.moved)
      <4>1. <<>> \in Seq(Sections) /\ InMonths(<<>>)
        BY DEF InMonths
      <4> QED
        BY <2>3, <4>1
    <3>1. order \in Seq(Volumes) /\ n \in Nat /\ DOMAIN order = 1..n
      <4>1. order \in Seq(Volumes)
        BY <3>0, OrderIs
      <4> QED
        BY <4>1
    <3>2. \A j \in 1..n : order[j] \in months
      BY <2>4, <3>0, OrderIs
    <3>3. volumes = [j \in 1..n |-> [at |-> order[j], file |-> nextVolume(u, again.moved, order[j])]]
      BY <3>1 DEF VolumeWrites
    <3>4. root.at = Root /\ root.file = u[Root]
      BY <2>6 DEF RootWrite
    <3> HIDE DEF order, root, n
    <3>5. \A j \in 1..n : volumes[j].at = order[j] /\ volumes[j].file = nextVolume(u, again.moved, order[j])
      BY <3>3
    <3>6. \A j \in 1..n : u[volumes[j].at] = volumes[j].file
      BY <2>7, <3>2, <3>5
    <3> DEFINE V == {volumes[j] : j \in 1..n}
    <3>7. volumes \in [1..n -> V]
      BY <3>3
    <3> HIDE DEF V, volumes
    <3>8. volumes \in Seq(V) /\ Len(volumes) = n
      BY <3>1, <3>7
    <3> DEFINE p == Append(volumes, root)
    <3>9. Len(p) = n + 1 /\ p[n + 1] = root /\ \A j \in 1..n : p[j] = volumes[j]
      BY <3>1, <3>8
    <3>10. Writes(u) = p
      BY <2>5 DEF volumes, root
    <3> HIDE DEF p
    <3>11. i \in 1..(n + 1)
      BY <3>9, <3>10
    <3>12. i \in 1..n \/ i = n + 1
      BY <3>1, <3>11
    <3> QED
      BY <3>4, <3>6, <3>9, <3>10, <3>12
  <2>10. Written(u, Writes(u)) = u
    BY <1>2, <2>8, <2>9, WrittenSame
  <2> QED
    BY <2>10 DEF u
<1> QED
  BY <1>7, <1>8
-----------------------------------------------------------------------------
(* A rotation under way: each file is as it will be, or has yet to be      *)
(* written, and what is written is what it will be.                        *)
Underway(t, u, p) ==
  /\ \A i \in 1..Len(p) : p[i].file = Rotated(t)[p[i].at]
  /\ \A f \in {Root} \cup Volumes : u[f] = Rotated(t)[f] \/ \E i \in 1..Len(p) : p[i].at = f

LEMMA UnderwayFirst ==
  ASSUME NEW t \in Ledgers, t[Root].ends, Writes(t) # <<>>
  PROVE  Underway(t, t, Writes(t))
<1> DEFINE z == Shrink(t)
           months == MonthsAfter(t)
           u == Rotated(t)
           order == monthOrder(t, z.moved)
           volumes == VolumeWrites(t, z)
           root == RootWrite(t, z, months)
           n == Len(order)
           p == Append(volumes, root)
<1>1. Writes(t) = p /\ ~Dies(t)
  BY WritesForm DEF MonthsAfter
<1>2. /\ u[Root] = renderRoot(t, z.keep, months)
      /\ \A m \in months : u[m] = nextVolume(t, z.moved, m)
      /\ \A m \in Volumes : m \notin months => u[m] = NoFile /\ t[m] = NoFile
  BY <1>1, RotatedFiles
<1>0. z.moved \in Seq(Sections) /\ InMonths(z.moved) /\ months = Months(t, z.moved)
  BY ShrinkType, MovedInMonths DEF MonthsAfter
<1>3. order \in Seq(Volumes) /\ n \in Nat /\ DOMAIN order = 1..n
  <2>1. order \in Seq(Volumes)
    BY <1>0, OrderIs
  <2> QED
    BY <2>1
<1>4. /\ \A m \in Volumes : m \in months => \E i \in 1..n : order[i] = m
      /\ \A i \in 1..n : order[i] \in months
  BY <1>0, OrderIs
<1>5. volumes = [i \in 1..n |-> [at |-> order[i], file |-> nextVolume(t, z.moved, order[i])]]
  BY <1>3 DEF VolumeWrites
<1>6. root.at = Root /\ root.file = u[Root]
  BY <1>2 DEF RootWrite
<1> HIDE DEF order, root, n, u, months
<1>7. \A i \in 1..n : volumes[i].at = order[i] /\ volumes[i].file = u[order[i]]
  BY <1>2, <1>4, <1>5
<1> DEFINE V == {volumes[i] : i \in 1..n}
<1>8. volumes \in [1..n -> V]
  BY <1>5
<1> HIDE DEF V, volumes
<1>9. volumes \in Seq(V) /\ Len(volumes) = n
  BY <1>3, <1>8
<1>10. Len(p) = n + 1 /\ p[n + 1] = root /\ \A i \in 1..n : p[i] = volumes[i]
  BY <1>3, <1>9
<1> HIDE DEF p
<1>11. \A i \in 1..(n + 1) : i \in 1..n \/ i = n + 1
  BY <1>3
<1>12. (\A i \in 1..n : i \in 1..(n + 1)) /\ n + 1 \in 1..(n + 1)
  BY <1>3
<1>13. \A i \in 1..Len(p) : p[i].file = u[p[i].at]
  BY <1>6, <1>7, <1>10, <1>11
<1>14. ASSUME NEW f \in {Root} \cup Volumes PROVE t[f] = u[f] \/ \E i \in 1..Len(p) : p[i].at = f
  <2>1. CASE f = Root
    BY <1>6, <1>10, <1>12, <2>1
  <2>2. CASE f \in Volumes /\ f \in months
    <3>1. PICK i \in 1..n : order[i] = f
      BY <1>4, <2>2
    <3> QED
      BY <1>7, <1>10, <1>12, <3>1
  <2>3. CASE f \in Volumes /\ f \notin months
    BY <1>2, <2>3
  <2> QED
    BY <2>1, <2>2, <2>3
<1> QED
  BY <1>1, <1>13, <1>14 DEF Underway, u

LEMMA UnderwayNext ==
  ASSUME NEW t, NEW u \in Ledgers, NEW p \in Seq(FilesToWrite), p # <<>>, Underway(t, u, p),
         NEW v, v = [u EXCEPT ![Head(p).at] = Head(p).file]
  PROVE  Underway(t, v, Tail(p))
<1> DEFINE n == Len(p)
           q == Tail(p)
           r == Rotated(t)
<1>1. n \in Nat /\ n >= 1 /\ Head(p) = p[1] /\ 1 \in 1..n
  OBVIOUS
<1>2. Len(q) = n - 1 /\ \A i \in 1..(n - 1) : q[i] = p[i + 1]
  OBVIOUS
<1>3. \A i \in 1..n : p[i].file = r[p[i].at]
  BY DEF Underway
<1>4. \A f \in {Root} \cup Volumes : u[f] = r[f] \/ \E i \in 1..n : p[i].at = f
  BY DEF Underway
<1>5. \A f \in {Root} \cup Volumes : v[f] = IF f = p[1].at THEN p[1].file ELSE u[f]
  BY <1>1 DEF Ledgers
<1> HIDE DEF n, q, r
<1>6. \A i \in 1..(n - 1) : i + 1 \in 1..n
  BY <1>1
<1>7. \A i \in 1..Len(q) : q[i].file = r[q[i].at]
  BY <1>2, <1>3, <1>6
<1>8. ASSUME NEW f \in {Root} \cup Volumes PROVE v[f] = r[f] \/ \E i \in 1..Len(q) : q[i].at = f
  <2>1. CASE f = p[1].at
    BY <1>1, <1>3, <1>5, <2>1
  <2>2. CASE f # p[1].at /\ u[f] = r[f]
    BY <1>5, <2>2
  <2>3. ASSUME f # p[1].at, NEW i \in 1..n, p[i].at = f PROVE \E j \in 1..Len(q) : q[j].at = f
    <3>1. i # 1
      BY <2>3
    <3>2. i - 1 \in 1..(n - 1) /\ (i - 1) + 1 = i
      BY <1>1, <3>1
    <3>3. q[i - 1] = p[i]
      BY <1>2, <3>2
    <3> QED
      BY <1>2, <2>3, <3>2, <3>3
  <2> QED
    BY <1>4, <2>1, <2>2, <2>3
<1> QED
  BY <1>7, <1>8 DEF Underway, q, r

LEMMA UnderwayLast ==
  ASSUME NEW t, NEW u \in Ledgers, Underway(t, u, <<>>), Rotated(t) \in Ledgers
  PROVE  u = Rotated(t)
<1> DEFINE r == Rotated(t)
<1>1. \A f \in {Root} \cup Volumes : u[f] = r[f] \/ \E i \in 1..Len(<<>>) : <<>>[i].at = f
  BY DEF Underway
<1>2. \A i : i \notin 1..Len(<<>>)
  OBVIOUS
<1>3. r \in Ledgers
  OBVIOUS
<1> HIDE DEF r
<1>4. \A f \in {Root} \cup Volumes : u[f] = r[f]
  BY <1>1, <1>2
<1>5. u = r
  BY <1>3, <1>4 DEF Ledgers
<1> QED
  BY <1>5 DEF r

(* What is clean is being rotated from a tree that was only too long; main  *)
(* has a volume, so that the index does not make its head any longer.      *)
SettleInv ==
  /\ InVolumes(main) # {}
  /\ clean => \E t \in Ledgers : Ready(t, main) /\ Underway(t, tree, pending)

LEMMA SettleInit == Init => SettleInv
<1> SUFFICES ASSUME Init PROVE SettleInv
  OBVIOUS
<1>1. VolumesOf(main) = {1} /\ releases(main[1]) = <<Item(1, 2)>>
  BY FirstSections
<1>2. InFile(main, 1) # {}
  <2>1. <<Item(1, 2)>>[1] \in Range(<<Item(1, 2)>>)
    BY DEF Range
  <2> QED
    BY <1>1, <2>1 DEF InFile
<1>3. InVolumes(main) # {}
  BY <1>1, <1>2 DEF InVolumes
<1>4. clean = FALSE
  BY DEF Init
<1> QED
  BY <1>3, <1>4 DEF SettleInv

LEMMA SettleStep == TypeInv /\ SettleInv /\ [Next]_vars => SettleInv'
<1> SUFFICES ASSUME TypeInv, SettleInv, [Next]_vars PROVE SettleInv'
  OBVIOUS
<1>1. main' = main /\ ~clean' => SettleInv'
  BY DEF SettleInv, InVolumes, InFile, VolumesOf
<1>2. CASE Rotate
  <2>1. /\ main' = main /\ tree' = tree /\ pending' = Writes(tree) /\ Writes(tree) # <<>>
        /\ clean' = (tree[Root].ends /\ ButForLength(tree, main) /\ FixedBytes(tree) <= ROOT_MAX_BYTES /\ Rotatable(tree, main))
    BY <1>2 DEF Rotate
  <2>2. main \in Ledgers /\ tree \in Ledgers /\ InVolumes(main) # {}
    BY DEF TypeInv, SettleInv
  <2>3. ~Dies(tree)
    BY <2>1, WritesForm
  <2>4. ASSUME clean' PROVE \E t \in Ledgers : Ready(t, main) /\ Underway(t, tree, Writes(tree))
    <3>1. tree[Root].ends /\ ButForLength(tree, main) /\ FixedBytes(tree) <= ROOT_MAX_BYTES /\ Rotatable(tree, main)
      BY <2>1, <2>4
    <3>2. Ready(tree, main)
      BY <2>2, <2>3, <3>1 DEF Ready
    <3>3. Underway(tree, tree, Writes(tree))
      BY <2>1, <2>2, <3>1, UnderwayFirst
    <3> QED
      BY <2>2, <3>2, <3>3
  <2> QED
    BY <2>1, <2>2, <2>4 DEF SettleInv
<1>3. CASE Write
  <2>1. /\ main' = main /\ pending # <<>> /\ pending' = Tail(pending) /\ clean' = clean
        /\ tree' = [tree EXCEPT ![Head(pending).at] = Head(pending).file]
    BY <1>3 DEF Write, Idle
  <2>2. tree \in Ledgers /\ pending \in Seq(FilesToWrite) /\ InVolumes(main) # {}
    BY DEF TypeInv, SettleInv
  <2>3. ASSUME clean PROVE \E t \in Ledgers : Ready(t, main) /\ Underway(t, tree', Tail(pending))
    <3>1. PICK t \in Ledgers : Ready(t, main) /\ Underway(t, tree, pending)
      BY <2>3 DEF SettleInv
    <3>2. Underway(t, tree', Tail(pending))
      BY <2>1, <2>2, <3>1, UnderwayNext
    <3> QED
      BY <3>1, <3>2
  <2> QED
    BY <2>1, <2>2, <2>3 DEF SettleInv
<1>4. CASE Crash
  BY <1>1, <1>4 DEF Crash
<1>5. CASE \/ \E l \in {Bullet(2, 1), Bullet(3, 0)} : AddItem(l)
           \/ \E d \in {today - 1, today} : Bump(d)
           \/ Tamper \/ Discard
  BY <1>1, <1>5 DEF AddItem, Bump, Tamper, Discard, Edited
<1>6. CASE Land
  <2>1. main' = tree /\ clean' = FALSE /\ Preserves(tree, main)
    BY <1>6 DEF Land, checkLedger, ButForLength
  <2>2. InVolumes(tree) # {}
    BY <2>1, ReadyHasVolumes DEF SettleInv
  <2> QED
    BY <2>1, <2>2 DEF SettleInv
<1>7. CASE UNCHANGED vars
  BY <1>7 DEF SettleInv, vars
<1> QED
  BY <1>2, <1>3, <1>4, <1>5, <1>6, <1>7 DEF Next

LEMMA SettledIsGood == TypeInv /\ SettleInv => RotationSettles
<1> SUFFICES ASSUME TypeInv, SettleInv, clean, Idle
             PROVE  checkLedger(tree, main, Refs) /\ Written(tree, Writes(tree)) = tree
  BY DEF RotationSettles
<1>1. PICK t \in Ledgers : Ready(t, main) /\ Underway(t, tree, pending)
  BY DEF SettleInv
<1>2. pending = <<>> /\ tree \in Ledgers
  BY DEF Idle, TypeInv
<1>3. Rotated(t) \in Ledgers
  BY <1>1, RotatedFiles DEF Ready
<1>4. tree = Rotated(t)
  BY <1>1, <1>2, <1>3, UnderwayLast
<1>5. checkLedger(Rotated(t), main, Refs) /\ Written(Rotated(t), Writes(Rotated(t))) = Rotated(t)
  BY <1>1, RotatedLetIn, RotatedAgain
<1> QED
  BY <1>4, <1>5

(* A rotation that ends makes of a tree that is only too long one that      *)
(* check 8d lets in, and another run finds nothing to change: the sections  *)
(* fall as they did over the root and its volumes, what moved was on main,  *)
(* the index is as long as before, and every file is written as it is read. *)
THEOREM RotationsSettle == Spec => []RotationSettles
<1> QED
  BY TypeInit, TypeStep, SettleInit, SettleStep, SettledIsGood, PTL DEF Spec
=============================================================================
