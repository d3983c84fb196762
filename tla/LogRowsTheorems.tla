-------------------------- MODULE LogRowsTheorems --------------------------
(* Facts about the rows of an append-only log that every module that keeps *)
(* one uses: how many rows a gap-free log has, which number comes next,    *)
(* and that a set of positions has a last one.                             *)
EXTENDS LogRows, FiniteSetTheorems, TLAPS

(* A table whose rows are numbered by naturals. *)
IsLog(log) == IsFiniteSet(log) /\ \A x \in log : x.seq \in Nat

(* The numbers of a review with unique, gap-free rows are exactly the ones *)
(* below events.length.                                                    *)
LEMMA SeqsAreBelowCount ==
  ASSUME NEW log, IsLog(log), UniqueRows(log), NoGaps(log), NEW r
  PROVE  /\ EventCount(log, r) \in Nat
         /\ \A m \in Nat : (\E y \in RowsOf(log, r) : y.seq = m) <=> m < EventCount(log, r)
<1> DEFINE S == RowsOf(log, r)
           T == {x.seq : x \in S}
           f == [x \in S |-> x.seq]
           k == Cardinality(S)
<1>1. IsFiniteSet(S) /\ k \in Nat
  BY FS_Subset, FS_CardinalityType DEF IsLog, RowsOf
<1>2. f \in Bijection(S, T)
  <2>1. f \in [S -> T]
    OBVIOUS
  <2>2. \A x, y \in S : f[x] = f[y] => x = y
    BY DEF RowsOf, UniqueRows
  <2>3. \A t \in T : \E x \in S : f[x] = t
    OBVIOUS
  <2> QED
    BY <2>1, <2>2, <2>3 DEF Bijection, Injection, Surjection, IsInjective
<1>3. IsFiniteSet(T) /\ Cardinality(T) = k
  BY <1>1, <1>2, FS_Bijection DEF ExistsBijection
<1>4. T \subseteq Nat
  BY DEF IsLog, RowsOf
<1>5. \A m \in T : 0 .. m \subseteq T
  BY DEF NoGaps, RowsOf
<1>6. ASSUME NEW m \in T PROVE m < k
  <2>1. m \in Nat /\ 0 .. m \in SUBSET T
    BY <1>4, <1>5
  <2>2. Cardinality(0 .. m) <= Cardinality(T)
    BY <2>1, <1>3, FS_Subset
  <2>3. Cardinality(0 .. m) = m + 1
    BY <2>1, FS_Interval
  <2> QED
    BY <2>1, <2>2, <2>3, <1>1, <1>3
<1>7. T = 0 .. k - 1
  <2> HIDE DEF T, k
  <2>1. T \in SUBSET (0 .. k - 1)
    <3>1. ASSUME NEW m \in T PROVE m \in 0 .. k - 1
      BY <1>1, <1>4, <1>6
    <3> QED
      BY <3>1
  <2>2. IsFiniteSet(0 .. k - 1) /\ Cardinality(0 .. k - 1) = k
    BY <1>1, FS_Interval
  <2> QED
    BY <2>1, <2>2, <1>3, FS_Subset
<1>8. \A m \in Nat : m \in T <=> m < k
  BY <1>1, <1>7
<1> QED
  BY <1>1, <1>8 DEF EventCount

(* Both ways in which callers derive the next number agree. *)
LEMMA NextIsCount ==
  ASSUME NEW log, IsLog(log), UniqueRows(log), NoGaps(log), NEW r
  PROVE  NextSequenceNumber(log, r) = EventCount(log, r)
<1> DEFINE S == RowsOf(log, r)
           k == EventCount(log, r)
           C == {0} \cup {x.seq + 1 : x \in S}
<1>1. k \in Nat /\ \A m \in Nat : (\E y \in S : y.seq = m) <=> m < k
  BY SeqsAreBelowCount
<1>2. \A x \in S : x.seq \in Nat /\ x.seq < k
  BY <1>1 DEF IsLog, RowsOf
<1>3. k \in C
  <2>1. CASE k = 0
    BY <2>1
  <2>2. CASE k # 0
    <3>1. PICK y \in S : y.seq = k - 1
      BY <1>1, <2>2
    <3> QED
      BY <3>1, <1>1
  <2> QED
    BY <2>1, <2>2
<1>4. ASSUME NEW n \in C, \A x \in S : x.seq < n PROVE n = k
  <2>1. CASE n = 0
    <3>1. S = {}
      BY <1>2, <1>4, <2>1
    <3> QED
      BY <1>1, <2>1, <3>1
  <2>2. CASE n # 0
    <3>1. PICK x \in S : n = x.seq + 1
      BY <2>2
    <3>2. x.seq \in Nat /\ n <= k
      BY <3>1, <1>1, <1>2
    <3>3. ASSUME n < k PROVE FALSE
      BY <3>1, <3>2, <3>3, <1>1, <1>2, <1>4
    <3> QED
      BY <3>1, <3>2, <3>3, <1>1
  <2> QED
    BY <2>1, <2>2
<1> QED
  BY <1>2, <1>3, <1>4 DEF NextSequenceNumber

(* In a gap-free log each number below events.length has its row, one row. *)
LEMMA RowAtIsRow ==
  ASSUME NEW log, IsLog(log), UniqueRows(log), NoGaps(log), NEW r,
         NEW n \in Nat, n < EventCount(log, r)
  PROVE  /\ RowAt(log, r, n) \in RowsOf(log, r)
         /\ RowAt(log, r, n).seq = n
         /\ \A y \in RowsOf(log, r) : y.seq = n => y = RowAt(log, r, n)
<1>1. \E y \in RowsOf(log, r) : y.seq = n
  BY SeqsAreBelowCount
<1>2. RowAt(log, r, n) \in RowsOf(log, r) /\ RowAt(log, r, n).seq = n
  BY <1>1 DEF RowAt
<1> QED
  BY <1>2 DEF UniqueRows, RowsOf

(* Adding the next row appends one event to a review, and touches nothing  *)
(* that was there.                                                         *)
LEMMA AddNextRow ==
  ASSUME NEW log, IsLog(log), UniqueRows(log), NoGaps(log), NEW e,
         e.seq = EventCount(log, e.review), InsertAllowed(log, e),
         NEW new, new = log \cup {e}, IsLog(new), UniqueRows(new), NoGaps(new)
  PROVE  /\ EventCount(new, e.review) = EventCount(log, e.review) + 1
         /\ RowAt(new, e.review, e.seq) = e
         /\ \A r : r # e.review => RowsOf(new, r) = RowsOf(log, r)
         /\ \A n \in Nat : n < EventCount(log, e.review) =>
               RowAt(new, e.review, n) = RowAt(log, e.review, n)
<1> DEFINE r == e.review
<1>1. EventCount(log, r) \in Nat
  BY SeqsAreBelowCount
<1>2. RowsOf(new, r) = RowsOf(log, r) \cup {e}
  BY DEF RowsOf
<1>3. e \notin RowsOf(log, r)
  BY DEF InsertAllowed
<1>4. EventCount(new, r) = EventCount(log, r) + 1
  <2>1. IsFiniteSet(RowsOf(log, r))
    BY FS_Subset DEF IsLog, RowsOf
  <2> QED
    BY <2>1, <1>2, <1>3, FS_AddElement DEF EventCount
<1>5. \A q : q # r => RowsOf(new, q) = RowsOf(log, q)
  BY DEF RowsOf
<1>6. RowAt(new, r, e.seq) = e
  <2>1. e.seq \in Nat /\ e.seq < EventCount(new, r) /\ e \in RowsOf(new, r)
    BY <1>1, <1>2, <1>4
  <2> QED
    BY <2>1, RowAtIsRow
<1>7. ASSUME NEW n \in Nat, n < EventCount(log, r)
      PROVE  RowAt(new, r, n) = RowAt(log, r, n)
  <2>1. RowAt(log, r, n) \in RowsOf(new, r) /\ RowAt(log, r, n).seq = n
    BY <1>2, <1>7, RowAtIsRow
  <2>2. n < EventCount(new, r)
    BY <1>1, <1>4, <1>7
  <2> QED
    BY <2>1, <2>2, RowAtIsRow
<1> QED
  BY <1>4, <1>5, <1>6, <1>7
-----------------------------------------------------------------------------
(* A nonempty set of naturals has a least element. *)
LEMMA LeastExists ==
  ASSUME NEW D \in SUBSET Nat, D # {}
  PROVE  \E d \in D : \A y \in D : d <= y
<1> DEFINE R == OpToRel(<, Nat)
<1>1. IsWellFoundedOn(R, Nat)
  BY NatLessThanWellFounded
<1>2. \A x, y \in Nat : x < y => <<x, y>> \in R
  BY DEF OpToRel
<1> HIDE DEF R
<1>3. PICK d \in D : \A y \in D : ~(<<y, d>> \in R)
  BY <1>1, WFMin
<1>4. \A y \in D : y \in Nat /\ d \in Nat /\ ~(y < d)
  BY <1>2, <1>3
<1>5. \A y \in D : d <= y
  BY <1>4
<1> QED
  BY <1>5

(* A nonempty set of positions has a last one. *)
LEMMA LastExists ==
  ASSUME NEW n \in Nat, NEW T \in SUBSET (1 .. n), T # {}
  PROVE  \E m \in T : \A k \in T : k <= m
<1> DEFINE D == {n - k : k \in T}
<1>1. \A k \in T : n - k \in D /\ n - k \in Nat
  OBVIOUS
<1>2. D \in SUBSET Nat /\ D # {}
  BY <1>1
<1>3. PICK d \in D : \A y \in D : d <= y
  <2> HIDE DEF D
  <2> QED
    BY <1>2, LeastExists
<1>4. PICK m \in T : d = n - m
  OBVIOUS
<1>5. ASSUME NEW k \in T PROVE k <= m
  <2>1. d <= n - k
    BY <1>1, <1>3
  <2> QED
    BY <2>1, <1>4
<1> QED
  BY <1>5
=============================================================================
