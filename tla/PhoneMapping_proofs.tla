------------------------ MODULE PhoneMapping_proofs ------------------------
(***************************************************************************)
(* Proofs about PhoneMapping, for files, batches and row limits of any     *)
(* size.  What a cursor hands out is a segment of one walk over all rows;  *)
(* build() makes the walk, the index finds both ends of the segment, and   *)
(* the batches divide it.                                                  *)
(***************************************************************************)
EXTENDS PhoneMapping, FiniteSetsExt, WellFoundedInduction, FiniteSetTheorems, TLAPS

-----------------------------------------------------------------------------
(* Least elements of sets of naturals.                                     *)

\* A set of naturals that is not empty has a least element, and Min is it.
LEMMA MinIsLeast ==
  ASSUME NEW S \in SUBSET Nat, S # {}
  PROVE  Min(S) \in S /\ \A y \in S : Min(S) <= y
<1>1. PICK x \in S : \A y \in S : ~(<<y, x>> \in OpToRel(<, Nat))
  BY NatLessThanWellFounded, WFMin, Zenon
<1>2. \A y \in S : ~(y < x)
  BY <1>1, x \in Nat DEF OpToRel
<1>3. \A y \in S : x <= y
  BY <1>2, x \in Nat
<1>. QED
  BY <1>3 DEF Min

-----------------------------------------------------------------------------
(* Rows.                                                                   *)

\* Rows by their 0-based number, as a walk meets them: the routing number, what
\* the caller reads, and which of two rows comes first.
Route(i) == dict[pnColumn[i + 1].phone]
RowAt(i) == <<pnColumn[i + 1].phone, Route(i)>>
Precedes(kind, i, j) ==
  IF kind = "range" /\ Route(i) # Route(j) THEN Route(i) < Route(j) ELSE i < j

\* The row is one the query asks for.
Asked(i) == query.kind = "range" => Route(i) >= query.from /\ Route(i) < query.to

-----------------------------------------------------------------------------
(* The inductive invariant.                                                *)

Entry == [phone : Nat, next : Nat]

TypeOK ==
  /\ phase \in {"reading", "failed", "serving"}
  /\ pnColumn \in Seq(Entry) /\ rnIndex \in Seq(Entry)
  /\ query \in {NoQuery, AllRows} \cup {RangeQuery(f, t) : f \in Bounds, t \in Bounds}
  /\ out \in Seq(Nat \X Nat)

\* The dictionary and the phone column list the same rows, each once.
Columns ==
  /\ N <= MAXROWS
  /\ \A i, j \in 1..N : pnColumn[i].phone = pnColumn[j].phone => i = j
  /\ DOMAIN dict = {pnColumn[i].phone : i \in 1..N}
  /\ \A i \in 1..N : dict[pnColumn[i].phone] \in Routes

\* While rows are read the second column has their routing numbers, nothing is
\* threaded and nobody has a cursor.
Unbuilt ==
  /\ phase = "reading" =>
       /\ Len(rnIndex) = N
       /\ \A i \in 1..N : rnIndex[i].phone = Route(i - 1) /\ pnColumn[i].next = MAXROWS
  /\ phase # "serving" => query = NoQuery
  /\ query = NoQuery => cursor = Closed /\ out = <<>>

\* next leads through all rows, routing number by routing number and in file
\* order within one.
Thread(ord) ==
  /\ \A k, l \in 1..N : k < l => Precedes("range", ord[k], ord[l])
  /\ \A i \in 0..N-1 : \E k \in 1..N : ord[k] = i
  /\ \A k \in 1..N : pnColumn[ord[k] + 1].next = IF k < N THEN ord[k + 1] ELSE MAXROWS

\* The index holds the place where each routing number begins on the thread.
Index(ord, head) ==
  /\ \A m \in 1..Len(rnIndex) :
       /\ rnIndex[m].phone = Route(ord[head[m]]) /\ rnIndex[m].next = ord[head[m]]
       /\ \A k \in 1..head[m] - 1 : Route(ord[k]) < Route(ord[head[m]])
  /\ \A k \in 1..N : \E m \in 1..Len(rnIndex) : Route(ord[head[m]]) = Route(ord[k])
  /\ \A m, n \in 1..Len(rnIndex) : m < n => head[m] < head[n]

Threaded ==
  phase = "serving" =>
    \E ord \in [1..N -> 0..N-1], head \in [1..Len(rnIndex) -> 1..N] :
      Thread(ord) /\ Index(ord, head)

\* w lists all rows in the order a cursor of this kind meets them, and then its
\* end mark.
Walk(kind, w) ==
  /\ \A k \in 1..N : w[k] \in 0..N-1 /\ Follow(kind, w[k]) = w[k + 1]
  /\ w[N + 1] >= N
  /\ \A k, l \in 1..N : k < l => Precedes(kind, w[k], w[l])
  /\ \A i \in 0..N-1 : \E k \in 1..N : w[k] = i

\* The rows asked for are those from b up to e on the walk.
Segment(w, b, e) == \A k \in 1..N : (b <= k /\ k < e) <=> Asked(w[k])

\* The caller has read those from b up to c.
Read(w, b, c) == Len(out) = c - b /\ \A i \in 1..c - b : out[i] = RowAt(w[b + i - 1])

\* A batch of the given size from a on, read up to pos.
Load(kind, w, a, e, size, pos) ==
  [kind |-> kind, it |-> w[a + size], end |-> w[e],
   pn |-> [n \in 1..size |-> pnColumn[w[a + n - 1] + 1].phone],
   rn |-> [n \in 1..size |-> Route(w[a + n - 1])], pos |-> pos]

\* The cursor is at c, in a batch that holds it.
Holds(w, c, e) ==
  \E a \in 1..c, size \in 1..Batch :
    /\ c < a + size /\ a + size <= e
    /\ cursor = Load(query.kind, w, a, e, size, c - a)

Progress ==
  query # NoQuery =>
    \E w \in [1..N+1 -> 0..MAXROWS], b \in 1..N+1 : \E e \in b..N+1 : \E c \in b..e :
      /\ Walk(query.kind, w) /\ Segment(w, b, e) /\ Read(w, b, c)
      /\ IF cursor = Closed THEN c = e ELSE Holds(w, c, e)

IInv == TypeOK /\ Columns /\ Unbuilt /\ Threaded /\ Progress

-----------------------------------------------------------------------------
(* Sorting: a chain of neighbours is an ordering of all rows.              *)

\* The order of build()'s comparison, for routing numbers rt.
Ascends(rt, i, j) == rt[i] < rt[j] \/ (rt[i] = rt[j] /\ i < j)

\* The order is transitive.
LEMMA AscendsFurther ==
  ASSUME NEW n \in Nat, NEW rt \in [0..n-1 -> Nat],
         NEW i \in 0..n-1, NEW j \in 0..n-1, NEW k \in 0..n-1,
         Ascends(rt, i, j), Ascends(rt, j, k)
  PROVE  Ascends(rt, i, k)
BY rt[i] \in Nat, rt[j] \in Nat, rt[k] \in Nat DEF Ascends

\* What is in order from each place to the next is in order from any place to any
\* later one.
LEMMA SortedIncreases ==
  ASSUME NEW n \in Nat, NEW rt \in [0..n-1 -> Nat], NEW ord \in [1..n -> 0..n-1],
         \A k \in 1..n-1 : Ascends(rt, ord[k], ord[k + 1]),
         NEW k \in 1..n
  PROVE  \A l \in 1..n : k < l => Ascends(rt, ord[k], ord[l])
<1>. DEFINE Bad == {l \in 1..n : k < l /\ ~Ascends(rt, ord[k], ord[l])}
<1>. SUFFICES ASSUME Bad # {} PROVE FALSE
  OBVIOUS
<1>1. PICK l \in Bad : \A j \in Bad : l <= j
  <2>1. Bad \in SUBSET Nat
    OBVIOUS
  <2>. QED
    BY <2>1, MinIsLeast
<1>2. /\ l \in 1..n /\ k < l /\ ~Ascends(rt, ord[k], ord[l])
      /\ l - 1 \in 1..n-1 /\ l - 1 + 1 = l /\ ord[k] \in 0..n-1
      /\ ord[l] \in 0..n-1 /\ ord[l - 1] \in 0..n-1
  OBVIOUS
<1>3. Ascends(rt, ord[l - 1], ord[l])
  BY <1>2
<1>4. l - 1 # k
  BY <1>2, <1>3
<1>5. k < l - 1 /\ l - 1 \notin Bad
  BY <1>1, <1>2, <1>4
<1>6. Ascends(rt, ord[k], ord[l - 1])
  BY <1>2, <1>5
<1>. QED
  BY <1>2, <1>3, <1>6, AscendsFurther

\* No row is left out: n places in order hold n different rows.
LEMMA SortedCovers ==
  ASSUME NEW n \in Nat, NEW rt \in [0..n-1 -> Nat], NEW ord \in [1..n -> 0..n-1],
         \A k \in 1..n-1 : Ascends(rt, ord[k], ord[k + 1]),
         NEW i \in 0..n-1
  PROVE  \E k \in 1..n : ord[k] = i
<1>. SUFFICES ASSUME \A k \in 1..n : ord[k] # i PROVE FALSE
  OBVIOUS
<1>. DEFINE T == (0..n-1) \ {i}
<1>1. IsFiniteSet(1..n) /\ Cardinality(1..n) = n
  BY FS_Interval
<1>2. IsFiniteSet(0..n-1) /\ Cardinality(0..n-1) = n
  BY FS_Interval
<1>3. IsFiniteSet(T) /\ Cardinality(T) = n - 1
  BY <1>2, FS_RemoveElement
<1>4. ord \in [1..n -> T]
  OBVIOUS
<1>5. PICK x \in 1..n, y \in 1..n : x # y /\ ord[x] = ord[y]
  <2>. HIDE DEF T
  <2>1. Cardinality(T) < Cardinality(1..n)
    BY <1>1, <1>3
  <2>. QED
    BY <1>1, <1>3, <1>4, <2>1, FS_PigeonHole
<1>6. \A k \in 1..n : \A l \in 1..n : k < l => Ascends(rt, ord[k], ord[l])
  BY SortedIncreases
<1>7. Ascends(rt, ord[x], ord[y]) \/ Ascends(rt, ord[y], ord[x])
  BY <1>5, <1>6
<1>. QED
  BY <1>5, <1>7 DEF Ascends

-----------------------------------------------------------------------------
(* Ranks: choosing the element of rank m lists a set in ascending order.   *)

\* The elements of S up to k.
UpTo(S, k) == {j \in S : j <= k}

\* Going up, the number of elements passed grows by one at each element and stays
\* the same elsewhere.
LEMMA UpToGrows ==
  ASSUME NEW n \in Nat, NEW S \in SUBSET (1..n), NEW k \in Nat, NEW l \in Nat, k < l
  PROVE  /\ Cardinality(UpTo(S, k)) \in Nat /\ Cardinality(UpTo(S, l)) \in Nat
         /\ Cardinality(UpTo(S, k)) <= Cardinality(UpTo(S, l))
         /\ l \in S => Cardinality(UpTo(S, k)) < Cardinality(UpTo(S, l))
         /\ l = k + 1 /\ l \notin S => UpTo(S, l) = UpTo(S, k)
         /\ l = k + 1 /\ l \in S => Cardinality(UpTo(S, l)) = Cardinality(UpTo(S, k)) + 1
<1>0. \A s \in S : s \in Nat
  OBVIOUS
<1>1. IsFiniteSet(S)
  <2>1. IsFiniteSet(1..n)
    BY FS_Interval
  <2>. QED
    BY <2>1, FS_Subset, Zenon
<1>2. UpTo(S, l) \in SUBSET S /\ UpTo(S, k) \in SUBSET UpTo(S, l)
  <2>1. \A j \in S : j <= k => j <= l
    BY <1>0
  <2>. QED
    BY <2>1, Zenon DEF UpTo
<1>3. IsFiniteSet(UpTo(S, l)) /\ IsFiniteSet(UpTo(S, k))
  BY <1>1, <1>2, FS_Subset
<1>4. Cardinality(UpTo(S, k)) \in Nat /\ Cardinality(UpTo(S, l)) \in Nat
  BY <1>3, FS_CardinalityType
<1>5. /\ Cardinality(UpTo(S, k)) <= Cardinality(UpTo(S, l))
      /\ Cardinality(UpTo(S, l)) = Cardinality(UpTo(S, k)) => UpTo(S, l) = UpTo(S, k)
  BY <1>2, <1>3, FS_Subset
<1>6. l \in S => UpTo(S, l) # UpTo(S, k)
  BY DEF UpTo
<1>7. l = k + 1 /\ l \notin S => UpTo(S, l) = UpTo(S, k)
  <2>1. \A j \in S : l = k + 1 /\ l \notin S => (j <= l <=> j <= k)
    BY <1>0
  <2>. QED
    BY <2>1, Zenon DEF UpTo
<1>8. l = k + 1 /\ l \in S => UpTo(S, l) = UpTo(S, k) \cup {l} /\ l \notin UpTo(S, k)
  <2>1. \A j \in S : l = k + 1 => (j <= l <=> j <= k \/ j = l)
    BY <1>0
  <2>2. ~(l <= k)
    OBVIOUS
  <2>. QED
    BY <2>1, <2>2, Zenon DEF UpTo
<1>9. l = k + 1 /\ l \in S => Cardinality(UpTo(S, l)) = Cardinality(UpTo(S, k)) + 1
  BY <1>3, <1>8, FS_AddElement
<1>. QED
  BY <1>4, <1>5, <1>6, <1>7, <1>9

\* The element of rank m of S.
Ranked(S, m) == CHOOSE k \in S : Cardinality(UpTo(S, k)) = m

\* There is an element of every rank.
LEMMA RankedIsElement ==
  ASSUME NEW n \in Nat, NEW S \in SUBSET (1..n), NEW m \in 1..Cardinality(S)
  PROVE  Ranked(S, m) \in S /\ Cardinality(UpTo(S, Ranked(S, m))) = m
<1>. DEFINE Far == {k \in 0..n : Cardinality(UpTo(S, k)) >= m}
<1>0. \A s \in S : s \in Nat /\ s <= n /\ s > 0
  OBVIOUS
<1>1. UpTo(S, n) = S /\ UpTo(S, 0) = {}
  <2>1. \A s \in S : s <= n /\ ~(s <= 0)
    BY <1>0
  <2>. QED
    BY <2>1, Zenon DEF UpTo
<1>2. n \in Far
  BY <1>1
<1>3. PICK k \in Far : \A j \in Far : k <= j
  <2>1. Far \in SUBSET Nat
    OBVIOUS
  <2>. QED
    BY <1>2, <2>1, MinIsLeast
<1>4. k # 0
  BY <1>1, <1>3, FS_EmptySet
<1>5. k - 1 \in Nat /\ k \in Nat /\ k - 1 < k /\ k = (k - 1) + 1 /\ k - 1 \in 0..n /\ k - 1 \notin Far
  BY <1>3, <1>4
<1>6. Cardinality(UpTo(S, k)) >= m /\ ~(Cardinality(UpTo(S, k - 1)) >= m)
  BY <1>3, <1>5
<1>. HIDE DEF Far
<1>7. /\ Cardinality(UpTo(S, k - 1)) \in Nat /\ Cardinality(UpTo(S, k)) \in Nat
      /\ k \notin S => UpTo(S, k) = UpTo(S, k - 1)
      /\ k \in S => Cardinality(UpTo(S, k)) = Cardinality(UpTo(S, k - 1)) + 1
  BY <1>5, UpToGrows, Zenon
<1>8. k \in S /\ Cardinality(UpTo(S, k)) = m
  BY <1>6, <1>7
<1>. QED
  BY <1>8, Zenon DEF Ranked

\* Ranks ascend with the elements, and every element has one.
LEMMA RankedListsAll ==
  ASSUME NEW n \in Nat, NEW S \in SUBSET (1..n)
  PROVE  /\ Cardinality(S) \in Nat
         /\ \A m, l \in 1..Cardinality(S) : m < l => Ranked(S, m) < Ranked(S, l)
         /\ \A k \in S : \E m \in 1..Cardinality(S) : Ranked(S, m) = k
<1>0. \A s \in S : s \in Nat
  OBVIOUS
<1>1. IsFiniteSet(S) /\ Cardinality(S) \in Nat
  <2>1. IsFiniteSet(1..n)
    BY FS_Interval
  <2>2. IsFiniteSet(S)
    BY <2>1, FS_Subset, Zenon
  <2>. QED
    BY <2>2, FS_CardinalityType, Zenon
<1>2. ASSUME NEW m \in 1..Cardinality(S), NEW l \in 1..Cardinality(S), m < l
      PROVE  Ranked(S, m) < Ranked(S, l)
  <2>1. /\ Ranked(S, m) \in Nat /\ Cardinality(UpTo(S, Ranked(S, m))) = m
        /\ Ranked(S, l) \in Nat /\ Cardinality(UpTo(S, Ranked(S, l))) = l
    BY <1>0, RankedIsElement, Zenon
  <2>2. Ranked(S, l) < Ranked(S, m) =>
          Cardinality(UpTo(S, Ranked(S, l))) <= Cardinality(UpTo(S, Ranked(S, m)))
    BY <2>1, UpToGrows, Zenon
  <2>. QED
    BY <1>2, <2>1, <2>2
<1>3. ASSUME NEW k \in S
      PROVE  \E m \in 1..Cardinality(S) : Ranked(S, m) = k
  <2>. DEFINE m == Cardinality(UpTo(S, k))
  <2>1. UpTo(S, k) \in SUBSET S /\ k \in UpTo(S, k) /\ k \in Nat
    BY DEF UpTo
  <2>2. IsFiniteSet(UpTo(S, k)) /\ m \in Nat /\ m <= Cardinality(S) /\ m # 0
    BY <1>1, <2>1, FS_Subset, FS_CardinalityType, FS_EmptySet
  <2>3. m \in 1..Cardinality(S)
    BY <1>1, <2>2
  <2>4. Ranked(S, m) \in S /\ Cardinality(UpTo(S, Ranked(S, m))) = m
    BY <2>3, RankedIsElement
  <2>5. Ranked(S, m) \in Nat
    BY <1>0, <2>4, Zenon
  <2>6. ~(Ranked(S, m) < k) /\ ~(k < Ranked(S, m))
    BY <2>1, <2>4, <2>5, UpToGrows
  <2>. QED
    BY <2>1, <2>3, <2>5, <2>6
<1>. QED
  BY <1>1, <1>2, <1>3

-----------------------------------------------------------------------------
(* Reading along a walk.                                                   *)

\* A walk meets no row twice, and its end mark is no row.
LEMMA WalkIsInjective ==
  ASSUME TypeOK, NEW kind, NEW w \in [1..N+1 -> 0..MAXROWS], Walk(kind, w)
  PROVE  \A k, l \in 1..N+1 : w[k] = w[l] => k = l
<1>1. N \in Nat
  BY DEF TypeOK, N
<1>2. ASSUME NEW k \in 1..N+1, NEW l \in 1..N+1, k < l PROVE w[k] # w[l]
  <2>1. k \in 1..N
    BY <1>1, <1>2
  <2>2. w[k] \in 0..N-1 /\ w[k] \in Nat /\ w[l] \in Int
    BY <1>1, <2>1, ConstantsAssumption DEF Walk
  <2>3. CASE l = N + 1
    <3>1. w[N + 1] >= N
      BY DEF Walk
    <3>. QED
      BY <1>1, <2>2, <2>3, <3>1
  <2>4. CASE l # N + 1
    <3>1. l \in 1..N
      BY <1>1, <2>4
    <3>2. Precedes(kind, w[k], w[l])
      BY <1>2, <2>1, <3>1 DEF Walk
    <3>3. ASSUME w[k] = w[l] PROVE FALSE
      <4>1. Precedes(kind, w[k], w[k])
        BY <3>2, <3>3
      <4>2. w[k] < w[k]
        BY <4>1, Zenon DEF Precedes
      <4>. QED
        BY <2>2, <4>2
    <3>. QED
      BY <3>3
  <2>. QED
    BY <2>3, <2>4
<1>. QED
  BY <1>1, <1>2

\* The place k, or the end e if that comes first.
Capped(k, e) == IF k <= e THEN k ELSE e

\* refill() goes along the walk and stays where it meets the end.
LEMMA PathFollowsWalk ==
  ASSUME TypeOK, NEW kind, NEW w \in [1..N+1 -> 0..MAXROWS], Walk(kind, w),
         NEW a \in 1..N+1, NEW e \in a..N+1, NEW n \in 0..Batch
  PROVE  Path(kind, w[a], w[e])[n] = w[Capped(a + n, e)]
<1>. DEFINE At(i) == w[Capped(a + i, e)]
            Step(f) == [i \in 0..Batch |-> IF i = 0 THEN w[a]
                          ELSE IF f[i - 1] = w[e] THEN w[e]
                          ELSE Follow(kind, f[i - 1])]
            path == Path(kind, w[a], w[e])
            walk == [i \in 0..Batch |-> At(i)]
<1>1. N \in Nat /\ Batch \in Nat \ {0}
  BY ConstantsAssumption DEF TypeOK, N
<1>2. ASSUME NEW i \in 0..Batch, i # 0
      PROVE  At(i) = IF At(i - 1) = w[e] THEN w[e] ELSE Follow(kind, At(i - 1))
  <2>1. CASE a + i <= e
    <3>1. a + (i - 1) \in 1..N /\ a + (i - 1) # e /\ a + (i - 1) <= e /\ a + (i - 1) + 1 = a + i
          /\ e \in 1..N+1 /\ a + (i - 1) \in 1..N+1
      BY <1>1, <1>2, <2>1
    <3>2. At(i - 1) = w[a + (i - 1)] /\ At(i) = w[a + i]
      BY <2>1, <3>1 DEF Capped
    <3>3. w[a + (i - 1)] # w[e]
      BY <3>1, WalkIsInjective
    <3>4. Follow(kind, w[a + (i - 1)]) = w[a + i]
      BY <3>1 DEF Walk
    <3>. QED
      BY <3>2, <3>3, <3>4
  <2>2. CASE ~(a + i <= e)
    <3>1. At(i - 1) = w[e]
      BY <1>1, <1>2, <2>2 DEF Capped
    <3>. QED
      BY <2>2, <3>1 DEF Capped
  <2>. QED
    BY <2>1, <2>2
<1>3. At(0) = w[a]
  BY <1>1 DEF Capped
<1>4. walk = Step(walk)
  <2>1. \A i \in 0..Batch : i # 0 => i - 1 \in 0..Batch
    BY <1>1
  <2>. HIDE DEF At
  <2>. QED
    BY <1>2, <1>3, <2>1
<1>. HIDE DEF At
<1>5. path = Step(path)
  BY <1>4, Zenon DEF Path
<1>. HIDE DEF path, walk
<1>. DEFINE Bad == {i \in 0..Batch : path[i] # At(i)}
<1>. SUFFICES ASSUME Bad # {} PROVE FALSE
  BY DEF At, path
<1>6. PICK i \in Bad : \A j \in Bad : i <= j
  <2>1. Bad \in SUBSET Nat
    BY <1>1
  <2>. QED
    BY <2>1, MinIsLeast
<1>7. i # 0
  BY <1>3, <1>5, <1>6
<1>8. i - 1 \in 0..Batch /\ i - 1 \notin Bad
  BY <1>1, <1>6, <1>7
<1>9. path[i - 1] = At(i - 1)
  BY <1>8
<1>10. path[i] = IF path[i - 1] = w[e] THEN w[e] ELSE Follow(kind, path[i - 1])
  BY <1>5, <1>7
<1>. QED
  BY <1>2, <1>7, <1>9, <1>10

\* A batch is the next part of the walk, and is empty only at the end.
LEMMA PrefetchLoads ==
  ASSUME TypeOK, Columns, NEW kind, NEW w \in [1..N+1 -> 0..MAXROWS], Walk(kind, w),
         NEW a \in 1..N+1, NEW e \in a..N+1
  PROVE  \E size \in 0..Batch :
           /\ a + size <= e /\ (a < e => size > 0)
           /\ Prefetch(kind, w[a], w[e]) = Load(kind, w, a, e, size, 0)
<1>. DEFINE size == IF e - a < Batch THEN e - a ELSE Batch
            path == Path(kind, w[a], w[e])
            more == {n \in 0..Batch - 1 : path[n] # w[e]}
<1>1. N \in Nat /\ Batch \in Nat \ {0} /\ a \in Nat /\ e \in Nat
  BY ConstantsAssumption DEF TypeOK, N
<1>2. size \in 0..Batch /\ a + size <= e /\ (a < e => size > 0)
  BY <1>1
<1>3. \A n \in 0..Batch : path[n] = w[Capped(a + n, e)]
  BY PathFollowsWalk, ZenonT(60)
<1>. HIDE DEF path
<1>4. more = 0..size - 1
  <2>1. ASSUME NEW n \in 0..Batch - 1 PROVE path[n] # w[e] <=> n \in 0..size - 1
    <3>1. n \in 0..Batch
      BY <1>1
    <3>2. CASE a + n < e
      <4>1. path[n] = w[a + n] /\ a + n \in 1..N+1 /\ e \in 1..N+1 /\ a + n # e
        BY <1>1, <1>3, <3>1, <3>2 DEF Capped
      <4>2. path[n] # w[e]
        BY <4>1, WalkIsInjective
      <4>. QED
        BY <1>1, <3>1, <3>2, <4>2
    <3>3. CASE ~(a + n < e)
      <4>1. path[n] = w[e]
        BY <1>1, <1>3, <3>1, <3>3 DEF Capped
      <4>. QED
        BY <1>1, <3>1, <3>3, <4>1
    <3>. QED
      BY <3>2, <3>3
  <2>2. 0..size - 1 \subseteq 0..Batch - 1
    BY <1>1
  <2>. QED
    BY <2>1, <2>2
<1>5. Cardinality(more) = size
  <2>1. 0 \in Int /\ size - 1 \in Int
    BY <1>1
  <2>2. Cardinality(0..size - 1) = IF 0 > size - 1 THEN 0 ELSE (size - 1) - 0 + 1
    BY <2>1, FS_Interval
  <2>3. size \in Nat
    BY <1>1
  <2>. HIDE DEF size, more
  <2>4. Cardinality(0..size - 1) = size
    BY ONLY <2>2, <2>3
  <2>. QED
    BY <1>4, <2>4
<1>6. path[size] = w[a + size]
  BY <1>2, <1>3 DEF Capped
<1>7. ASSUME NEW n \in 1..size
      PROVE  /\ path[n - 1] = w[a + n - 1]
             /\ pnColumn[w[a + n - 1] + 1].phone \in DOMAIN dict
  <2>1. n - 1 \in 0..Batch /\ a + (n - 1) <= e /\ a + (n - 1) = a + n - 1 /\ a + n - 1 \in 1..N
    BY <1>1, <1>2
  <2>2. path[n - 1] = w[a + n - 1]
    BY <1>3, <2>1 DEF Capped
  <2>3. w[a + n - 1] + 1 \in 1..N
    <3>1. w[a + n - 1] \in 0..N-1
      BY <2>1, Zenon DEF Walk
    <3>. QED
      BY <1>1, <3>1
  <2>. QED
    BY <2>2, <2>3 DEF Columns
<1>. HIDE DEF size
<1>. DEFINE rows == [n \in 1..size |-> pnColumn[w[a + n - 1] + 1].phone]
<1>8. Visits(kind, w[a], w[e]) = [it |-> w[a + size], rows |-> rows]
  <2>1. Visits(kind, w[a], w[e]) =
          [it |-> path[size], rows |-> [n \in 1..size |-> pnColumn[path[n - 1] + 1].phone]]
    BY <1>5, Zenon DEF Visits, path
  <2>2. [n \in 1..size |-> pnColumn[path[n - 1] + 1].phone] = rows
    BY <1>7
  <2>. QED
    BY <1>6, <2>1, <2>2
<1>9. getRNs(rows) = [n \in 1..size |-> Route(w[a + n - 1])]
  BY <1>7 DEF getRNs, getRN, Route
<1>10. Prefetch(kind, w[a], w[e]) = Load(kind, w, a, e, size, 0)
  <2>. HIDE DEF rows
  <2>1. Prefetch(kind, w[a], w[e]) =
          [kind |-> kind, it |-> w[a + size], end |-> w[e], pn |-> rows, rn |-> getRNs(rows), pos |-> 0]
    BY <1>8 DEF Prefetch
  <2>. QED
    BY <1>9, <2>1, Zenon DEF Load, rows
<1>. QED
  BY <1>2, <1>10

-----------------------------------------------------------------------------
(* Opening a cursor: the two walks, and where a range begins and ends.     *)

\* What a row number gives.
LEMMA RowTypes ==
  ASSUME TypeOK, Columns
  PROVE  /\ N \in Nat
         /\ \A i \in 0..N-1 : /\ i + 1 \in 1..N /\ Route(i) \in Nat
                              /\ pnColumn[i + 1].phone \in Nat /\ pnColumn[i + 1].next \in Nat
                              /\ pnColumn[i + 1].phone \in DOMAIN dict
<1>1. N \in Nat
  BY DEF TypeOK, N
<1>2. ASSUME NEW i \in 0..N-1
      PROVE  /\ i + 1 \in 1..N /\ Route(i) \in Nat
             /\ pnColumn[i + 1].phone \in Nat /\ pnColumn[i + 1].next \in Nat
             /\ pnColumn[i + 1].phone \in DOMAIN dict
  <2>1. i + 1 \in 1..N
    BY <1>1
  <2>2. pnColumn[i + 1] \in Entry
    BY <2>1 DEF TypeOK, N
  <2>3. Route(i) \in Routes /\ pnColumn[i + 1].phone \in DOMAIN dict
    BY <2>1 DEF Columns, Route
  <2>4. Route(i) \in Nat
    BY <2>3, ConstantsAssumption
  <2>. QED
    BY <2>1, <2>2, <2>3, <2>4 DEF Entry
<1>. QED
  BY <1>1, <1>2

\* What an index entry gives.
LEMMA IndexTypes ==
  ASSUME TypeOK
  PROVE  /\ Len(rnIndex) \in Nat
         /\ \A k \in 1..Len(rnIndex) : rnIndex[k].phone \in Nat /\ rnIndex[k].next \in Nat
<1>1. rnIndex \in Seq(Entry)
  BY DEF TypeOK
<1>2. \A k \in 1..Len(rnIndex) : rnIndex[k] \in Entry
  BY <1>1
<1>. QED
  BY <1>1, <1>2 DEF Entry

\* The walk of an inverse query is the thread, with MAXROWS behind it.
Along(ord) == [k \in 1..N+1 |-> IF k <= N THEN ord[k] ELSE MAXROWS]

\* The thread of next leads through all rows to the end mark.
LEMMA ThreadIsWalk ==
  ASSUME TypeOK, Columns, NEW ord \in [1..N -> 0..N-1], Thread(ord)
  PROVE  Along(ord) \in [1..N+1 -> 0..MAXROWS] /\ Walk("range", Along(ord))
<1>. DEFINE w == Along(ord)
<1>1. N \in Nat /\ MAXROWS \in Nat /\ N <= MAXROWS
  BY RowTypes, ConstantsAssumption DEF Columns
<1>2. w[N + 1] = MAXROWS /\ \A k \in 1..N : w[k] = ord[k] /\ w[k] \in 0..N-1 /\ k \in 1..N+1
  BY <1>1 DEF Along
<1>3. w \in [1..N+1 -> 0..MAXROWS]
  BY <1>1 DEF Along
<1>. HIDE DEF w
<1>4. ASSUME NEW k \in 1..N PROVE Follow("range", w[k]) = w[k + 1]
  <2>1. pnColumn[ord[k] + 1].next = IF k < N THEN ord[k + 1] ELSE MAXROWS
    BY DEF Thread
  <2>2. CASE k < N
    <3>1. k + 1 \in 1..N
      BY <1>1, <2>2
    <3>. QED
      BY <1>2, <2>1, <2>2, <3>1 DEF Follow
  <2>3. CASE ~(k < N)
    <3>1. k + 1 = N + 1
      BY <1>1, <2>3
    <3>. QED
      BY <1>2, <2>1, <2>3, <3>1 DEF Follow
  <2>. QED
    BY <2>2, <2>3
<1>5. \A k, l \in 1..N : k < l => Precedes("range", w[k], w[l])
  BY <1>2, Zenon DEF Thread
<1>6. \A i \in 0..N-1 : \E k \in 1..N : w[k] = i
  BY <1>2, Zenon DEF Thread
<1>7. w[N + 1] >= N
  BY <1>1, <1>2
<1>8. Walk("range", w)
  BY <1>2, <1>4, <1>5, <1>6, <1>7, Zenon DEF Walk
<1>. QED
  BY <1>3, <1>8 DEF w

\* The walk of visitRows is the column.
LEMMA ColumnIsWalk ==
  ASSUME TypeOK, Columns
  PROVE  LET w == [k \in 1..N+1 |-> k - 1] IN w \in [1..N+1 -> 0..MAXROWS] /\ Walk("rows", w)
<1>. DEFINE w == [k \in 1..N+1 |-> k - 1]
<1>1. N \in Nat /\ MAXROWS \in Nat /\ N <= MAXROWS
  BY RowTypes, ConstantsAssumption DEF Columns
<1>2. w \in [1..N+1 -> 0..MAXROWS]
  BY <1>1
<1>3. w[N + 1] = N /\ \A k \in 1..N : w[k] = k - 1 /\ w[k + 1] = k /\ k - 1 \in 0..N-1 /\ k - 1 + 1 = k
  BY <1>1
<1>4. \A i \in 0..N-1 : i + 1 \in 1..N /\ w[i + 1] = i
  BY <1>1
<1>5. \A k, l \in 1..N : k < l => k - 1 < l - 1
  OBVIOUS
<1>. HIDE DEF w
<1>6. \A k \in 1..N : w[k] \in 0..N-1 /\ Follow("rows", w[k]) = w[k + 1]
  BY <1>3 DEF Follow
<1>7. \A k, l \in 1..N : k < l => Precedes("rows", w[k], w[l])
  BY <1>3, <1>5 DEF Precedes
<1>8. w[N + 1] >= N
  BY <1>1, <1>3
<1>9. Walk("rows", w)
  BY <1>4, <1>6, <1>7, <1>8, Zenon DEF Walk
<1>. QED
  BY <1>2, <1>9 DEF w

\* Numbers of a file and of a query are stored as they are.
LEMMA NarrowKeeps ==
  ASSUME NEW n \in Phones \cup Routes \cup Bounds
  PROVE  n \in Nat /\ Narrow(n) = n
<1>1. n \in Nat /\ PhoneMod \in Nat \ {0} /\ n < PhoneMod
  BY ConstantsAssumption, WidthAssumption
<1>. QED
  BY <1>1 DEF Narrow

\* std::lower_bound finds a place, whatever it is asked for.
LEMMA LowerBoundFinds ==
  ASSUME TypeOK, NEW lo \in 1..Len(rnIndex) + 1, NEW n \in Bounds
  PROVE  LET k == LowerBound(lo, n) IN
         /\ k \in lo..Len(rnIndex) + 1
         /\ k <= Len(rnIndex) => rnIndex[k].phone >= n
         /\ \A j \in lo..k - 1 : rnIndex[j].phone < n
<1>. DEFINE L == Len(rnIndex)
            Not(k) == k <= L => rnIndex[k].phone >= n
            Fits == {k \in lo..L + 1 : Not(k)}
<1>1. L \in Nat /\ \A k \in 1..L : rnIndex[k].phone \in Nat
  BY IndexTypes
<1>2. n \in Nat /\ Narrow(n) = n
  BY NarrowKeeps
<1>3. L + 1 \in Fits /\ Fits \in SUBSET Nat
  BY <1>1
<1>4. PICK k \in Fits : \A j \in Fits : k <= j
  BY <1>3, MinIsLeast
<1>5. \A j \in lo..k - 1 : rnIndex[j].phone < n
  <2>. TAKE j \in lo..k - 1
  <2>1. j \in lo..L + 1 /\ j \in 1..L /\ ~(k <= j)
    BY <1>1, <1>4
  <2>2. j \notin Fits
    BY <1>4, <2>1
  <2>. QED
    BY <1>1, <1>2, <2>1, <2>2
<1>6. k \in lo..L + 1 /\ Not(k)
  BY <1>4
<1>. HIDE DEF Fits
<1>7. LowerBound(lo, n) = CHOOSE i \in lo..L + 1 : Not(i) /\ \A j \in lo..i - 1 : rnIndex[j].phone < n
  BY <1>2, Zenon DEF LowerBound
<1>. QED
  BY <1>5, <1>6, <1>7, Zenon

\* Where the thread has the routing numbers from index entry m on.
Begin(head, m) == IF m <= Len(rnIndex) THEN head[m] ELSE N + 1

\* Every row has an index entry, which comes before m exactly if the row comes
\* before the place m names.
LEMMA IndexDivides ==
  ASSUME TypeOK, Columns,
         NEW ord \in [1..N -> 0..N-1], NEW head \in [1..Len(rnIndex) -> 1..N],
         Thread(ord), Index(ord, head), NEW k \in 1..N
  PROVE  \E r \in 1..Len(rnIndex) :
           /\ rnIndex[r].phone = Route(ord[k])
           /\ \A m \in 1..Len(rnIndex) + 1 : k < Begin(head, m) <=> r < m
<1>. DEFINE L == Len(rnIndex)
            rt(i) == Route(ord[i])
<1>1. L \in Nat /\ N \in Nat /\ \A i \in 1..N : rt(i) \in Nat /\ ord[i] \in Nat
  <2>1. L \in Nat /\ N \in Nat /\ \A i \in 0..N-1 : Route(i) \in Nat
    BY RowTypes, IndexTypes
  <2>2. \A i \in 1..N : ord[i] \in 0..N-1 /\ ord[i] \in Nat
    BY <2>1
  <2>. QED
    BY <2>1, <2>2
<1>2. \A i \in 1..L : head[i] \in 1..N
  OBVIOUS
<1>3. PICK r \in 1..L : rt(head[r]) = rt(k)
  BY DEF Index
<1>4. rnIndex[r].phone = rt(k)
  BY <1>3 DEF Index
<1>5. \A i, j \in 1..N : i < j => rt(i) <= rt(j)
  <2>1. \A i, j \in 1..N : i < j => Precedes("range", ord[i], ord[j])
    BY DEF Thread
  <2>2. \A i, j \in 1..N : i < j => rt(i) < rt(j) \/ rt(i) = rt(j)
    BY <2>1, Zenon DEF Precedes
  <2>. TAKE i, j \in 1..N
  <2>3. rt(i) \in Nat /\ rt(j) \in Nat
    BY <1>1
  <2>4. i < j => rt(i) < rt(j) \/ rt(i) = rt(j)
    BY <2>2
  <2>. HIDE DEF rt
  <2>. QED
    BY <2>3, <2>4
<1>6. \A i \in 1..L : \A j \in 1..head[i] - 1 : rt(j) < rt(head[i])
  BY DEF Index
<1>7. \A i, j \in 1..L : i < j => head[i] < head[j]
  BY DEF Index
<1>. HIDE DEF rt
<1>8. head[r] <= k
  <2>1. ASSUME ~(head[r] <= k) PROVE FALSE
    <3>1. k \in 1..head[r] - 1
      BY <1>1, <1>2, <2>1
    <3>2. rt(k) < rt(head[r])
      BY <1>6, <3>1
    <3>. QED
      BY <1>1, <1>3, <3>2
  <2>. QED
    BY <2>1
<1>9. ASSUME NEW m \in 1..L + 1 PROVE k < Begin(head, m) <=> r < m
  <2>1. CASE m = L + 1
    BY <1>1, <2>1 DEF Begin
  <2>2. CASE m \in 1..L
    <3>1. Begin(head, m) = head[m] /\ head[m] \in 1..N
      BY <1>1, <1>2, <2>2 DEF Begin
    <3>2. CASE r < m
      <4>1. head[r] \in 1..head[m] - 1
        BY <1>2, <1>7, <2>2, <3>2
      <4>2. rt(head[r]) < rt(head[m])
        BY <1>6, <2>2, <4>1
      <4>3. rt(k) < rt(head[m])
        BY <1>3, <4>2
      <4>4. head[m] < k => rt(head[m]) <= rt(k)
        BY <1>5, <3>1
      <4>5. k # head[m] /\ ~(head[m] < k)
        BY <1>1, <3>1, <4>3, <4>4, SMTT(30)
      <4>. QED
        BY <3>1, <3>2, <4>5
    <3>3. CASE ~(r < m)
      <4>1. m < r => head[m] < head[r]
        BY <1>7, <2>2
      <4>2. head[m] <= head[r]
        BY <1>2, <2>2, <3>3, <4>1
      <4>3. head[r] \in Nat /\ head[m] \in Nat
        BY <1>2, <2>2
      <4>. QED
        BY <1>8, <3>1, <3>3, <4>2, <4>3
    <3>. QED
      BY <3>2, <3>3
  <2>3. m = L + 1 \/ m \in 1..L
    BY <1>1, SMTT(30)
  <2>. QED
    BY <2>1, <2>2, <2>3
<1>. QED
  BY <1>4, <1>9 DEF rt

\* The two searches of inverseRNs find the ends of the range on the thread.
LEMMA RangeIsSegment ==
  ASSUME TypeOK, Columns,
         NEW ord \in [1..N -> 0..N-1], NEW head \in [1..Len(rnIndex) -> 1..N],
         Thread(ord), Index(ord, head), NEW from \in Bounds, NEW to \in Bounds
  PROVE  LET left == LowerBound(1, from)
             right == LowerBound(left, to)
         IN  \E b \in 1..N+1 : \E e \in b..N+1 :
               /\ HeadOfRun(left) = Along(ord)[b] /\ HeadOfRun(right) = Along(ord)[e]
               /\ \A k \in 1..N : (b <= k /\ k < e) <=>
                    Route(Along(ord)[k]) >= from /\ Route(Along(ord)[k]) < to
<1>. DEFINE L == Len(rnIndex)
<1>1. /\ L \in Nat /\ N \in Nat /\ from \in Nat /\ to \in Nat
      /\ \A k \in 1..L : rnIndex[k].phone \in Nat
      /\ \A k \in 1..N : Route(ord[k]) \in Nat
  <2>1. L \in Nat /\ N \in Nat /\ \A i \in 0..N-1 : Route(i) \in Nat
    BY RowTypes, IndexTypes
  <2>2. \A i \in 1..N : ord[i] \in 0..N-1
    BY <2>1
  <2>. QED
    BY <2>1, <2>2, IndexTypes, NarrowKeeps
<1>2. PICK left : left = LowerBound(1, from)
  OBVIOUS
<1>3. PICK right : right = LowerBound(left, to)
  OBVIOUS
<1>4. /\ left \in 1..L + 1
      /\ left <= L => rnIndex[left].phone >= from
      /\ \A j \in 1..left - 1 : rnIndex[j].phone < from
  <2>1. 1 \in 1..L + 1
    BY <1>1
  <2>. QED
    BY <1>2, <2>1, LowerBoundFinds
<1>5. /\ right \in left..L + 1
      /\ right <= L => rnIndex[right].phone >= to
      /\ \A j \in left..right - 1 : rnIndex[j].phone < to
  BY <1>3, <1>4, LowerBoundFinds
<1>6. \A m, n \in 1..L : m < n => head[m] < head[n] /\ rnIndex[m].phone < rnIndex[n].phone
  <2>. SUFFICES ASSUME NEW m \in 1..L, NEW n \in 1..L, m < n
                PROVE  head[m] < head[n] /\ rnIndex[m].phone < rnIndex[n].phone
    OBVIOUS
  <2>1. head[m] < head[n]
    BY DEF Index
  <2>2. head[m] \in 1..head[n] - 1
    BY <2>1
  <2>3. Route(ord[head[m]]) < Route(ord[head[n]])
    BY <2>2 DEF Index
  <2>. QED
    BY <2>1, <2>3 DEF Index
<1>. DEFINE b == Begin(head, left)
            e == Begin(head, right)
<1>7. ASSUME NEW m \in 1..L + 1
      PROVE  Begin(head, m) \in 1..N+1 /\ HeadOfRun(m) = Along(ord)[Begin(head, m)]
  <2>1. CASE m <= L
    <3>1. m \in 1..L /\ head[m] \in 1..N /\ head[m] \in 1..N+1
      BY <1>1, <2>1
    <3>2. HeadOfRun(m) = rnIndex[m].next
      BY <1>1, <2>1, <3>1 DEF HeadOfRun
    <3>3. rnIndex[m].next = ord[head[m]]
      BY <3>1 DEF Index
    <3>. QED
      BY <1>1, <2>1, <3>1, <3>2, <3>3 DEF Begin, Along
  <2>2. CASE ~(m <= L)
    <3>1. Begin(head, m) = N + 1 /\ HeadOfRun(m) = MAXROWS
      BY <1>1, <2>2 DEF Begin, HeadOfRun
    <3>. QED
      BY <1>1, <3>1 DEF Along
  <2>. QED
    BY <2>1, <2>2
<1>8. left \in 1..L + 1 /\ right \in 1..L + 1 /\ left <= right
  BY <1>1, <1>4, <1>5
<1>9. e \in b..N+1
  <2>1. b \in 1..N+1 /\ e \in 1..N+1
    BY <1>7, <1>8
  <2>2. b <= e
    <3>1. CASE right = left
      BY <2>1, <3>1
    <3>2. CASE right # left /\ right <= L
      <4>1. left \in 1..L /\ right \in 1..L /\ left < right
        BY <1>1, <1>8, <3>2
      <4>. QED
        BY <1>1, <1>6, <4>1, <2>1 DEF Begin
    <3>3. CASE ~(right <= L)
      BY <1>1, <2>1, <3>3 DEF Begin
    <3>. QED
      BY <3>1, <3>2, <3>3
  <2>. QED
    BY <1>1, <2>1, <2>2
<1>10. ASSUME NEW k \in 1..N
       PROVE  (b <= k /\ k < e) <=> Route(ord[k]) >= from /\ Route(ord[k]) < to
  <2>1. PICK r \in 1..L : /\ rnIndex[r].phone = Route(ord[k])
                          /\ \A m \in 1..L + 1 : k < Begin(head, m) <=> r < m
    BY IndexDivides
  <2>2. (k < b <=> r < left) /\ (k < e <=> r < right)
    BY <1>8, <2>1
  <2>3. b \in Nat /\ (b <= k <=> ~(k < b))
    BY <1>1, <1>7, <1>8
  <2>4. \A m \in 1..L : r >= m => rnIndex[r].phone >= rnIndex[m].phone
    <3>. TAKE m \in 1..L
    <3>1. rnIndex[r].phone \in Nat /\ rnIndex[m].phone \in Nat
      BY <1>1
    <3>2. r = m \/ m < r \/ ~(r >= m)
      OBVIOUS
    <3>3. m < r => rnIndex[m].phone < rnIndex[r].phone
      BY <1>6
    <3>. QED
      BY <3>1, <3>2, <3>3
  <2>5. r < left => Route(ord[k]) < from
    BY <1>4, <2>1
  <2>6. ~(r < left) => Route(ord[k]) >= from
    <3>1. ASSUME ~(r < left) PROVE Route(ord[k]) >= from
      <4>1. left \in 1..L /\ r >= left /\ left <= L
        BY <1>1, <1>8, <3>1
      <4>2. rnIndex[r].phone >= rnIndex[left].phone /\ rnIndex[left].phone >= from
        BY <1>4, <2>4, <4>1
      <4>. QED
        BY <1>1, <2>1, <4>1, <4>2
    <3>. QED
      BY <3>1
  <2>7. ~(r < left) /\ r < right => Route(ord[k]) < to
    <3>1. ~(r < left) /\ r < right => r \in left..right - 1
      BY <1>1, <1>8
    <3>. QED
      BY <1>5, <2>1, <3>1
  <2>8. ~(r < right) => Route(ord[k]) >= to
    <3>1. ASSUME ~(r < right) PROVE Route(ord[k]) >= to
      <4>1. right \in 1..L /\ r >= right /\ right <= L
        BY <1>1, <1>8, <3>1
      <4>2. rnIndex[r].phone >= rnIndex[right].phone /\ rnIndex[right].phone >= to
        BY <1>5, <2>4, <4>1
      <4>. QED
        BY <1>1, <2>1, <4>1, <4>2
    <3>. QED
      BY <3>1
  <2>9. Route(ord[k]) \in Nat
    BY <1>1
  <2>. HIDE DEF b, e
  <2>10. (~(r < left) /\ r < right) <=> Route(ord[k]) >= from /\ Route(ord[k]) < to
    BY ONLY <1>1, <2>5, <2>6, <2>7, <2>8, <2>9
  <2>. QED
    BY <2>2, <2>3, <2>10
<1>11. \A k \in 1..N : Along(ord)[k] = ord[k]
  BY <1>1 DEF Along
<1>12. b \in 1..N+1 /\ HeadOfRun(left) = Along(ord)[b] /\ HeadOfRun(right) = Along(ord)[e]
  BY <1>7, <1>8
<1>. HIDE DEF b, e
<1>13. \A k \in 1..N : (b <= k /\ k < e) <=>
          Route(Along(ord)[k]) >= from /\ Route(Along(ord)[k]) < to
  BY <1>10, <1>11
<1>. QED
  BY <1>2, <1>3, <1>9, <1>12, <1>13, Zenon

-----------------------------------------------------------------------------
(* build().                                                                *)

\* Functions on 1..n are sequences of length n.
LEMMA FunctionIsSeq ==
  ASSUME NEW S, NEW n \in Nat, NEW f \in [1..n -> S]
  PROVE  f \in Seq(S) /\ Len(f) = n
OBVIOUS

\* The places where a sorted list of routing numbers has a new one: all before
\* are smaller, and every routing number has such a place.
LEMMA RunsBegin ==
  ASSUME NEW n \in Nat, NEW r \in [1..n -> Nat],
         \A k, l \in 1..n : k < l => r[k] <= r[l],
         NEW runs, runs = {k \in 1..n : k = 1 \/ r[k] # r[k - 1]}
  PROVE  /\ \A h \in runs : \A k \in 1..h - 1 : r[k] < r[h]
         /\ \A k \in 1..n : \E h \in runs : r[h] = r[k]
<1>1. ASSUME NEW h \in runs, NEW k \in 1..h - 1 PROVE r[k] < r[h]
  <2>1. h \in 1..n /\ h # 1 /\ h - 1 \in 1..n /\ k \in 1..n /\ r[h] # r[h - 1]
    OBVIOUS
  <2>2. r[h - 1] <= r[h]
    BY <2>1
  <2>3. k = h - 1 \/ k < h - 1
    BY <2>1
  <2>4. r[k] <= r[h - 1]
    BY <2>1, <2>3
  <2>. QED
    BY <2>1, <2>2, <2>4
<1>2. ASSUME NEW k \in 1..n PROVE \E h \in runs : r[h] = r[k]
  <2>. DEFINE Same == {h \in 1..n : r[h] = r[k]}
  <2>1. k \in Same /\ Same \in SUBSET Nat
    OBVIOUS
  <2>2. PICK h \in Same : \A j \in Same : h <= j
    BY <2>1, MinIsLeast
  <2>3. h \in 1..n /\ r[h] = r[k]
    BY <2>2
  <2>4. h # 1 => h - 1 \in 1..n /\ ~(h <= h - 1)
    BY <2>3
  <2>5. h # 1 => h - 1 \notin Same
    BY <2>2, <2>4
  <2>6. h = 1 \/ r[h] # r[h - 1]
    BY <2>3, <2>4, <2>5
  <2>. QED
    BY <2>3, <2>6
<1>. QED
  BY <1>1, <1>2

\* What std::stable_sort returns is an ordering of all rows.
LEMMA SortedOrders ==
  ASSUME TypeOK, Columns, Unbuilt, phase = "reading", NEW ord \in Sorted
  PROVE  /\ ord \in [1..N -> 0..N-1]
         /\ \A k, l \in 1..N : k < l => Precedes("range", ord[k], ord[l])
         /\ \A i \in 0..N-1 : \E k \in 1..N : ord[k] = i
         /\ \A i \in 0..N-1 : rnIndex[i + 1].phone = Route(i)
<1>. DEFINE rt == [i \in 0..N-1 |-> Route(i)]
<1>1. N \in Nat /\ rt \in [0..N-1 -> Nat]
  BY RowTypes
<1>2. \A i \in 0..N-1 : i + 1 \in 1..N /\ i + 1 - 1 = i
  BY <1>1
<1>3. \A i \in 0..N-1 : rnIndex[i + 1].phone = Route(i)
  BY <1>2 DEF Unbuilt
<1>4. ord \in [1..N -> 0..N-1] /\ \A k \in 1..N-1 : Less(ord[k], ord[k + 1])
  BY Zenon DEF Sorted
<1>5. ASSUME NEW k \in 1..N-1 PROVE Ascends(rt, ord[k], ord[k + 1])
  <2>1. ord[k] \in 0..N-1 /\ ord[k + 1] \in 0..N-1
    BY <1>1, <1>4
  <2>2. Less(ord[k], ord[k + 1])
    BY <1>4
  <2>3. rt[ord[k]] = Route(ord[k]) /\ rt[ord[k + 1]] = Route(ord[k + 1])
    BY <2>1
  <2>4. /\ rnIndex[ord[k] + 1].phone = Route(ord[k])
        /\ rnIndex[ord[k + 1] + 1].phone = Route(ord[k + 1])
    BY <1>3, <2>1
  <2>5. \/ rnIndex[ord[k] + 1].phone < rnIndex[ord[k + 1] + 1].phone
        \/ rnIndex[ord[k] + 1].phone = rnIndex[ord[k + 1] + 1].phone /\ ord[k] < ord[k + 1]
    BY <2>2, Zenon DEF Less
  <2>. HIDE DEF rt
  <2>6. \/ rt[ord[k]] < rt[ord[k + 1]]
        \/ rt[ord[k]] = rt[ord[k + 1]] /\ ord[k] < ord[k + 1]
    BY <2>3, <2>4, <2>5, Zenon
  <2>. QED
    BY <2>6, Zenon DEF Ascends
<1>6. rt \in [0..N-1 -> Nat] /\ \A i \in 0..N-1 : rt[i] = Route(i)
  BY <1>1
<1>. HIDE DEF rt
<1>7. \A i \in 0..N-1 : \E k \in 1..N : ord[k] = i
  BY <1>1, <1>4, <1>5, <1>6, SortedCovers
<1>8. ASSUME NEW k \in 1..N, NEW l \in 1..N, k < l
      PROVE  Precedes("range", ord[k], ord[l])
  <2>1. Ascends(rt, ord[k], ord[l])
    BY <1>1, <1>4, <1>5, <1>6, <1>8, SortedIncreases
  <2>2. ord[k] \in 0..N-1 /\ ord[l] \in 0..N-1
    BY <1>4
  <2>3. rt[ord[k]] \in Nat /\ rt[ord[l]] \in Nat /\ rt[ord[k]] = Route(ord[k]) /\ rt[ord[l]] = Route(ord[l])
    BY <1>6, <2>2
  <2>. QED
    BY <2>1, <2>3 DEF Ascends, Precedes
<1>. QED
  BY <1>3, <1>4, <1>7, <1>8

\* The phone column as build() leaves it.
Linked(ord) ==
  [i \in 1..N |-> LET k == CHOOSE k \in 1..N : ord[k] = i - 1 IN
                  IF k < N THEN [pnColumn[i] EXCEPT !.next = ord[k + 1]] ELSE pnColumn[i]]

\* build() changes no phone number, and next leads along the order.
LEMMA LinkedThreads ==
  ASSUME TypeOK, Columns, Unbuilt, phase = "reading", NEW ord \in Sorted
  PROVE  /\ Linked(ord) \in Seq(Entry) /\ Len(Linked(ord)) = N
         /\ \A i \in 1..N : Linked(ord)[i].phone = pnColumn[i].phone
         /\ \A k \in 1..N : Linked(ord)[ord[k] + 1].next = IF k < N THEN ord[k + 1] ELSE MAXROWS
<1>1. N \in Nat
  BY RowTypes
<1>2. ord \in [1..N -> 0..N-1] /\ \A i \in 0..N-1 : \E k \in 1..N : ord[k] = i
  BY SortedOrders
<1>3. \A k, l \in 1..N : ord[k] = ord[l] => k = l
  <2>1. \A k, l \in 1..N : k < l => ord[k] # ord[l]
    <3>. SUFFICES ASSUME NEW k \in 1..N, NEW l \in 1..N, k < l, ord[k] = ord[l] PROVE FALSE
      OBVIOUS
    <3>1. Precedes("range", ord[k], ord[k])
      BY SortedOrders
    <3>2. ord[k] < ord[k] /\ ord[k] \in Nat
      BY <1>2, <3>1 DEF Precedes
    <3>. QED
      BY <3>2
  <2>. QED
    BY <2>1
<1>4. ASSUME NEW i \in 1..N
      PROVE  pnColumn[i] \in Entry /\ pnColumn[i].next = MAXROWS
  <2>1. pnColumn[i] \in Entry
    BY DEF TypeOK, N
  <2>. QED
    BY <2>1 DEF Unbuilt
<1>5. ASSUME NEW k \in 1..N
      PROVE  Linked(ord)[ord[k] + 1] =
               IF k < N THEN [pnColumn[ord[k] + 1] EXCEPT !.next = ord[k + 1]] ELSE pnColumn[ord[k] + 1]
  <2>1. ord[k] + 1 \in 1..N /\ (ord[k] + 1) - 1 = ord[k]
    BY <1>1, <1>2
  <2>2. (CHOOSE l \in 1..N : ord[l] = ord[k]) = k
    BY <1>3
  <2>3. PICK i : i = ord[k] + 1
    OBVIOUS
  <2>6. i \in 1..N /\ i - 1 = ord[k]
    BY <1>1, <1>2, <2>1, <2>3
  <2>4. Linked(ord)[i] = LET l == CHOOSE l \in 1..N : ord[l] = i - 1 IN
                         IF l < N THEN [pnColumn[i] EXCEPT !.next = ord[l + 1]] ELSE pnColumn[i]
    BY <2>6, Zenon DEF Linked
  <2>5. (CHOOSE l \in 1..N : ord[l] = i - 1) = k
    BY <2>2, <2>6
  <2>. QED
    BY <2>3, <2>4, <2>5
<1>6. ASSUME NEW k \in 1..N
      PROVE  /\ Linked(ord)[ord[k] + 1] \in Entry
             /\ Linked(ord)[ord[k] + 1].phone = pnColumn[ord[k] + 1].phone
             /\ Linked(ord)[ord[k] + 1].next = IF k < N THEN ord[k + 1] ELSE MAXROWS
  <2>1. ord[k] + 1 \in 1..N
    BY <1>1, <1>2
  <2>2. k < N => ord[k + 1] \in Nat
    BY <1>1, <1>2
  <2>. QED
    BY <1>4, <1>5, <2>1, <2>2 DEF Entry
<1>7. ASSUME NEW i \in 1..N
      PROVE  Linked(ord)[i] \in Entry /\ Linked(ord)[i].phone = pnColumn[i].phone
  <2>1. i - 1 \in 0..N-1 /\ i - 1 + 1 = i
    BY <1>1
  <2>2. PICK k \in 1..N : ord[k] = i - 1
    BY <1>2, <2>1
  <2>. QED
    BY <1>6, <2>1, <2>2
<1>8. Linked(ord) \in [1..N -> Entry]
  <2>1. Linked(ord) = [i \in 1..N |-> Linked(ord)[i]]
    BY DEF Linked
  <2>. QED
    BY <1>7, <2>1
<1>. QED
  BY <1>1, <1>6, <1>7, <1>8, FunctionIsSeq

\* The index as build() leaves it.
Heads(ord) ==
  LET runs == {k \in 1..N : FirstOfRun(ord, k)} IN
  [m \in 1..Cardinality(runs) |->
     LET k == CHOOSE k \in runs : Cardinality({j \in runs : j <= k}) = m IN
     [phone |-> rnIndex[ord[k] + 1].phone, next |-> ord[k]]]

\* The index lists the beginnings of all routing numbers in ascending order.
LEMMA HeadsIndex ==
  ASSUME TypeOK, Columns, Unbuilt, phase = "reading", NEW ord \in Sorted
  PROVE  /\ Heads(ord) \in Seq(Entry)
         /\ \E head \in [1..Len(Heads(ord)) -> 1..N] :
              /\ \A m \in 1..Len(Heads(ord)) :
                   /\ Heads(ord)[m].phone = Route(ord[head[m]]) /\ Heads(ord)[m].next = ord[head[m]]
                   /\ \A k \in 1..head[m] - 1 : Route(ord[k]) < Route(ord[head[m]])
              /\ \A k \in 1..N : \E m \in 1..Len(Heads(ord)) : Route(ord[head[m]]) = Route(ord[k])
              /\ \A m, n \in 1..Len(Heads(ord)) : m < n => head[m] < head[n]
<1>. DEFINE r == [k \in 1..N |-> Route(ord[k])]
<1>1. N \in Nat /\ \A i \in 0..N-1 : Route(i) \in Nat
  BY RowTypes
<1>2. /\ ord \in [1..N -> 0..N-1]
      /\ \A k, l \in 1..N : k < l => Precedes("range", ord[k], ord[l])
      /\ \A i \in 0..N-1 : rnIndex[i + 1].phone = Route(i)
  BY SortedOrders
<1>3. r \in [1..N -> Nat] /\ \A k \in 1..N : r[k] = Route(ord[k]) /\ rnIndex[ord[k] + 1].phone = r[k]
  BY <1>1, <1>2
<1>. HIDE DEF r
<1>4. \A k, l \in 1..N : k < l => r[k] <= r[l]
  <2>. SUFFICES ASSUME NEW k \in 1..N, NEW l \in 1..N, k < l PROVE r[k] <= r[l]
    OBVIOUS
  <2>1. Precedes("range", ord[k], ord[l])
    BY <1>2
  <2>2. r[k] < r[l] \/ r[k] = r[l]
    BY <1>3, <2>1 DEF Precedes
  <2>. QED
    BY <1>3, <2>2
<1>5. PICK runs : runs = {k \in 1..N : FirstOfRun(ord, k)}
  OBVIOUS
<1>6. runs = {k \in 1..N : k = 1 \/ r[k] # r[k - 1]}
  <2>1. ASSUME NEW k \in 1..N PROVE FirstOfRun(ord, k) <=> k = 1 \/ r[k] # r[k - 1]
    <3>1. k # 1 => k - 1 \in 1..N
      BY <1>1
    <3>. QED
      BY <1>3, <3>1 DEF FirstOfRun
  <2>. QED
    BY <1>5, <2>1
<1>7. /\ \A h \in runs : \A k \in 1..h - 1 : r[k] < r[h]
      /\ \A k \in 1..N : \E h \in runs : r[h] = r[k]
  BY <1>1, <1>3, <1>4, <1>6, RunsBegin, ZenonT(60)
<1>8. runs \in SUBSET (1..N)
  BY <1>6
<1>9. PICK L \in Nat : L = Cardinality(runs)
  BY <1>1, <1>8, RankedListsAll
<1>10. /\ \A m \in 1..L : Ranked(runs, m) \in runs
       /\ \A m, l \in 1..L : m < l => Ranked(runs, m) < Ranked(runs, l)
       /\ \A k \in runs : \E m \in 1..L : Ranked(runs, m) = k
  BY <1>1, <1>8, <1>9, RankedIsElement, RankedListsAll
<1>. DEFINE head == [m \in 1..L |-> Ranked(runs, m)]
            entries == [m \in 1..L |-> [phone |-> rnIndex[ord[Ranked(runs, m)] + 1].phone, next |-> ord[Ranked(runs, m)]]]
<1>11. Heads(ord) = entries
  BY <1>5, <1>9, Zenon DEF Heads, Ranked, UpTo
<1>12. head \in [1..L -> 1..N] /\ \A m \in 1..L : head[m] = Ranked(runs, m) /\ head[m] \in runs
  BY <1>8, <1>10
<1>13. \A m \in 1..L : entries[m] = [phone |-> r[head[m]], next |-> ord[head[m]]] /\ entries[m] \in Entry
  <2>. TAKE m \in 1..L
  <2>1. head[m] = Ranked(runs, m) /\ head[m] \in 1..N
    BY <1>12
  <2>2. rnIndex[ord[head[m]] + 1].phone = r[head[m]] /\ r[head[m]] \in Nat /\ ord[head[m]] \in Nat
    BY <1>2, <1>3, <2>1
  <2>3. entries[m] = [phone |-> rnIndex[ord[Ranked(runs, m)] + 1].phone, next |-> ord[Ranked(runs, m)]]
    OBVIOUS
  <2>4. entries[m] = [phone |-> r[head[m]], next |-> ord[head[m]]]
    BY <2>1, <2>2, <2>3
  <2>. QED
    BY <2>2, <2>4 DEF Entry
<1>14. entries \in [1..L -> Entry]
  BY <1>13
<1>15. entries \in Seq(Entry) /\ Len(entries) = L
  BY <1>14, FunctionIsSeq
<1>. HIDE DEF entries, head
<1>16. ASSUME NEW m \in 1..L
       PROVE  /\ entries[m].phone = Route(ord[head[m]]) /\ entries[m].next = ord[head[m]]
              /\ \A k \in 1..head[m] - 1 : Route(ord[k]) < Route(ord[head[m]])
  <2>1. head[m] \in runs /\ head[m] \in 1..N
    BY <1>12
  <2>2. \A k \in 1..head[m] - 1 : k \in 1..N /\ r[k] < r[head[m]]
    BY <1>1, <1>7, <2>1
  <2>3. r[head[m]] = Route(ord[head[m]]) /\ \A k \in 1..head[m] - 1 : r[k] = Route(ord[k])
    BY <1>3, <2>1, <2>2
  <2>4. entries[m].phone = r[head[m]] /\ entries[m].next = ord[head[m]]
    <3>1. entries[m] = [phone |-> r[head[m]], next |-> ord[head[m]]]
      BY <1>13, Zenon
    <3>. QED
      BY ONLY <3>1
  <2>. QED
    BY <2>2, <2>3, <2>4
<1>17. ASSUME NEW k \in 1..N PROVE \E m \in 1..L : Route(ord[head[m]]) = Route(ord[k])
  <2>1. PICK h \in runs : r[h] = r[k]
    BY <1>7
  <2>2. PICK m \in 1..L : Ranked(runs, m) = h
    BY <1>10
  <2>3. head[m] = h /\ h \in 1..N
    BY <1>12, <2>2
  <2>. QED
    BY <1>3, <2>1, <2>3
<1>18. \A m, n \in 1..L : m < n => head[m] < head[n]
  BY <1>10, <1>12
<1>. QED
  BY <1>11, <1>12, <1>15, <1>16, <1>17, <1>18

-----------------------------------------------------------------------------
(* The steps.                                                              *)

\* An empty Builder satisfies the invariant.
LEMMA InitIInv == Init => IInv
<1>. SUFFICES ASSUME Init PROVE IInv
  OBVIOUS
<1>1. N = 0
  BY DEF Init, N
<1>2. TypeOK
  BY DEF Init, TypeOK
<1>3. Columns
  BY <1>1, ConstantsAssumption DEF Init, Columns
<1>4. Unbuilt
  BY <1>1 DEF Init, Unbuilt
<1>5. Threaded /\ Progress
  BY DEF Init, Threaded, Progress
<1>. QED
  BY <1>2, <1>3, <1>4, <1>5 DEF IInv

\* A new row extends the dictionary and both columns alike.
LEMMA AddRowKeeps ==
  ASSUME IInv, NEW pn \in Phones, NEW rn \in Routes, AddRow(pn, rn)
  PROVE  IInv'
<1>1. TypeOK /\ Columns /\ Unbuilt /\ phase = "reading" /\ query = NoQuery
  BY DEF IInv, AddRow, Unbuilt
<1>2. pn \in Nat /\ Narrow(pn) = pn /\ rn \in Nat /\ Narrow(rn) = rn /\ MAXROWS \in Nat
  BY NarrowKeeps, ConstantsAssumption
<1>3. /\ pnColumn \in Seq(Entry) /\ rnIndex \in Seq(Entry) /\ N \in Nat /\ Len(rnIndex) = N
      /\ \A i \in 1..N : pnColumn[i] \in Entry
  BY <1>1 DEF TypeOK, Unbuilt, N
<1>4. pn \notin DOMAIN dict /\ N < MAXROWS
  BY <1>2, <1>3 DEF AddRow, Refused
<1>5. /\ dict' = [p \in DOMAIN dict \cup {pn} |-> IF p = pn THEN rn ELSE dict[p]]
      /\ pnColumn' = Append(pnColumn, [phone |-> pn, next |-> MAXROWS])
      /\ rnIndex' = Append(rnIndex, [phone |-> rn, next |-> MAXROWS])
      /\ UNCHANGED <<phase, cursor, query, out>>
  BY <1>2 DEF AddRow
<1>6. [phone |-> pn, next |-> MAXROWS] \in Entry /\ [phone |-> rn, next |-> MAXROWS] \in Entry
  BY <1>2 DEF Entry
<1>7. pnColumn' \in Seq(Entry) /\ rnIndex' \in Seq(Entry)
  BY <1>3, <1>5, <1>6
<1>8. /\ N' = N + 1 /\ Len(rnIndex') = N + 1
      /\ \A i \in 1..N : pnColumn'[i] = pnColumn[i] /\ rnIndex'[i] = rnIndex[i]
      /\ pnColumn'[N + 1] = [phone |-> pn, next |-> MAXROWS]
      /\ rnIndex'[N + 1] = [phone |-> rn, next |-> MAXROWS]
  BY <1>3, <1>5, <1>6 DEF N
<1>9. TypeOK'
  BY <1>1, <1>5, <1>7 DEF TypeOK
<1>10. \A i \in 1..N' : i \in 1..N \/ i = N + 1
  BY <1>3, <1>8
<1>11. /\ DOMAIN dict = {pnColumn[i].phone : i \in 1..N}
       /\ \A i \in 1..N : pnColumn[i].phone \in DOMAIN dict /\ pnColumn[i].phone # pn
  BY <1>1, <1>4 DEF Columns
<1>12. /\ dict'[pn] = rn /\ DOMAIN dict' = DOMAIN dict \cup {pn}
       /\ \A i \in 1..N : dict'[pnColumn'[i].phone] = dict[pnColumn[i].phone]
  BY <1>5, <1>8, <1>11
<1>13. Columns'
  <2>1. N' <= MAXROWS
    BY <1>2, <1>3, <1>4, <1>8
  <2>2. \A i, j \in 1..N' : pnColumn'[i].phone = pnColumn'[j].phone => i = j
    BY <1>1, <1>8, <1>10, <1>11 DEF Columns
  <2>3. DOMAIN dict' = {pnColumn'[i].phone : i \in 1..N'}
    <3>1. \A i \in 1..N' : pnColumn'[i].phone \in DOMAIN dict'
      BY <1>8, <1>10, <1>11, <1>12
    <3>2. ASSUME NEW p \in DOMAIN dict' PROVE \E i \in 1..N' : p = pnColumn'[i].phone
      <4>1. CASE p = pn
        <5>1. N + 1 \in 1..N'
          BY <1>3, <1>8
        <5>. QED
          BY <1>8, <4>1, <5>1
      <4>2. CASE p # pn
        <5>1. PICK i \in 1..N : p = pnColumn[i].phone
          BY <1>11, <1>12, <4>2
        <5>2. i \in 1..N'
          BY <1>3, <1>8
        <5>. QED
          BY <1>8, <5>1, <5>2
      <4>. QED
        BY <4>1, <4>2
    <3>. QED
      BY <3>1, <3>2
  <2>4. \A i \in 1..N' : dict'[pnColumn'[i].phone] \in Routes
    BY <1>1, <1>8, <1>10, <1>12 DEF Columns
  <2>. QED
    BY <2>1, <2>2, <2>3, <2>4 DEF Columns
<1>14. Unbuilt'
  <2>1. ASSUME NEW i \in 1..N'
        PROVE  rnIndex'[i].phone = dict'[pnColumn'[i].phone] /\ pnColumn'[i].next = MAXROWS
    <3>1. CASE i = N + 1
      BY <1>8, <1>12, <3>1
    <3>2. CASE i \in 1..N
      <4>1. (i - 1) + 1 = i
        BY <1>3
      <4>2. rnIndex[i].phone = dict[pnColumn[i].phone] /\ pnColumn[i].next = MAXROWS
        BY <1>1, <3>2, <4>1 DEF Unbuilt, Route
      <4>. QED
        BY <1>8, <1>12, <3>2, <4>2
    <3>. QED
      BY <1>10, <3>1, <3>2
  <2>2. \A i \in 1..N' : (i - 1) + 1 = i
    BY <1>3, <1>8
  <2>3. \A i \in 1..N' : rnIndex'[i].phone = Route(i - 1)' /\ pnColumn'[i].next = MAXROWS
    BY <2>1, <2>2 DEF Route
  <2>. QED
    BY <1>1, <1>5, <1>8, <2>3 DEF Unbuilt
<1>15. Threaded' /\ Progress'
  BY <1>1, <1>5 DEF Threaded, Progress
<1>. QED
  BY <1>9, <1>13, <1>14, <1>15 DEF IInv

\* A load that is given up leaves everything as it is.
LEMMA FailKeeps ==
  ASSUME IInv, phase = "reading", phase' = "failed",
         UNCHANGED <<dict, pnColumn, rnIndex, cursor, query, out>>
  PROVE  IInv'
<1>1. TypeOK /\ Columns /\ Unbuilt /\ query = NoQuery
  BY DEF IInv, Unbuilt
<1>2. TypeOK'
  BY <1>1 DEF TypeOK
<1>3. Columns'
  BY <1>1 DEF Columns, N
<1>4. Unbuilt'
  BY <1>1 DEF Unbuilt
<1>5. Threaded' /\ Progress'
  BY <1>1 DEF Threaded, Progress
<1>. QED
  BY <1>2, <1>3, <1>4, <1>5 DEF IInv

\* build() makes the thread and the index, and keeps the rows.
LEMMA BuildKeeps ==
  ASSUME IInv, Build
  PROVE  IInv'
<1>1. /\ TypeOK /\ Columns /\ Unbuilt /\ query = NoQuery
      /\ phase = "reading" /\ phase' = "serving" /\ UNCHANGED <<dict, cursor, query, out>>
  BY DEF IInv, Unbuilt, Build
<1>2. PICK ord \in Sorted : pnColumn' = Linked(ord) /\ rnIndex' = Heads(ord)
  BY Zenon DEF Build, Linked, Heads
<1>3. /\ ord \in [1..N -> 0..N-1]
      /\ \A k, l \in 1..N : k < l => Precedes("range", ord[k], ord[l])
      /\ \A i \in 0..N-1 : \E k \in 1..N : ord[k] = i
  BY <1>1, SortedOrders
<1>4. /\ pnColumn' \in Seq(Entry) /\ Len(pnColumn') = N
      /\ \A i \in 1..N : pnColumn'[i].phone = pnColumn[i].phone
      /\ \A k \in 1..N : pnColumn'[ord[k] + 1].next = IF k < N THEN ord[k + 1] ELSE MAXROWS
  BY <1>1, <1>2, LinkedThreads
<1>5. N' = N /\ N \in Nat
  BY <1>1, <1>4, RowTypes DEF N
<1>6. \A i \in 0..N-1 : Route(i)' = Route(i)
  <2>1. \A i \in 0..N-1 : i + 1 \in 1..N
    BY <1>5
  <2>. QED
    BY <1>1, <1>4, <2>1 DEF Route
<1>7. \A k \in 1..N : ord[k] \in 0..N-1
  BY <1>3
<1>8. Thread(ord)'
  <2>1. \A k, l \in 1..N : k < l => Precedes("range", ord[k], ord[l])'
    BY <1>3, <1>6, <1>7 DEF Precedes
  <2>. QED
    BY <1>3, <1>4, <1>5, <2>1 DEF Thread
<1>9. rnIndex' \in Seq(Entry)
  BY <1>1, <1>2, HeadsIndex
<1>10. PICK head \in [1..Len(rnIndex') -> 1..N] :
         /\ \A m \in 1..Len(rnIndex') :
              /\ rnIndex'[m].phone = Route(ord[head[m]]) /\ rnIndex'[m].next = ord[head[m]]
              /\ \A k \in 1..head[m] - 1 : Route(ord[k]) < Route(ord[head[m]])
         /\ \A k \in 1..N : \E m \in 1..Len(rnIndex') : Route(ord[head[m]]) = Route(ord[k])
         /\ \A m, n \in 1..Len(rnIndex') : m < n => head[m] < head[n]
  BY <1>1, <1>2, HeadsIndex
<1>11. \A k \in 1..N : Route(ord[k])' = Route(ord[k])
  BY <1>6, <1>7
<1>12. Index(ord, head)'
  <2>1. \A m \in 1..Len(rnIndex') : head[m] \in 1..N /\ \A k \in 1..head[m] - 1 : k \in 1..N
    BY <1>5, <1>10
  <2>2. \A m \in 1..Len(rnIndex') :
          /\ rnIndex'[m].phone = Route(ord[head[m]])' /\ rnIndex'[m].next = ord[head[m]]
          /\ \A k \in 1..head[m] - 1 : Route(ord[k])' < Route(ord[head[m]])'
    BY <1>10, <1>11, <2>1
  <2>3. \A k \in 1..N : \E m \in 1..Len(rnIndex') : Route(ord[head[m]])' = Route(ord[k])'
    <3>. TAKE k \in 1..N
    <3>1. PICK m \in 1..Len(rnIndex') : Route(ord[head[m]]) = Route(ord[k])
      BY <1>10
    <3>2. Route(ord[head[m]])' = Route(ord[k])'
      BY <1>11, <2>1, <3>1
    <3>. QED
      BY <3>2
  <2>. QED
    BY <1>5, <1>10, <2>2, <2>3 DEF Index
<1>13. Threaded'
  BY <1>3, <1>5, <1>8, <1>10, <1>12 DEF Threaded
<1>14. TypeOK'
  BY <1>1, <1>4, <1>9 DEF TypeOK
<1>15. Columns'
  <2>1. {pnColumn'[i].phone : i \in 1..N'} = {pnColumn[i].phone : i \in 1..N}
    BY <1>4, <1>5
  <2>2. N' <= MAXROWS /\ DOMAIN dict' = {pnColumn'[i].phone : i \in 1..N'}
    BY <1>1, <1>5, <2>1 DEF Columns
  <2>3. \A i, j \in 1..N' : pnColumn'[i].phone = pnColumn'[j].phone => i = j
    BY <1>1, <1>4, <1>5 DEF Columns
  <2>4. \A i \in 1..N' : dict'[pnColumn'[i].phone] \in Routes
    BY <1>1, <1>4, <1>5 DEF Columns
  <2>. QED
    BY <2>2, <2>3, <2>4, Zenon DEF Columns
<1>16. Unbuilt' /\ Progress'
  BY <1>1 DEF Unbuilt, Progress
<1>. QED
  BY <1>13, <1>14, <1>15, <1>16 DEF IInv

\* The database is immutable once built.
LEMMA ServingKeeps ==
  ASSUME TypeOK, Columns, UNCHANGED <<phase, dict, pnColumn, rnIndex>>
  PROVE  /\ Columns' /\ N' = N
         /\ \A i : Route(i)' = Route(i) /\ RowAt(i)' = RowAt(i)
         /\ \A kind, w : Walk(kind, w) => Walk(kind, w)'
         /\ \A kind, w, a, e, size, pos :
              Load(kind, w, a, e, size, pos)' = Load(kind, w, a, e, size, pos)
         /\ Threaded => Threaded'
<1>1. N' = N
  BY DEF N
<1>2. Columns'
  BY <1>1 DEF Columns
<1>3. \A i : Route(i)' = Route(i) /\ RowAt(i)' = RowAt(i)
  BY DEF Route, RowAt
<1>4. \A kind, i, j : Precedes(kind, i, j)' <=> Precedes(kind, i, j)
  BY <1>3, Zenon DEF Precedes
<1>5. \A kind, i : Follow(kind, i)' = Follow(kind, i)
  BY Zenon DEF Follow
<1>6. \A kind, w : Walk(kind, w) => Walk(kind, w)'
  BY <1>1, <1>4, <1>5, Zenon DEF Walk
<1>7. \A kind, w, a, e, size, pos :
        Load(kind, w, a, e, size, pos)' = Load(kind, w, a, e, size, pos)
  BY DEF Load, Route
<1>8. \A ord : Thread(ord) => Thread(ord)'
  BY <1>1, <1>4, Zenon DEF Thread
<1>9. \A ord, head : Index(ord, head) => Index(ord, head)'
  BY <1>1, <1>3, ZenonT(60) DEF Index
<1>10. Threaded => Threaded'
  BY <1>1, <1>8, <1>9, Zenon DEF Threaded
<1>. QED
  BY <1>1, <1>2, <1>3, <1>6, <1>7, <1>10

\* The fields of a batch.
LEMMA LoadFields ==
  ASSUME NEW kind, NEW w, NEW a \in Nat, NEW e, NEW size \in Nat, NEW c, NEW held,
         held = Load(kind, w, a, e, size, c)
  PROVE  held.kind = kind /\ held.it = w[a + size] /\ held.end = w[e] /\ held.pos = c
BY DEF Load

\* A batch has as many numbers as it was loaded with.
LEMMA LoadSize ==
  ASSUME NEW kind, NEW w, NEW a \in Nat, NEW e, NEW size \in Nat, NEW c, NEW held,
         held = Load(kind, w, a, e, size, c)
  PROVE  Len(held.pn) = size
<1>. DEFINE pns == [n \in 1..size |-> pnColumn[w[a + n - 1] + 1].phone]
<1>1. pns \in [1..size -> {pnColumn[w[a + n - 1] + 1].phone : n \in 1..size}]
  OBVIOUS
<1>2. held.pn = pns
  BY DEF Load
<1>. HIDE DEF pns
<1>. QED
  BY <1>1, <1>2, FunctionIsSeq

\* Going on in a batch changes the position only.
LEMMA LoadMoves ==
  ASSUME NEW kind, NEW w, NEW a, NEW e, NEW size, NEW c, NEW held,
         held = Load(kind, w, a, e, size, c), NEW d
  PROVE  [held EXCEPT !.pos = d] = Load(kind, w, a, e, size, d)
<1>. DEFINE pns == [n \in 1..size |-> pnColumn[w[a + n - 1] + 1].phone]
            rns == [n \in 1..size |-> Route(w[a + n - 1])]
            at(x) == [kind |-> kind, it |-> w[a + size], end |-> w[e], pn |-> pns, rn |-> rns, pos |-> x]
<1>1. held = at(c) /\ Load(kind, w, a, e, size, d) = at(d)
  BY Zenon DEF Load
<1>. HIDE DEF pns, rns
<1>2. [held EXCEPT !.pos = d] = at(d)
  BY <1>1
<1>. QED
  BY <1>1, <1>2

\* A cursor opened on a segment is at its beginning, or closed if it is empty.
LEMMA OpenProgress ==
  ASSUME TypeOK, Columns, NEW kind \in {"range", "rows"},
         NEW w \in [1..N+1 -> 0..MAXROWS], Walk(kind, w),
         NEW b \in 1..N+1, NEW e \in b..N+1,
         UNCHANGED <<phase, dict, pnColumn, rnIndex>>,
         query' # NoQuery, query'.kind = kind, out' = <<>>, Segment(w, b, e)',
         cursor' = IF w[b] # w[e] THEN Prefetch(kind, w[b], w[e]) ELSE Closed
  PROVE  Progress'
<1>1. N \in Nat /\ b \in Nat /\ e \in Nat /\ e \in 1..N+1
  BY RowTypes
<1>2. Read(w, b, b)'
  BY <1>1 DEF Read
<1>3. Walk(kind, w)' /\ N' = N
  BY ServingKeeps
<1>4. b < e <=> w[b] # w[e]
  BY <1>1, WalkIsInjective
<1>5. CASE b = e
  <2>1. cursor' = Closed
    BY <1>4, <1>5
  <2>2. b \in b..e
    BY <1>1
  <2>. QED
    BY <1>2, <1>3, <1>5, <2>1, <2>2, Zenon DEF Progress
<1>6. CASE b < e
  <2>1. PICK size \in 0..Batch : /\ b + size <= e /\ size > 0
                                 /\ Prefetch(kind, w[b], w[e]) = Load(kind, w, b, e, size, 0)
    BY <1>6, PrefetchLoads
  <2>2. cursor' = Load(kind, w, b, e, size, 0)
    BY <1>4, <1>6, <2>1
  <2>3. size \in 1..Batch /\ size \in Nat /\ b \in 1..b /\ b - b = 0 /\ b < b + size /\ b \in b..e
    BY <1>1, <2>1, ConstantsAssumption
  <2>5. cursor' = Load(kind, w, b, e, size, b - b)'
    BY <2>2, <2>3, ServingKeeps
  <2>6. Holds(w, b, e)'
    BY <2>1, <2>3, <2>5, Zenon DEF Holds
  <2>7. cursor'.kind = kind
    BY <2>2 DEF Load
  <2>8. cursor' # Closed
    BY <2>7 DEF Closed
  <2>. QED
    BY <1>2, <1>3, <2>3, <2>6, <2>8, Zenon DEF Progress
<1>. QED
  BY <1>1, <1>5, <1>6

\* An inverse query opens a cursor on the segment of its range.
LEMMA inverseRNsKeeps ==
  ASSUME IInv, NEW from \in Bounds, NEW to \in Bounds, inverseRNs(from, to)
  PROVE  IInv'
<1>. DEFINE left == LowerBound(1, from)
            right == LowerBound(left, to)
<1>1. /\ TypeOK /\ Columns /\ Threaded /\ phase = "serving"
      /\ UNCHANGED <<phase, dict, pnColumn, rnIndex>>
      /\ query' = RangeQuery(from, to) /\ out' = <<>>
      /\ cursor' = IF HeadOfRun(left) # HeadOfRun(right)
                     THEN Prefetch("range", HeadOfRun(left), HeadOfRun(right)) ELSE Closed
  BY DEF IInv, inverseRNs
<1>2. PICK ord \in [1..N -> 0..N-1], head \in [1..Len(rnIndex) -> 1..N] :
        Thread(ord) /\ Index(ord, head)
  BY <1>1 DEF Threaded
<1>3. PICK w : w = Along(ord)
  OBVIOUS
<1>4. w \in [1..N+1 -> 0..MAXROWS] /\ Walk("range", w)
  BY <1>1, <1>2, <1>3, ThreadIsWalk
<1>5. PICK b \in 1..N+1 : \E e \in b..N+1 :
        /\ HeadOfRun(left) = w[b] /\ HeadOfRun(right) = w[e]
        /\ \A k \in 1..N : (b <= k /\ k < e) <=> Route(w[k]) >= from /\ Route(w[k]) < to
  BY <1>1, <1>2, <1>3, RangeIsSegment, Zenon
<1>6. PICK e \in b..N+1 :
        /\ HeadOfRun(left) = w[b] /\ HeadOfRun(right) = w[e]
        /\ \A k \in 1..N : (b <= k /\ k < e) <=> Route(w[k]) >= from /\ Route(w[k]) < to
  BY <1>5
<1>7. query'.kind = "range" /\ query'.from = from /\ query'.to = to /\ query' # NoQuery
  BY <1>1 DEF RangeQuery, NoQuery
<1>8. N' = N /\ \A i : Route(i)' = Route(i)
  BY <1>1, ServingKeeps
<1>9. Segment(w, b, e)'
  BY <1>6, <1>7, <1>8, Zenon DEF Segment, Asked
<1>10. cursor' = IF w[b] # w[e] THEN Prefetch("range", w[b], w[e]) ELSE Closed
  BY <1>1, <1>6
<1>11. Progress'
  <2>. HIDE DEF left, right
  <2>. QED
    BY <1>1, <1>4, <1>7, <1>9, <1>10, OpenProgress
<1>12. TypeOK'
  BY <1>1 DEF TypeOK
<1>13. Columns' /\ Threaded'
  BY <1>1, ServingKeeps
<1>14. Unbuilt'
  BY <1>1, <1>7 DEF Unbuilt
<1>. QED
  BY <1>11, <1>12, <1>13, <1>14 DEF IInv

\* visitRows opens a cursor on the whole column.
LEMMA visitRowsKeeps ==
  ASSUME IInv, visitRows
  PROVE  IInv'
<1>1. /\ TypeOK /\ Columns /\ Threaded /\ phase = "serving"
      /\ UNCHANGED <<phase, dict, pnColumn, rnIndex>>
      /\ query' = AllRows /\ out' = <<>>
      /\ cursor' = IF N > 0 THEN Prefetch("rows", 0, N) ELSE Closed
  BY DEF IInv, visitRows
<1>2. PICK w : w = [k \in 1..N+1 |-> k - 1]
  OBVIOUS
<1>3. w \in [1..N+1 -> 0..MAXROWS] /\ Walk("rows", w)
  BY <1>1, <1>2, ColumnIsWalk
<1>4. N \in Nat /\ 1 \in 1..N+1 /\ N + 1 \in 1..N+1 /\ w[1] = 0 /\ w[N + 1] = N
  BY <1>1, <1>2, RowTypes
<1>5. query'.kind = "rows" /\ query' # NoQuery
  BY <1>1 DEF AllRows, NoQuery
<1>6. N' = N
  BY <1>1, ServingKeeps
<1>7. PICK b \in 1..N+1, e \in 1..N+1 : b = 1 /\ e = N + 1
  BY <1>4
<1>8. Segment(w, b, e)'
  BY <1>4, <1>5, <1>6, <1>7 DEF Segment, Asked
<1>9. Progress'
  <2>1. e \in b..N+1
    BY <1>7
  <2>2. cursor' = IF w[b] # w[e] THEN Prefetch("rows", w[b], w[e]) ELSE Closed
    <3>1. w[b] = 0 /\ w[e] = N /\ (N > 0 <=> N # 0)
      BY <1>4, <1>7
    <3>. QED
      BY <1>1, <3>1
  <2>. QED
    BY <1>1, <1>3, <1>5, <1>8, <2>1, <2>2, OpenProgress
<1>10. TypeOK'
  BY <1>1 DEF TypeOK
<1>11. Columns' /\ Threaded'
  BY <1>1, ServingKeeps
<1>12. Unbuilt'
  BY <1>1, <1>5 DEF Unbuilt
<1>. QED
  BY <1>9, <1>10, <1>11, <1>12 DEF IInv

\* What Append adds and what it keeps.
LEMMA AppendExtends ==
  ASSUME NEW s \in Seq(Nat \X Nat), NEW x \in Nat \X Nat, NEW t, t = Append(s, x)
  PROVE  /\ Len(t) = Len(s) + 1 /\ t[Len(s) + 1] = x
         /\ \A i \in 1..Len(s) : t[i] = s[i]
OBVIOUS

\* Reading a row and going on reads the next row of the segment.
LEMMA advanceKeeps ==
  ASSUME IInv, advance
  PROVE  IInv'
<1>1. /\ TypeOK /\ Columns /\ Threaded /\ Unbuilt /\ Progress
      /\ UNCHANGED <<phase, dict, pnColumn, rnIndex, query>> /\ cursor # Closed
  BY DEF IInv, advance, hasRow
<1>2. query # NoQuery
  BY <1>1 DEF Unbuilt
<1>. PICK kind : kind = query.kind
  OBVIOUS
<1>3. PICK w \in [1..N+1 -> 0..MAXROWS], b \in 1..N+1 : \E e \in b..N+1 : \E c \in b..e :
        /\ Walk(kind, w) /\ Segment(w, b, e) /\ Read(w, b, c)
        /\ IF cursor = Closed THEN c = e ELSE Holds(w, c, e)
  BY <1>1, <1>2, Zenon DEF Progress
<1>4. PICK e \in b..N+1 : \E c \in b..e :
        Walk(kind, w) /\ Segment(w, b, e) /\ Read(w, b, c) /\ Holds(w, c, e)
  BY <1>1, <1>3
<1>5. PICK c \in b..e :
        Walk(kind, w) /\ Segment(w, b, e) /\ Read(w, b, c) /\ Holds(w, c, e)
  BY <1>4
<1>6. PICK a \in 1..c, size \in 1..Batch :
        /\ c < a + size /\ a + size <= e
        /\ cursor = Load(kind, w, a, e, size, c - a)
  BY <1>5 DEF Holds
<1>7. /\ N \in Nat /\ Batch \in Nat /\ a \in Nat /\ b \in Nat /\ c \in Nat /\ e \in Nat /\ size \in Nat
      /\ c \in 1..N /\ c + 1 \in 1..N+1 /\ c + 1 <= e
  BY <1>1, <1>6, RowTypes, ConstantsAssumption
<1>8. PICK p \in 1..size : p = (c - a) + 1
  BY <1>6, <1>7
<1>9. /\ cursor.kind = kind /\ cursor.it = w[a + size] /\ cursor.end = w[e]
      /\ cursor.pos + 1 = p /\ Len(cursor.pn) = size
      /\ cursor.pn[p] = pnColumn[w[a + p - 1] + 1].phone /\ cursor.rn[p] = Route(w[a + p - 1])
      /\ [cursor EXCEPT !.pos = p] = Load(kind, w, a, e, size, p)
  <2>1. /\ cursor.kind = kind /\ cursor.it = w[a + size] /\ cursor.end = w[e]
        /\ cursor.pos = c - a /\ Len(cursor.pn) = size
        /\ cursor.pn[p] = pnColumn[w[a + p - 1] + 1].phone /\ cursor.rn[p] = Route(w[a + p - 1])
        /\ [cursor EXCEPT !.pos = p] = Load(kind, w, a, e, size, p)
    <3>1. PICK held : held = cursor
      OBVIOUS
    <3>2. held = Load(kind, w, a, e, size, c - a)
      BY <1>6, <3>1
    <3>3. held.kind = kind /\ held.it = w[a + size] /\ held.end = w[e] /\ held.pos = c - a
      BY <1>7, <3>2, LoadFields, SMTT(30)
    <3>4. Len(held.pn) = size
      BY <1>7, <3>2, LoadSize
    <3>5. held.pn[p] = pnColumn[w[a + p - 1] + 1].phone /\ held.rn[p] = Route(w[a + p - 1])
      BY <3>2 DEF Load
    <3>6. [held EXCEPT !.pos = p] = Load(kind, w, a, e, size, p)
      BY <3>2, LoadMoves
    <3>. QED
      BY <3>1, <3>3, <3>4, <3>5, <3>6
  <2>. QED
    BY <1>8, <2>1
<1>10. a + p - 1 = c /\ p = (c + 1) - a
  BY <1>7, <1>8
<1>11. PICK next : next = IF p = size THEN Prefetch(kind, w[a + size], w[e])
                                      ELSE [cursor EXCEPT !.pos = p]
  OBVIOUS
<1>12. /\ out' = Append(out, RowAt(w[c]))
       /\ cursor' = IF Len(next.pn) = 0 THEN Closed ELSE next
  <2>1. /\ out' = Append(out, <<cursor.pn[p], cursor.rn[p]>>)
        /\ cursor' = IF Len(next.pn) = 0 THEN Closed ELSE next
    BY <1>9, <1>11, Zenon DEF advance
  <2>2. RowAt(w[c]) = <<cursor.pn[p], cursor.rn[p]>>
    BY <1>9, <1>10 DEF RowAt
  <2>. QED
    BY <2>1, <2>2
<1>13. /\ Columns' /\ Threaded' /\ N' = N /\ Walk(kind, w)'
       /\ \A i : Route(i)' = Route(i) /\ RowAt(i)' = RowAt(i)
       /\ \A k, v, x, y, z, pos : Load(k, v, x, y, z, pos)' = Load(k, v, x, y, z, pos)
  BY <1>1, <1>5, ServingKeeps
<1>14. RowAt(w[c]) \in Nat \X Nat
  <2>1. w[c] \in 0..N-1
    BY <1>5, <1>7 DEF Walk
  <2>. QED
    BY <1>1, <2>1, RowTypes DEF RowAt
<1>15. TypeOK'
  BY <1>1, <1>12, <1>14 DEF TypeOK
<1>16. Unbuilt'
  BY <1>1, <1>2 DEF Unbuilt
<1>17. Read(w, b, c + 1)'
  <2>1. out \in Seq(Nat \X Nat) /\ Len(out) = c - b /\ \A i \in 1..c - b : out[i] = RowAt(w[b + i - 1])
    BY <1>1, <1>5 DEF TypeOK, Read
  <2>2. /\ Len(out') = Len(out) + 1 /\ out'[Len(out) + 1] = RowAt(w[c])
        /\ \A i \in 1..Len(out) : out'[i] = out[i]
    <3>1. PICK row \in Nat \X Nat : row = RowAt(w[c])
      BY <1>14
    <3>2. out' = Append(out, row)
      BY <1>12, <3>1
    <3>3. /\ Len(out') = Len(out) + 1 /\ out'[Len(out) + 1] = row
          /\ \A i \in 1..Len(out) : out'[i] = out[i]
      <4>1. PICK rows \in Seq(Nat \X Nat) : rows = out
        BY <2>1
      <4>2. PICK t : t = out'
        OBVIOUS
      <4>3. t = Append(rows, row)
        BY <3>2, <4>1, <4>2
      <4>. QED
        BY <4>1, <4>2, <4>3, AppendExtends
    <3>. QED
      BY <3>1, <3>3
  <2>3. c - b \in Nat /\ (c + 1) - b = (c - b) + 1 /\ b + ((c - b) + 1) - 1 = c
    BY <1>7
  <2>4. Len(out') = (c + 1) - b
    BY <2>1, <2>2, <2>3
  <2>5. \A i \in 1..(c + 1) - b : i \in 1..c - b \/ i = (c - b) + 1
    BY <2>3
  <2>6. \A i \in 1..(c + 1) - b : out'[i] = RowAt(w[b + i - 1])
    BY <2>1, <2>2, <2>3, <2>5
  <2>7. \A i \in 1..(c + 1) - b : out'[i] = RowAt(w[b + i - 1])'
    BY <1>13, <2>6
  <2>. QED
    BY <2>4, <2>7 DEF Read
<1>18. Segment(w, b, e)'
  BY <1>1, <1>5, <1>13, Zenon DEF Segment, Asked
<1>19. IF cursor' = Closed THEN c + 1 = e ELSE Holds(w, c + 1, e)'
  <2>1. CASE p = size
    <3>1. a + size = c + 1 /\ e \in c + 1..N+1
      BY <1>6, <1>7, <1>8, <2>1
    <3>2. PICK more \in 0..Batch :
            /\ (c + 1) + more <= e /\ (c + 1 < e => more > 0)
            /\ Prefetch(kind, w[c + 1], w[e]) = Load(kind, w, c + 1, e, more, 0)
      BY <1>1, <1>5, <1>7, <3>1, PrefetchLoads
    <3>3. next = Load(kind, w, c + 1, e, more, 0)
      BY <1>11, <2>1, <3>1, <3>2
    <3>4. more \in Nat /\ c + 1 \in Nat
      BY <1>7, <3>2
    <3>5. Len(next.pn) = more
      BY <3>3, <3>4, LoadSize
    <3>6. CASE more = 0
      <4>1. ~(c + 1 < e)
        BY <3>2, <3>6
      <4>2. cursor' = Closed /\ c + 1 = e
        BY <1>7, <1>12, <3>4, <3>5, <3>6, <4>1
      <4>. QED
        BY <4>2
    <3>7. CASE more # 0
      <4>1. cursor' = next
        BY <1>12, <3>5, <3>7
      <4>2. more \in 1..Batch /\ c + 1 \in 1..c + 1 /\ (c + 1) - (c + 1) = 0 /\ c + 1 < (c + 1) + more
        BY <1>7, <3>2, <3>7
      <4>3. cursor' = Load(kind, w, c + 1, e, more, (c + 1) - (c + 1))'
        BY <1>13, <3>3, <4>1, <4>2
      <4>4. query'.kind = kind
        BY <1>1
      <4>5. Holds(w, c + 1, e)'
        BY <3>2, <4>2, <4>3, <4>4, Zenon DEF Holds
      <4>6. cursor'.kind = kind
        BY <3>3, <4>1 DEF Load
      <4>. QED
        BY <1>1, <1>2, <4>5, <4>6 DEF TypeOK, Closed, NoQuery, AllRows, RangeQuery
    <3>. QED
      BY <3>6, <3>7
  <2>2. CASE p # size
    <3>1. next = Load(kind, w, a, e, size, p)
      BY <1>9, <1>11, <2>2
    <3>2. Len(next.pn) = size /\ next.kind = kind
      BY <1>7, <3>1, LoadFields, LoadSize
    <3>3. cursor' = next
      BY <1>7, <1>12, <3>2
    <3>4. a \in 1..c + 1 /\ c + 1 < a + size
      BY <1>6, <1>7, <1>8, <2>2
    <3>5. cursor' = Load(kind, w, a, e, size, (c + 1) - a)'
      BY <1>10, <1>13, <3>1, <3>3
    <3>6. query'.kind = kind
      BY <1>1
    <3>7. Holds(w, c + 1, e)'
      BY <1>6, <3>4, <3>5, <3>6, Zenon DEF Holds
    <3>. QED
      BY <1>1, <1>2, <3>2, <3>3, <3>7 DEF TypeOK, Closed, NoQuery, AllRows, RangeQuery
  <2>. QED
    BY <2>1, <2>2
<1>20. Progress'
  <2>1. c + 1 \in b..e
    BY <1>7
  <2>2. query'.kind = kind
    BY <1>1
  <2>. QED
    BY <1>5, <1>13, <1>17, <1>18, <1>19, <2>1, <2>2, Zenon DEF Progress
<1>. QED
  BY <1>13, <1>15, <1>16, <1>20 DEF IInv

\* Every step keeps the invariant.
LEMMA StepIInv == IInv /\ [Next]_vars => IInv'
<1>. SUFFICES ASSUME IInv, [Next]_vars PROVE IInv'
  OBVIOUS
<1>1. ASSUME NEW pn \in Phones, RefuseRow(pn) PROVE IInv'
  BY <1>1, FailKeeps DEF RefuseRow
<1>2. CASE BadRow
  BY <1>2, FailKeeps DEF BadRow
<1>3. CASE UNCHANGED vars
  <2>1. UNCHANGED <<phase, dict, pnColumn, rnIndex, cursor, query, out>>
    BY <1>3 DEF vars
  <2>2. TypeOK /\ Columns /\ Unbuilt /\ Threaded /\ Progress
    BY DEF IInv
  <2>3. TypeOK' /\ Columns' /\ Threaded' /\ N' = N
    BY <2>1, <2>2, ServingKeeps DEF TypeOK
  <2>4. \A i : Route(i)' = Route(i) /\ RowAt(i)' = RowAt(i)
    BY <2>1, <2>2, ServingKeeps
  <2>5. Unbuilt'
    BY <2>1, <2>2, <2>3, <2>4, Zenon DEF Unbuilt
  <2>6. \A w, b, e : Segment(w, b, e) => Segment(w, b, e)'
    BY <2>1, <2>3, <2>4, Zenon DEF Segment, Asked
  <2>7. \A w, b, c : Read(w, b, c) => Read(w, b, c)'
    BY <2>1, <2>4, Zenon DEF Read
  <2>8. \A w, c, e : Holds(w, c, e) => Holds(w, c, e)'
    BY <2>1, <2>2, ServingKeeps, Zenon DEF Holds
  <2>9. \A w : Walk(query.kind, w) => Walk(query.kind, w)'
    BY <2>1, <2>2, ServingKeeps, Zenon
  <2>10. Progress'
    <3>1. CASE query # NoQuery
      <4>1. PICK w \in [1..N+1 -> 0..MAXROWS], b \in 1..N+1 : \E e \in b..N+1 : \E c \in b..e :
              /\ Walk(query.kind, w) /\ Segment(w, b, e) /\ Read(w, b, c)
              /\ IF cursor = Closed THEN c = e ELSE Holds(w, c, e)
        BY <2>2, <3>1, Zenon DEF Progress
      <4>2. \E e \in b..N'+1 : \E c \in b..e :
              /\ Walk(query.kind, w)' /\ Segment(w, b, e)' /\ Read(w, b, c)'
              /\ IF cursor' = Closed THEN c = e ELSE Holds(w, c, e)'
        BY <2>1, <2>3, <2>6, <2>7, <2>8, <2>9, <4>1
      <4>. QED
        BY <2>3, <4>1, <4>2, Zenon DEF Progress
    <3>. QED
      BY <2>1, <3>1 DEF Progress
  <2>. QED
    BY <2>3, <2>5, <2>10 DEF IInv
<1>. QED
  BY <1>1, <1>2, <1>3, AddRowKeeps, BuildKeeps, inverseRNsKeeps, visitRowsKeeps, advanceKeeps
  DEF Next

-----------------------------------------------------------------------------
(* The theorems.                                                           *)

\* The inductive invariant holds in every state.
THEOREM Invariance == Spec => []IInv
BY InitIInv, StepIInv, PTL DEF Spec

\* What CursorComplete says of rows, said of places on the walk.
LEMMA RowsByNumber ==
  ASSUME TypeOK, Columns
  PROVE  /\ \A i, j \in 0..N-1 : Before(RowAt(i), RowAt(j)) <=> Precedes(query.kind, i, j)
         /\ \A i \in 0..N-1 : Asked(i) => RowAt(i) \in Wanted
         /\ \A row \in Wanted : \E i \in 0..N-1 : Asked(i) /\ row = RowAt(i)
<1>1. N \in Nat /\ \A i \in 0..N-1 : i + 1 \in 1..N /\ pnColumn[i + 1].phone \in DOMAIN dict
  BY RowTypes
<1>2. ASSUME NEW i \in 0..N-1 PROVE Position(pnColumn[i + 1].phone) = i + 1
  <2>1. \A j \in 1..N : pnColumn[j].phone = pnColumn[i + 1].phone => j = i + 1
    BY <1>1 DEF Columns
  <2>. QED
    BY <1>1, <2>1 DEF Position
<1>3. \A i \in 0..N-1 : RowAt(i)[1] = pnColumn[i + 1].phone /\ RowAt(i)[2] = Route(i)
  BY DEF RowAt
<1>4. ASSUME NEW i \in 0..N-1, NEW j \in 0..N-1
      PROVE  Before(RowAt(i), RowAt(j)) <=> Precedes(query.kind, i, j)
  <2>1. Position(RowAt(i)[1]) < Position(RowAt(j)[1]) <=> i < j
    BY <1>2, <1>3
  <2>. QED
    BY <1>3, <2>1 DEF Before, Precedes
<1>5. ASSUME NEW i \in 0..N-1, Asked(i) PROVE RowAt(i) \in Wanted
  <2>1. RowAt(i) \in {<<p, dict[p]>> : p \in DOMAIN dict}
    BY <1>1 DEF RowAt, Route
  <2>2. query.kind = "range" => RowAt(i)[2] >= query.from /\ RowAt(i)[2] < query.to
    BY <1>3, <1>5, Zenon DEF Asked
  <2>. QED
    BY <2>1, <2>2, Zenon DEF Wanted
<1>6. ASSUME NEW row \in Wanted PROVE \E i \in 0..N-1 : Asked(i) /\ row = RowAt(i)
  <2>1. /\ row \in {<<p, dict[p]>> : p \in DOMAIN dict}
        /\ query.kind = "range" => row[2] >= query.from /\ row[2] < query.to
    BY Zenon DEF Wanted
  <2>2. PICK p \in DOMAIN dict : row = <<p, dict[p]>>
    BY <2>1
  <2>3. PICK j \in 1..N : p = pnColumn[j].phone
    BY DEF Columns
  <2>4. PICK i \in 0..N-1 : j = i + 1
    <3>1. j - 1 \in 0..N-1 /\ j = (j - 1) + 1
      BY <1>1
    <3>. QED
      BY <3>1
  <2>5. row = RowAt(i)
    BY <2>2, <2>3, <2>4 DEF RowAt, Route
  <2>6. Asked(i)
    BY <1>3, <2>1, <2>5, Zenon DEF Asked
  <2>. QED
    BY <2>5, <2>6
<1>. QED
  BY <1>4, <1>5, <1>6

\* For files of any length up to the row limit and batches of any size, a cursor
\* of inverseRNs or visitRows hands out exactly the rows asked for, in order and
\* each once, and has handed out all of them when it closes.
THEOREM CursorsAreComplete == Spec => []CursorComplete
<1>1. IInv => CursorComplete
  <2>. SUFFICES ASSUME IInv PROVE CursorComplete
    OBVIOUS
  <2>1. TypeOK /\ Columns /\ Unbuilt /\ Progress /\ N \in Nat
    BY RowTypes DEF IInv
  <2>2. CASE query = NoQuery
    <3>1. DOMAIN out = {}
      BY <2>1, <2>2 DEF Unbuilt
    <3>. QED
      BY <2>2, <3>1, Zenon DEF CursorComplete
  <2>3. CASE query # NoQuery
    <3>1. PICK w \in [1..N+1 -> 0..MAXROWS], b \in 1..N+1 : \E e \in b..N+1 : \E c \in b..e :
            /\ Walk(query.kind, w) /\ Segment(w, b, e) /\ Read(w, b, c)
            /\ cursor = Closed => c = e
      BY <2>1, <2>3, Zenon DEF Progress
    <3>2. PICK e \in b..N+1 : \E c \in b..e :
            /\ Walk(query.kind, w) /\ Segment(w, b, e) /\ Read(w, b, c)
            /\ cursor = Closed => c = e
      BY <3>1
    <3>3. PICK c \in b..e :
            /\ Walk(query.kind, w) /\ Segment(w, b, e) /\ Read(w, b, c)
            /\ cursor = Closed => c = e
      BY <3>2
    <3>4. /\ b \in Nat /\ c \in Nat /\ e \in Nat /\ b >= 1 /\ b <= c /\ c <= e /\ e <= N + 1
          /\ DOMAIN out = 1..c - b
      BY <2>1, <3>3 DEF Read, TypeOK
    <3>5. \A k \in 1..N : w[k] \in 0..N-1 /\ w[k] \in Nat
      BY <3>3 DEF Walk
    <3>6. \A k, l \in 1..N : Before(RowAt(w[k]), RowAt(w[l])) <=> Precedes(query.kind, w[k], w[l])
      BY <2>1, <3>5, RowsByNumber
    <3>7. \A k, l \in 1..N : k < l => Precedes(query.kind, w[k], w[l])
      BY <3>3 DEF Walk
    <3>8. \A k \in 1..N : (b <= k /\ k < e) <=> Asked(w[k])
      BY <3>3 DEF Segment
    <3>9. ASSUME NEW row \in Wanted
          PROVE  \E k \in 1..N : row = RowAt(w[k]) /\ b <= k /\ k < e
      <4>1. PICK i \in 0..N-1 : Asked(i) /\ row = RowAt(i)
        BY <2>1, RowsByNumber
      <4>2. PICK k \in 1..N : w[k] = i
        BY <3>3 DEF Walk
      <4>. QED
        BY <3>8, <4>1, <4>2
    <3>10. ASSUME NEW i \in DOMAIN out
           PROVE  \E l \in 1..N : l = b + i - 1 /\ out[i] = RowAt(w[l]) /\ b <= l /\ l < c
      <4>1. i \in 1..c - b
        BY <3>4
      <4>2. b + i - 1 \in 1..N /\ b <= b + i - 1 /\ b + i - 1 < c
        BY <2>1, <3>4, <4>1, SMTT(30)
      <4>3. out[i] = RowAt(w[b + i - 1])
        BY <3>3, <4>1 DEF Read
      <4>. QED
        BY <4>2, <4>3
    <3>11. ASSUME NEW k \in 1..N, b <= k, k < c
           PROVE  \E j \in DOMAIN out : out[j] = RowAt(w[k])
      <4>1. PICK j \in 1..c - b : j = (k - b) + 1
        BY <3>4, <3>11
      <4>2. b + j - 1 = k
        BY <3>4, <4>1
      <4>. QED
        BY <3>3, <3>4, <4>1, <4>2 DEF Read
    <3>12. ASSUME NEW k \in 1..N, NEW l \in 1..N, Precedes(query.kind, w[k], w[l])
           PROVE  k < l
      <4>1. k # l
        <5>1. ASSUME k = l PROVE FALSE
          <6>1. Precedes(query.kind, w[k], w[k])
            BY <3>12, <5>1
          <6>2. w[k] < w[k] /\ w[k] \in Nat
            BY <3>5, <6>1 DEF Precedes
          <6>. QED
            BY <6>2
        <5>. QED
          BY <5>1
      <4>2. ~(l < k)
        <5>1. ASSUME l < k PROVE FALSE
          <6>1. Precedes(query.kind, w[l], w[k])
            BY <3>7, <5>1
          <6>2. w[k] \in Nat /\ w[l] \in Nat /\ Route(w[k]) \in Nat /\ Route(w[l]) \in Nat
            BY <2>1, <3>5, RowTypes
          <6>. QED
            BY <3>12, <6>1, <6>2 DEF Precedes
        <5>. QED
          BY <5>1
      <4>. QED
        BY <4>1, <4>2
    <3>13. \A i \in DOMAIN out : out[i] \in Wanted
      <4>. TAKE i \in DOMAIN out
      <4>1. PICK l \in 1..N : out[i] = RowAt(w[l]) /\ b <= l /\ l < c
        BY <3>10
      <4>2. Asked(w[l])
        BY <3>4, <3>8, <4>1
      <4>. QED
        BY <2>1, <3>5, <4>1, <4>2, RowsByNumber
    <3>14. \A i, j \in DOMAIN out : i < j => Before(out[i], out[j])
      <4>. SUFFICES ASSUME NEW i \in DOMAIN out, NEW j \in DOMAIN out, i < j
                    PROVE  Before(out[i], out[j])
        OBVIOUS
      <4>1. PICK k \in 1..N : k = b + i - 1 /\ out[i] = RowAt(w[k])
        BY <3>10
      <4>2. PICK l \in 1..N : l = b + j - 1 /\ out[j] = RowAt(w[l])
        BY <3>10
      <4>3. k < l
        BY <3>4, <4>1, <4>2
      <4>. QED
        BY <3>6, <3>7, <4>1, <4>2, <4>3
    <3>15. \A i \in DOMAIN out, row \in Wanted :
             Before(row, out[i]) => \E j \in DOMAIN out : out[j] = row
      <4>. SUFFICES ASSUME NEW i \in DOMAIN out, NEW row \in Wanted, Before(row, out[i])
                    PROVE  \E j \in DOMAIN out : out[j] = row
        OBVIOUS
      <4>1. PICK k \in 1..N : row = RowAt(w[k]) /\ b <= k /\ k < e
        BY <3>9
      <4>2. PICK l \in 1..N : out[i] = RowAt(w[l]) /\ b <= l /\ l < c
        BY <3>10
      <4>3. k < l
        BY <3>6, <3>12, <4>1, <4>2
      <4>4. k < c
        BY <3>4, <4>2, <4>3
      <4>. QED
        BY <3>11, <4>1, <4>4
    <3>16. ~hasRow => \A row \in Wanted : \E i \in DOMAIN out : out[i] = row
      <4>. SUFFICES ASSUME ~hasRow, NEW row \in Wanted PROVE \E i \in DOMAIN out : out[i] = row
        OBVIOUS
      <4>1. c = e
        BY <3>3 DEF hasRow
      <4>2. PICK k \in 1..N : row = RowAt(w[k]) /\ b <= k /\ k < e
        BY <3>9
      <4>. QED
        BY <3>11, <4>1, <4>2
    <3>. QED
      BY <3>13, <3>14, <3>15, <3>16, Zenon DEF CursorComplete
  <2>. QED
    BY <2>2, <2>3
<1>. QED
  BY <1>1, Invariance, PTL

=============================================================================
