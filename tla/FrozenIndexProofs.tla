-------------------------- MODULE FrozenIndexProofs --------------------------
(***************************************************************************)
(* Theorems about makeIndex of FrozenIndex, for every number of keys and   *)
(* every sequence of edges: the compaction never overwrites what it has    *)
(* yet to read, and the index that is built is exact.  And a theorem about *)
(* IndexPlan, at the end: no order of building the indexes has a lower     *)
(* peak of memory than the one the code chooses.                           *)
(*                                                                         *)
(* The argument: the counts are numbers of edges, so the sum up to a key   *)
(* is the number of the edges of smaller keys and the windows of the keys  *)
(* lie side by side; each cursor stays inside the window of its key; and   *)
(* the compaction has kept no more members than it has read.               *)
(***************************************************************************)
EXTENDS FrozenIndex, IndexPlan, FiniteSetTheorems, SequenceTheorems, TLAPS

(***************************************************************************)
(* Counting edges                                                          *)
(***************************************************************************)
\* The edges of a key among the first m, their number, and their values; and the
\* number of the edges of smaller keys.
EdgesOf(es, k, m) == {i \in 1..m : es[i][1] = k}
Number(es, k, m) == Cardinality(EdgesOf(es, k, m))
Values(es, k, m) == {es[i][2] : i \in EdgesOf(es, k, m)}
Smaller(es, k) == {i \in 1..Len(es) : es[i][1] < k}
Below(es, k) == Cardinality(Smaller(es, k))

LEMMA EdgeTypes ==
  ASSUME NEW es \in Seq(Edge), NEW i \in 1..Len(es)
  PROVE  es[i][1] \in Key /\ es[i][2] \in Nat /\ es[i][1] \in Nat /\ es[i][1] + 1 \in 0..Size
<1>1. es[i] \in Edge
  BY ElementOfSeq
<1>2. es[i][1] \in 0..(Size - 1) /\ es[i][2] \in 0..MaxValue
  BY <1>1 DEF Edge, Key
<1> QED BY <1>2, IndexAssumption DEF Key

\* The sets of edges are finite, and an edge is in the set of its own key.
LEMMA EdgesOfPrefix ==
  ASSUME NEW es \in Seq(Edge), NEW k
  PROVE  /\ EdgesOf(es, k, 0) = {} /\ Number(es, k, 0) = 0
         /\ \A m \in 0..Len(es) :
              /\ IsFiniteSet(EdgesOf(es, k, m)) /\ Number(es, k, m) \in Nat
              /\ Number(es, k, m) <= Number(es, k, Len(es))
<1>1. EdgesOf(es, k, 0) = {} /\ Number(es, k, 0) = 0
  <2>1. EdgesOf(es, k, 0) = {}
    BY DEF EdgesOf
  <2> QED BY <2>1, FS_EmptySet DEF Number
<1>2. ASSUME NEW m \in 0..Len(es)
      PROVE  /\ IsFiniteSet(EdgesOf(es, k, m)) /\ Number(es, k, m) \in Nat
             /\ EdgesOf(es, k, m) \in SUBSET EdgesOf(es, k, Len(es))
  <2>1. IsFiniteSet(1..m)
    BY FS_Interval
  <2>2. EdgesOf(es, k, m) \in SUBSET (1..m)
    BY DEF EdgesOf
  <2> QED BY <2>1, <2>2, FS_Subset, FS_CardinalityType DEF Number, EdgesOf
<1>3. Len(es) \in 0..Len(es)
  OBVIOUS
<1>4. ASSUME NEW m \in 0..Len(es) PROVE Number(es, k, m) <= Number(es, k, Len(es))
  BY <1>2, <1>3, FS_Subset DEF Number
<1> QED BY <1>1, <1>2, <1>4

LEMMA EdgesOfLast ==
  ASSUME NEW es \in Seq(Edge), NEW k, NEW i \in 1..Len(es)
  PROVE  /\ EdgesOf(es, k, i) =
              (IF es[i][1] = k THEN EdgesOf(es, k, i - 1) \cup {i} ELSE EdgesOf(es, k, i - 1))
         /\ Number(es, k, i) =
              (IF es[i][1] = k THEN Number(es, k, i - 1) + 1 ELSE Number(es, k, i - 1))
         /\ Number(es, k, i - 1) \in Nat /\ Number(es, k, i) \in Nat
         /\ Number(es, k, i) <= Number(es, k, Len(es))
<1>1. i - 1 \in 0..Len(es) /\ i \in 0..Len(es)
  OBVIOUS
<1>2. /\ Number(es, k, i - 1) \in Nat /\ IsFiniteSet(EdgesOf(es, k, i - 1))
      /\ Number(es, k, i) \in Nat /\ Number(es, k, i) <= Number(es, k, Len(es))
  BY <1>1, EdgesOfPrefix
<1>3. EdgesOf(es, k, i) =
        IF es[i][1] = k THEN EdgesOf(es, k, i - 1) \cup {i} ELSE EdgesOf(es, k, i - 1)
  <2>1. \A j : j \in 1..i <=> j \in 1..(i - 1) \/ j = i
    OBVIOUS
  <2> QED BY <2>1 DEF EdgesOf
<1>4. i \notin EdgesOf(es, k, i - 1)
  BY DEF EdgesOf
<1>5. Number(es, k, i) =
        IF es[i][1] = k THEN Number(es, k, i - 1) + 1 ELSE Number(es, k, i - 1)
  BY <1>2, <1>3, <1>4, FS_AddElement DEF Number
<1> QED BY <1>2, <1>3, <1>5

\* The windows lie side by side and cover the positions of all the edges.
LEMMA BelowSums ==
  ASSUME NEW es \in Seq(Edge)
  PROVE  /\ \A k \in Nat : Below(es, k) \in Nat
         /\ Below(es, 0) = 0 /\ Below(es, Size) = Len(es)
         /\ \A k \in Nat : Below(es, k + 1) = Below(es, k) + Number(es, k, Len(es))
         /\ \A j, k \in Nat : j <= k => Below(es, j) <= Below(es, k)
<1>1. Len(es) \in Nat /\ IsFiniteSet(1..Len(es)) /\ Cardinality(1..Len(es)) = Len(es)
  <2>1. Len(es) \in Nat
    OBVIOUS
  <2> QED BY SMTT(40), <2>1, FS_Interval
<1>2. \A k : IsFiniteSet(Smaller(es, k)) /\ Below(es, k) \in Nat
  <2> TAKE k
  <2>1. Smaller(es, k) \in SUBSET (1..Len(es))
    BY DEF Smaller
  <2> QED BY <1>1, <2>1, FS_Subset, FS_CardinalityType DEF Below
<1>3. Below(es, 0) = 0
  <2>1. Smaller(es, 0) = {}
    BY EdgeTypes DEF Smaller
  <2> QED BY <2>1, FS_EmptySet DEF Below
<1>4. Below(es, Size) = Len(es)
  <2>1. Smaller(es, Size) = 1..Len(es)
    <3>1. \A i \in 1..Len(es) : es[i][1] < Size
      BY EdgeTypes, IndexAssumption DEF Key
    <3> QED BY <3>1 DEF Smaller
  <2> QED BY <1>1, <2>1 DEF Below
<1>5. ASSUME NEW k \in Nat PROVE Below(es, k + 1) = Below(es, k) + Number(es, k, Len(es))
  <2>1. Smaller(es, k + 1) = Smaller(es, k) \cup EdgesOf(es, k, Len(es))
    <3>1. \A i \in 1..Len(es) : es[i][1] < k + 1 <=> es[i][1] < k \/ es[i][1] = k
      BY EdgeTypes
    <3> QED BY <3>1 DEF Smaller, EdgesOf
  <2>2. Smaller(es, k) \cap EdgesOf(es, k, Len(es)) = {}
    BY EdgeTypes DEF Smaller, EdgesOf
  <2>3. IsFiniteSet(EdgesOf(es, k, Len(es))) /\ Number(es, k, Len(es)) \in Nat
    <3>1. Len(es) \in 0..Len(es)
      BY <1>1
    <3> QED BY <3>1, EdgesOfPrefix
  <2>4. Cardinality({}) = 0
    BY FS_EmptySet
  <2>5. Below(es, k + 1) = Below(es, k) + Number(es, k, Len(es)) - 0
    BY <1>2, <2>1, <2>2, <2>3, <2>4, FS_Union DEF Below, Number
  <2> QED BY <1>2, <2>3, <2>5
<1>6. ASSUME NEW j \in Nat, NEW k \in Nat, j <= k PROVE Below(es, j) <= Below(es, k)
  <2>1. Smaller(es, j) \in SUBSET Smaller(es, k)
    <3>1. \A i \in 1..Len(es) : es[i][1] < j => es[i][1] < k
      BY <1>6, EdgeTypes
    <3> QED BY <3>1 DEF Smaller
  <2> QED BY <1>2, <2>1, FS_Subset DEF Below
<1> QED BY <1>2, <1>3, <1>4, <1>5, <1>6

(***************************************************************************)
(* The invariant                                                           *)
(***************************************************************************)
\* The cells from lo up to hi hold just the members of V; and they go up.
Holds(m, lo, hi, V) == {m[p] : p \in lo..(hi - 1)} = V
Rising(m, lo, hi) == \A p, q \in lo..(hi - 1) : p < q => m[p] < m[q]

\* The windows of the keys below k lie one behind the other and are exact.
Compacted(es, o, m, k) ==
  /\ \A i, j \in 0..k : i <= j => o[i] <= o[j]
  /\ \A j \in 0..(k - 1) : /\ Rising(m, o[j], o[j + 1])
                           /\ Holds(m, o[j], o[j + 1], Values(es, j, Len(es)))

\* The windows from k on are where they were and hold what they held.
Ahead(es, o, m, k) ==
  /\ \A j \in k..Size : o[j] = Below(es, j)
  /\ \A j \in k..(Size - 1) : Holds(m, Below(es, j), Below(es, j + 1), Values(es, j, Len(es)))

N == Len(edges)

Shape ==
  /\ edges \in Seq(Edge) /\ contiguous \in BOOLEAN /\ (contiguous => InOrder(edges))
  /\ pc \in {"count", "prefix", "fill", "window", "compact", "done", "panic"}
  /\ at \in Nat /\ key \in 0..Size /\ total \in Nat /\ n \in Nat
  /\ offsets \in [0..Size -> Nat]
  /\ pc \notin {"count", "panic"} => total = N /\ total <= MaxUint
  /\ pc \in {"fill", "window", "compact"} => ~contiguous /\ members \in [0..(N - 1) -> Nat]
  /\ pc \in {"count", "prefix", "fill"} => n = 0 /\ key = 0

Counting ==
  pc = "count" =>
    /\ at \in 1..(N + 1) /\ total = at - 1 /\ total <= MaxUint
    /\ offsets[0] = 0 /\ \A k \in Key : offsets[k + 1] = Number(edges, k, at - 1)

Summing ==
  pc = "prefix" =>
    /\ at \in 1..(Size + 1)
    /\ \A k \in 0..Size :
         offsets[k] = IF k < at THEN Below(edges, k) ELSE Number(edges, k - 1, N)

Filling ==
  pc = "fill" =>
    /\ at \in 1..(N + 1) /\ cursor \in [Key -> Nat]
    /\ \A k \in 0..Size : offsets[k] = Below(edges, k)
    /\ \A k \in Key :
         /\ cursor[k] = Below(edges, k) + Number(edges, k, at - 1)
         /\ Holds(members, Below(edges, k), cursor[k], Values(edges, k, at - 1))

Between ==
  pc = "window" =>
    /\ n <= Below(edges, key)
    /\ Ahead(edges, offsets, members, key)
    /\ Compacted(edges, [offsets EXCEPT ![key] = n], members, key)

\* What is kept of a window and what is left of it make up the values of its key.
Compacting ==
  LET lo == Below(edges, key)  hi == Below(edges, key + 1)  first == offsets[key]
  IN pc = "compact" =>
       /\ key \in Key /\ start = lo /\ at \in lo..hi
       /\ Ahead(edges, offsets, members, key + 1)
       /\ Compacted(edges, offsets, members, key)
       /\ first <= n /\ n <= at
       /\ \A p, q \in at..(hi - 1) : p < q => members[p] <= members[q]
       /\ Rising(members, first, n)
       /\ {members[p] : p \in first..(n - 1)} \cup {members[p] : p \in at..(hi - 1)}
            = Values(edges, key, N)
       /\ IF at = lo THEN n = first
          ELSE first < n /\ previous = members[n - 1]
               /\ \A q \in at..(hi - 1) : previous <= members[q]

Finished ==
  pc = "done" =>
    IF contiguous THEN \A k \in 0..Size : offsets[k] = Below(edges, k)
    ELSE Compacted(edges, offsets, members, Size)

Inv == Shape /\ Counting /\ Summing /\ Filling /\ Between /\ Compacting /\ Finished

\* What a change of the members beyond o[k], or before the window of k, leaves alone.
LEMMA CompactedKept ==
  ASSUME NEW es, NEW o, NEW k \in Nat, NEW m, NEW w, Compacted(es, o, m, k),
         \A i \in 0..k : o[i] \in Nat,
         \A p \in Nat : p < o[k] => w[p] = m[p]
  PROVE  Compacted(es, o, w, k)
<1>1. \A i, j \in 0..k : i <= j => o[i] <= o[j]
  BY DEF Compacted
<1>2. ASSUME NEW j \in 0..(k - 1)
      PROVE  Rising(w, o[j], o[j + 1]) /\ Holds(w, o[j], o[j + 1], Values(es, j, Len(es)))
  <2>1. j \in 0..k /\ j + 1 \in 0..k /\ k \in 0..k
    OBVIOUS
  <2>2. o[j] \in Nat /\ o[j + 1] \in Nat /\ o[k] \in Nat /\ o[j + 1] <= o[k]
    BY <1>1, <2>1
  <2>3. \A p \in o[j]..(o[j + 1] - 1) : w[p] = m[p]
    BY <2>2
  <2>4. Rising(m, o[j], o[j + 1]) /\ Holds(m, o[j], o[j + 1], Values(es, j, Len(es)))
    BY DEF Compacted
  <2> QED BY <2>3, <2>4 DEF Rising, Holds
<1> QED BY <1>1, <1>2 DEF Compacted

LEMMA AheadKept ==
  ASSUME NEW es \in Seq(Edge), NEW o, NEW k \in Nat, NEW m, NEW w, Ahead(es, o, m, k),
         \A p \in Nat : p >= Below(es, k) => w[p] = m[p]
  PROVE  Ahead(es, o, w, k)
<1>1. ASSUME NEW j \in k..(Size - 1)
      PROVE  Holds(w, Below(es, j), Below(es, j + 1), Values(es, j, Len(es)))
  <2>1. j \in Nat /\ j + 1 \in Nat /\ k <= j
    OBVIOUS
  <2>2. Below(es, k) \in Nat /\ Below(es, j) \in Nat /\ Below(es, j + 1) \in Nat
        /\ Below(es, k) <= Below(es, j)
    BY <2>1, BelowSums
  <2>3. \A p \in Below(es, j)..(Below(es, j + 1) - 1) : w[p] = m[p]
    BY <2>2
  <2>4. Holds(m, Below(es, j), Below(es, j + 1), Values(es, j, Len(es)))
    BY DEF Ahead
  <2> QED BY <2>3, <2>4 DEF Holds
<1> QED BY <1>1 DEF Ahead

\* The next window is exact as well.
LEMMA CompactedNext ==
  ASSUME NEW es, NEW o, NEW k \in Nat, NEW m, NEW h \in Nat, NEW u, Compacted(es, o, m, k),
         \A i \in 0..k : o[i] \in Nat,
         \A i \in 0..k : u[i] = o[i], u[k + 1] = h, o[k] <= h,
         Rising(m, o[k], h), Holds(m, o[k], h, Values(es, k, Len(es)))
  PROVE  Compacted(es, u, m, k + 1)
<1>1. \A i \in 0..k : u[i] = o[i] /\ u[i] \in Nat /\ u[i] <= h
  BY DEF Compacted
<1>2. \A i \in 0..(k + 1) : i \in 0..k \/ i = k + 1
  OBVIOUS
<1>3. \A i, j \in 0..(k + 1) : i <= j => u[i] <= u[j]
  <2> TAKE i, j \in 0..(k + 1)
  <2> HAVE i <= j
  <2>1. CASE j = k + 1
    BY <1>1, <1>2, <2>1
  <2>2. CASE j # k + 1
    <3>1. i \in 0..k /\ j \in 0..k
      BY <2>2
    <3> QED BY <1>1, <3>1 DEF Compacted
  <2> QED BY <2>1, <2>2
<1>4. ASSUME NEW j \in 0..k
      PROVE  Rising(m, u[j], u[j + 1]) /\ Holds(m, u[j], u[j + 1], Values(es, j, Len(es)))
  <2>1. CASE j = k
    BY <1>1, <2>1
  <2>2. CASE j # k
    <3>1. j \in 0..(k - 1) /\ j + 1 \in 0..k
      BY <2>2
    <3>2. u[j] = o[j] /\ u[j + 1] = o[j + 1]
      BY <3>1
    <3> QED BY <3>1, <3>2 DEF Compacted
  <2> QED BY <2>1, <2>2
<1>5. (k + 1) - 1 = k
  OBVIOUS
<1> QED BY <1>3, <1>4, <1>5 DEF Compacted

(***************************************************************************)
(* The steps                                                               *)
(***************************************************************************)
LEMMA InitHolds == Init => Inv
<1> SUFFICES ASSUME Init PROVE Inv
  OBVIOUS
<1>1. edges \in Seq(Edge) /\ N \in Nat
  <2>1. PICK m \in 0..MaxEdges : edges \in [1..m -> Edge]
    BY DEF Init
  <2>2. m \in Nat
    BY IndexAssumption
  <2> QED BY <2>1, <2>2, IsASeq DEF N
<1>2. Shape
  BY <1>1, IndexAssumption DEF Init, Shape
<1>3. Counting
  <2>1. 0 \in 0..Len(edges) /\ 1 - 1 = 0
    BY <1>1 DEF N
  <2>2. \A k \in Key : Number(edges, k, 0) = 0
    BY <1>1, EdgesOfPrefix
  <2>3. \A k \in Key : k + 1 \in 0..Size
    BY IndexAssumption DEF Key
  <2> QED BY <1>1, <2>1, <2>2, <2>3, IndexAssumption DEF Init, Counting
<1> QED
  BY <1>2, <1>3 DEF Init, Inv, Summing, Filling, Between, Compacting, Finished

LEMMA CountKeeps == Inv /\ Count => Inv'
<1> SUFFICES ASSUME Inv, Count PROVE Inv'
  OBVIOUS
<1> DEFINE k0 == edges[at][1]
<1>1. /\ pc = "count" /\ at \in 1..N /\ total < MaxUint /\ total' = total + 1
      /\ offsets' = [offsets EXCEPT ![k0 + 1] = @ + 1] /\ pc' = "count" /\ at' = at + 1
      /\ UNCHANGED <<edges, contiguous, key, n>>
  BY DEF Count, Goto, Inv, Shape, Counting, N
<1>2. edges \in Seq(Edge) /\ N \in Nat /\ N' = N /\ offsets \in [0..Size -> Nat]
      /\ total = at - 1 /\ offsets[0] = 0 /\ \A k \in Key : offsets[k + 1] = Number(edges, k, at - 1)
  BY <1>1 DEF Inv, Shape, Counting, N
<1>3. k0 \in Key /\ k0 \in Nat /\ k0 + 1 \in 0..Size
  BY <1>1, <1>2, EdgeTypes DEF N
<1> HIDE DEF k0
<1>4. offsets' \in [0..Size -> Nat] /\ offsets'[0] = 0
      /\ \A i \in 0..Size : offsets'[i] = (IF i = k0 + 1 THEN offsets[i] + 1 ELSE offsets[i])
  BY <1>1, <1>2, <1>3, IndexAssumption
<1>5. Shape'
  BY <1>1, <1>2, <1>4 DEF Inv, Shape
<1>6. ASSUME NEW k \in Key PROVE offsets'[k + 1] = Number(edges, k, at' - 1)
  <2>1. at - 1 \in 0..Len(edges) /\ at - 1 < Len(edges) /\ (at - 1) + 1 = at /\ at' - 1 = at
    BY <1>1, <1>2 DEF N
  <2>2. Number(edges, k, at) =
          IF k0 = k THEN Number(edges, k, at - 1) + 1 ELSE Number(edges, k, at - 1)
    <3>1. edges \in Seq(Edge) /\ at \in 1..Len(edges)
      BY <1>1, <1>2 DEF N
    <3> QED BY <3>1, EdgesOfLast DEF k0
  <2>3. k + 1 \in 0..Size /\ k \in Nat
    BY IndexAssumption DEF Key
  <2> QED BY <1>2, <1>3, <1>4, <2>1, <2>2, <2>3
<1>7. Counting'
  BY <1>1, <1>2, <1>4, <1>6, IndexAssumption DEF Counting, Inv, Shape
<1> QED
  BY <1>1, <1>5, <1>7 DEF Inv, Summing, Filling, Between, Compacting, Finished

LEMMA CountEndKeeps == Inv /\ CountEnd => Inv'
<1> SUFFICES ASSUME Inv, CountEnd PROVE Inv'
  OBVIOUS
<1>1. /\ pc = "count" /\ at > N /\ pc' = "prefix" /\ at' = 1
      /\ UNCHANGED <<edges, contiguous, key, total, offsets, n>>
  BY DEF CountEnd, Goto, data, N
<1>2. edges \in Seq(Edge) /\ N \in Nat /\ N' = N /\ offsets \in [0..Size -> Nat]
      /\ at = N + 1 /\ total = N /\ total <= MaxUint
      /\ offsets[0] = 0 /\ \A k \in Key : offsets[k + 1] = Number(edges, k, N)
  BY <1>1 DEF Inv, Shape, Counting, N
<1>3. Shape'
  BY <1>1, <1>2 DEF Inv, Shape
<1>4. Summing'
  <2>1. ASSUME NEW k \in 0..Size
        PROVE  offsets[k] = IF k < 1 THEN Below(edges, k) ELSE Number(edges, k - 1, N)
    <3>1. CASE k = 0
      BY <1>2, <3>1, BelowSums
    <3>2. CASE k # 0
      <4>1. k - 1 \in Key /\ (k - 1) + 1 = k /\ ~(k < 1)
        BY <3>2, IndexAssumption DEF Key
      <4> QED BY <1>2, <4>1
    <3> QED BY <3>1, <3>2
  <2> QED BY <1>1, <1>2, <2>1, IndexAssumption DEF Summing
<1> QED
  BY <1>1, <1>3, <1>4 DEF Inv, Counting, Filling, Between, Compacting, Finished

LEMMA PrefixKeeps == Inv /\ Prefix => Inv'
<1> SUFFICES ASSUME Inv, Prefix PROVE Inv'
  OBVIOUS
<1>1. /\ pc = "prefix" /\ at <= Size /\ pc' = "prefix" /\ at' = at + 1
      /\ offsets' = [offsets EXCEPT ![at] = @ + offsets[at - 1]]
      /\ UNCHANGED <<edges, contiguous, key, total, n>>
  BY DEF Prefix, Goto
<1>2. /\ edges \in Seq(Edge) /\ N \in Nat /\ N' = N /\ offsets \in [0..Size -> Nat]
      /\ at \in 1..Size
      /\ \A k \in 0..Size :
           offsets[k] = IF k < at THEN Below(edges, k) ELSE Number(edges, k - 1, N)
  BY <1>1, IndexAssumption DEF Inv, Shape, Summing, N
<1>3. at - 1 \in 0..Size /\ at - 1 \in Nat /\ at \in 0..Size /\ (at - 1) + 1 = at
  BY <1>2, IndexAssumption
<1>4. offsets[at] + offsets[at - 1] = Below(edges, at)
  <2>1. offsets[at - 1] = Below(edges, at - 1) /\ offsets[at] = Number(edges, at - 1, N)
    BY <1>2, <1>3
  <2>2. Below(edges, at) = Below(edges, at - 1) + Number(edges, at - 1, N)
    BY <1>2, <1>3, BelowSums DEF N
  <2>3. offsets[at] \in Nat /\ offsets[at - 1] \in Nat
    BY <1>2, <1>3
  <2> QED BY <2>1, <2>2, <2>3
<1>5. offsets' \in [0..Size -> Nat]
      /\ \A k \in 0..Size : offsets'[k] = IF k = at THEN Below(edges, at) ELSE offsets[k]
  BY <1>1, <1>2, <1>3, <1>4
<1>6. Shape'
  BY <1>1, <1>2, <1>5 DEF Inv, Shape
<1>7. Summing'
  <2>1. ASSUME NEW k \in 0..Size
        PROVE  offsets'[k] = IF k < at + 1 THEN Below(edges, k) ELSE Number(edges, k - 1, N)
    <3>1. CASE k = at
      BY <1>2, <1>5, <3>1
    <3>2. CASE k # at
      <4>1. k < at + 1 <=> k < at
        BY <1>2, <3>2
      <4> QED BY <1>2, <1>5, <3>2, <4>1
    <3> QED BY <3>1, <3>2
  <2>2. at + 1 \in 1..(Size + 1)
    BY <1>2, IndexAssumption
  <2> QED BY <1>1, <1>2, <2>1, <2>2 DEF Summing
<1> QED
  BY <1>1, <1>6, <1>7 DEF Inv, Counting, Filling, Between, Compacting, Finished

\* Behind the last turn of prefixIndexCounts.
LEMMA Summed ==
  ASSUME Inv, pc = "prefix", at > Size
  PROVE  \A k \in 0..Size : offsets[k] = Below(edges, k)
BY IndexAssumption DEF Inv, Summing

LEMMA ContiguousDoneKeeps == Inv /\ ContiguousDone => Inv'
<1> SUFFICES ASSUME Inv, ContiguousDone PROVE Inv'
  OBVIOUS
<1>1. /\ pc = "prefix" /\ at > Size /\ contiguous /\ pc' = "done" /\ at' = 0
      /\ UNCHANGED <<edges, contiguous, key, total, offsets, n>>
  BY DEF ContiguousDone, Goto, data
<1>2. Shape'
  BY <1>1 DEF Inv, Shape, N
<1>3. Finished'
  BY <1>1, Summed DEF Finished
<1> QED
  BY <1>1, <1>2, <1>3 DEF Inv, Counting, Summing, Filling, Between, Compacting

LEMMA CursorsKeeps == Inv /\ Cursors => Inv'
<1> SUFFICES ASSUME Inv, Cursors PROVE Inv'
  OBVIOUS
<1>1. /\ pc = "prefix" /\ at > Size /\ ~contiguous /\ pc' = "fill" /\ at' = 1
      /\ members' = [p \in 0..(offsets[Size] - 1) |-> 0]
      /\ cursor' = [k \in Key |-> offsets[k]]
      /\ UNCHANGED <<edges, contiguous, key, total, offsets, n>>
  BY DEF Cursors, Goto
<1>2. /\ edges \in Seq(Edge) /\ N \in Nat /\ N' = N /\ offsets \in [0..Size -> Nat]
      /\ \A k \in 0..Size : offsets[k] = Below(edges, k)
  BY <1>1, Summed DEF Inv, Shape, N
<1>3. offsets[Size] = N
  BY <1>2, BelowSums, IndexAssumption DEF N
<1>4. members' \in [0..(N - 1) -> Nat]
  BY <1>1, <1>3
<1>5. Shape'
  BY <1>1, <1>2, <1>4 DEF Inv, Shape
<1>6. ASSUME NEW k \in Key
      PROVE  /\ k \in 0..Size /\ cursor'[k] = Below(edges, k) + Number(edges, k, 0)
             /\ Holds(members', Below(edges, k), cursor'[k], Values(edges, k, 0))
  <2>1. k \in Nat /\ k \in 0..Size
    BY IndexAssumption DEF Key
  <2>2. EdgesOf(edges, k, 0) = {} /\ Number(edges, k, 0) = 0
    BY <1>2, EdgesOfPrefix
  <2>3. Below(edges, k) \in Nat /\ cursor'[k] = Below(edges, k)
    BY <1>1, <1>2, <2>1, BelowSums
  <2>4. Values(edges, k, 0) = {}
    BY <2>2 DEF Values
  <2>5. Below(edges, k)..(Below(edges, k) - 1) = {}
    BY <2>3
  <2> QED BY <2>1, <2>2, <2>3, <2>4, <2>5 DEF Holds
<1>7. Filling'
  <2>1. cursor' \in [Key -> Nat]
    BY <1>1, <1>2, <1>6
  <2>2. at' \in 1..(N' + 1) /\ at' - 1 = 0
    BY <1>1, <1>2
  <2>3. \A k \in Key :
          /\ cursor'[k] = Below(edges', k) + Number(edges', k, at' - 1)
          /\ Holds(members', Below(edges', k), cursor'[k], Values(edges', k, at' - 1))
    BY <1>1, <1>6, <2>2
  <2> QED BY <1>1, <1>2, <2>1, <2>2, <2>3 DEF Filling
<1> QED
  BY <1>1, <1>5, <1>7 DEF Inv, Counting, Summing, Between, Compacting, Finished

LEMMA FillKeeps == Inv /\ Fill => Inv'
<1> SUFFICES ASSUME Inv, Fill PROVE Inv'
  OBVIOUS
<1> DEFINE k0 == edges[at][1]
           v == edges[at][2]
           c == cursor[k0]
<1>1. /\ pc = "fill" /\ at <= Len(edges) /\ pc' = "fill" /\ at' = at + 1
      /\ members' = [members EXCEPT ![c] = v]
      /\ cursor' = [cursor EXCEPT ![k0] = @ + 1]
      /\ UNCHANGED <<edges, contiguous, key, total, offsets, n>>
  BY DEF Fill, Goto
<1>2. /\ edges \in Seq(Edge) /\ N \in Nat /\ N' = N
      /\ members \in [0..(N - 1) -> Nat]
      /\ at \in 1..N /\ cursor \in [Key -> Nat]
      /\ \A k \in 0..Size : offsets[k] = Below(edges, k)
      /\ \A k \in Key :
           /\ cursor[k] = Below(edges, k) + Number(edges, k, at - 1)
           /\ Holds(members, Below(edges, k), cursor[k], Values(edges, k, at - 1))
  BY <1>1 DEF Inv, Shape, Filling, N
<1>3. k0 \in Key /\ k0 \in Nat /\ v \in Nat /\ k0 < Size
  <2>1. k0 \in Key /\ k0 \in Nat /\ v \in Nat
    BY <1>2, EdgeTypes DEF N
  <2> QED BY <2>1, IndexAssumption DEF Key
<1>4. c \in Nat
  BY <1>2, <1>3
<1> HIDE DEF k0, v, c
<1>5. ASSUME NEW k \in Key
      PROVE  /\ k \in Nat /\ k + 1 \in Nat /\ k + 1 \in 0..Size
             /\ Below(edges, k) \in Nat /\ Below(edges, k + 1) \in Nat
             /\ Number(edges, k, at) = (IF k0 = k THEN Number(edges, k, at - 1) + 1
                                        ELSE Number(edges, k, at - 1))
             /\ Number(edges, k, at - 1) \in Nat
             /\ Below(edges, k) + Number(edges, k, at) <= Below(edges, k + 1)
             /\ Below(edges, k + 1) <= N
             /\ EdgesOf(edges, k, at) = (IF k0 = k THEN EdgesOf(edges, k, at - 1) \cup {at}
                                         ELSE EdgesOf(edges, k, at - 1))
  <2>1. k \in Nat /\ k + 1 \in Nat /\ k + 1 <= Size /\ Size \in Nat /\ k + 1 \in 0..Size
    BY IndexAssumption DEF Key
  <2>2. /\ Below(edges, k) \in Nat /\ Below(edges, k + 1) \in Nat
        /\ Below(edges, k + 1) = Below(edges, k) + Number(edges, k, N)
        /\ Below(edges, k + 1) <= N
    BY <1>2, <2>1, BelowSums DEF N
  <2>3. /\ Number(edges, k, at) \in Nat /\ Number(edges, k, at - 1) \in Nat
        /\ Number(edges, k, at) <= Number(edges, k, N)
        /\ Number(edges, k, at) = (IF k0 = k THEN Number(edges, k, at - 1) + 1
                                   ELSE Number(edges, k, at - 1))
        /\ EdgesOf(edges, k, at) = (IF k0 = k THEN EdgesOf(edges, k, at - 1) \cup {at}
                                    ELSE EdgesOf(edges, k, at - 1))
    BY <1>2, EdgesOfLast DEF N, k0
  <2>4. Number(edges, k, N) \in Nat
    BY <1>2, EdgesOfLast DEF N
  <2> QED BY <2>1, <2>2, <2>3, <2>4
<1>6. c = Below(edges, k0) + Number(edges, k0, at - 1)
      /\ Below(edges, k0) <= c /\ c < Below(edges, k0 + 1) /\ c <= N - 1
  BY SMTT(40), <1>2, <1>3, <1>4, <1>5 DEF c
<1>7. /\ members' \in [0..(N - 1) -> Nat] /\ members'[c] = v
      /\ \A p \in 0..(N - 1) : p # c => members'[p] = members[p]
  BY <1>1, <1>2, <1>3, <1>4, <1>6
<1>8. cursor' \in [Key -> Nat] /\ cursor'[k0] = c + 1
      /\ \A k \in Key : k # k0 => cursor'[k] = cursor[k]
  BY <1>1, <1>2, <1>3, <1>4 DEF c
<1>9. ASSUME NEW k \in Key
      PROVE  /\ cursor'[k] = Below(edges, k) + Number(edges, k, at)
             /\ Holds(members', Below(edges, k), cursor'[k], Values(edges, k, at))
  <2>1. /\ cursor[k] = Below(edges, k) + Number(edges, k, at - 1)
        /\ {members[p] : p \in Below(edges, k)..(cursor[k] - 1)} = Values(edges, k, at - 1)
        /\ cursor[k] \in Nat
    BY <1>2 DEF Holds
  <2>2. CASE k = k0
    <3>1. cursor[k] = c /\ cursor'[k] = c + 1
      BY <1>8, <2>2 DEF c
    <3>2. \A p \in Below(edges, k)..(c - 1) : members'[p] = members[p]
      <4>1. Below(edges, k) \in Nat /\ N \in Nat /\ c <= N - 1
        BY <1>2, <1>5, <1>6
      <4>2. \A p \in Below(edges, k)..(c - 1) : p \in 0..(N - 1) /\ p # c
        BY <1>4, <4>1
      <4> QED BY <1>7, <4>2
    <3>3. \A p : p \in Below(edges, k)..((c + 1) - 1) <=> p \in Below(edges, k)..(c - 1) \/ p = c
      BY <1>4, <1>5, <1>6, <2>2
    <3>4. {members'[p] : p \in Below(edges, k)..((c + 1) - 1)} = Values(edges, k, at - 1) \cup {v}
      BY <1>7, <2>1, <3>1, <3>2, <3>3
    <3>5. Values(edges, k, at) = Values(edges, k, at - 1) \cup {v}
      BY <1>5, <2>2 DEF Values, v
    <3> QED BY <1>4, <1>5, <2>1, <2>2, <3>1, <3>4, <3>5 DEF Holds
  <2>3. CASE k # k0
    <3>1. cursor'[k] = cursor[k] /\ Number(edges, k, at) = Number(edges, k, at - 1)
      BY <1>5, <1>8, <2>3
    <3>2. cursor[k] <= Below(edges, k + 1) /\ Below(edges, k + 1) <= N
      BY <1>5, <2>1, <3>1
    <3>3. \A p \in Below(edges, k)..(cursor[k] - 1) : p # c /\ p \in 0..(N - 1)
      <4>1. Below(edges, k + 1) <= Below(edges, k0) \/ Below(edges, k0 + 1) <= Below(edges, k)
        <5>1. k + 1 <= k0 \/ k0 + 1 <= k
          BY <1>3, <1>5, <2>3
        <5> QED BY <1>2, <1>3, <1>5, <5>1, BelowSums
      <4> DEFINE lo == Below(edges, k)
                 hi == Below(edges, k + 1)
                 lo0 == Below(edges, k0)
                 hi0 == Below(edges, k0 + 1)
                 l == cursor[k]
      <4>2. /\ lo \in Nat /\ hi \in Nat /\ lo0 \in Nat /\ hi0 \in Nat /\ N \in Nat /\ l \in Nat
            /\ hi <= lo0 \/ hi0 <= lo
            /\ l <= hi /\ hi <= N /\ lo0 <= c /\ c < hi0
        BY <1>2, <1>3, <1>5, <1>6, <2>1, <3>2, <4>1
      <4> HIDE DEF lo, hi, lo0, hi0, l
      <4>3. \A p \in lo..(l - 1) : p # c /\ p \in 0..(N - 1)
        BY <1>4, <4>2
      <4> QED BY <4>3 DEF lo, l
    <3>4. \A p \in Below(edges, k)..(cursor[k] - 1) : members'[p] = members[p]
      BY <1>7, <3>3
    <3>5. Values(edges, k, at) = Values(edges, k, at - 1)
      BY <1>5, <2>3 DEF Values
    <3> QED BY <2>1, <3>1, <3>4, <3>5 DEF Holds
  <2> QED BY <2>2, <2>3
<1>10. Shape'
  BY <1>1, <1>2, <1>7 DEF Inv, Shape
<1>11. Filling'
  <2>1. at + 1 \in 1..(N + 1) /\ (at + 1) - 1 = at
    BY <1>2
  <2> QED BY <1>1, <1>2, <1>8, <1>9, <2>1 DEF Filling
<1> QED
  BY <1>1, <1>10, <1>11 DEF Inv, Counting, Summing, Between, Compacting, Finished

LEMMA FillEndKeeps == Inv /\ FillEnd => Inv'
<1> SUFFICES ASSUME Inv, FillEnd PROVE Inv'
  OBVIOUS
<1>1. /\ pc = "fill" /\ at > Len(edges) /\ pc' = "window" /\ at' = 0 /\ key' = 0
      /\ UNCHANGED <<edges, contiguous, total, offsets, members, n>>
  BY DEF FillEnd, Goto, data
<1>2. /\ edges \in Seq(Edge) /\ N \in Nat /\ N' = N /\ n = 0 /\ at = N + 1
      /\ offsets \in [0..Size -> Nat]
      /\ \A k \in 0..Size : offsets[k] = Below(edges, k)
      /\ \A k \in Key :
           /\ cursor[k] = Below(edges, k) + Number(edges, k, N)
           /\ Holds(members, Below(edges, k), cursor[k], Values(edges, k, N))
  BY <1>1 DEF Inv, Shape, Filling, N
<1>3. Ahead(edges, offsets, members, 0)
  <2>1. ASSUME NEW k \in 0..(Size - 1)
        PROVE  Holds(members, Below(edges, k), Below(edges, k + 1), Values(edges, k, Len(edges)))
    <3>1. k \in Key /\ k \in Nat
      BY DEF Key
    <3>2. Below(edges, k + 1) = Below(edges, k) + Number(edges, k, N)
      BY <1>2, <3>1, BelowSums DEF N
    <3> QED BY <1>2, <3>1, <3>2 DEF N
  <2> QED BY <1>2, <2>1 DEF Ahead
<1>4. Compacted(edges, [offsets EXCEPT ![0] = n], members, 0)
  <2>1. [offsets EXCEPT ![0] = n][0] = 0
    BY <1>2, IndexAssumption
  <2> DEFINE o == [offsets EXCEPT ![0] = n]
  <2>2. o[0] = 0
    BY <2>1
  <2> HIDE DEF o
  <2>3. Compacted(edges, o, members, 0)
    <3>1. \A i \in 0..0 : i = 0
      OBVIOUS
    <3>2. 0..(0 - 1) = {}
      OBVIOUS
    <3> QED BY <2>2, <3>1, <3>2 DEF Compacted
  <2> QED BY <2>3 DEF o
<1>5. Shape'
  BY <1>1, <1>2, IndexAssumption DEF Inv, Shape
<1>6. Between'
  <2>1. Below(edges, 0) = 0
    BY <1>2, BelowSums
  <2> QED BY <1>1, <1>2, <1>3, <1>4, <2>1 DEF Between
<1> QED
  BY <1>1, <1>5, <1>6 DEF Inv, Counting, Summing, Filling, Compacting, Finished

\* The bounds of a key's window.
LEMMA WindowBounds ==
  ASSUME NEW es \in Seq(Edge), NEW k \in Key
  PROVE  /\ k \in Nat /\ k + 1 \in Nat /\ k \in 0..Size /\ k + 1 \in 0..Size
         /\ Below(es, k) \in Nat /\ Below(es, k + 1) \in Nat /\ Len(es) \in Nat
         /\ Below(es, k) <= Below(es, k + 1) /\ Below(es, k + 1) <= Len(es)
<1>1. k \in Nat /\ k + 1 \in Nat /\ k \in 0..Size /\ k + 1 \in 0..Size
      /\ k <= k + 1 /\ k + 1 <= Size /\ Size \in Nat
  BY IndexAssumption DEF Key
<1> QED BY <1>1, BelowSums

LEMMA WindowKeeps == Inv /\ Window => Inv'
<1> SUFFICES ASSUME Inv, Window PROVE Inv'
  OBVIOUS
<1> DEFINE lo == Below(edges, key)
           hi == Below(edges, key + 1)
           window == lo..(hi - 1)
<1>1. /\ edges \in Seq(Edge) /\ N \in Nat /\ N' = N /\ members \in [0..(N - 1) -> Nat]
      /\ offsets \in [0..Size -> Nat] /\ n \in Nat /\ pc = "window" /\ key \in Key
      /\ n <= lo /\ Ahead(edges, offsets, members, key)
      /\ Compacted(edges, [offsets EXCEPT ![key] = n], members, key)
  <2>1. pc = "window" /\ key < Size /\ UNCHANGED edges
    BY DEF Window, WindowWith
  <2>2. key \in Key
    BY <2>1, IndexAssumption DEF Inv, Shape, Key
  <2> QED BY <2>1, <2>2 DEF Inv, Shape, Between, N
<1>2. /\ key \in Nat /\ key + 1 \in Nat /\ key \in 0..Size /\ key + 1 \in 0..Size
      /\ lo \in Nat /\ hi \in Nat /\ lo <= hi /\ hi <= N
  BY <1>1, WindowBounds DEF N
<1>3. offsets[key] = lo /\ offsets[key + 1] = hi
  <2>1. key \in key..Size /\ key + 1 \in key..Size
    BY <1>2
  <2> QED BY <1>1, <2>1 DEF Ahead
<1> HIDE DEF lo, hi
<1>4. /\ offsets' = [offsets EXCEPT ![key] = n] /\ start' = lo
      /\ pc' = "compact" /\ at' = lo
      /\ UNCHANGED <<edges, contiguous, key, total, n>>
  BY <1>3 DEF Window, WindowWith, Goto
<1>5. PICK from \in Bijection(window, window) :
        /\ \A p, q \in window : p < q => members[from[p]] <= members[from[q]]
        /\ members' = [p \in 0..(N - 1) |-> members[IF p \in window THEN from[p] ELSE p]]
  <2>1. PICK from \in Sortings(window) :
          members' = [p \in DOMAIN members |-> members[IF p \in DOMAIN from THEN from[p] ELSE p]]
    BY <1>3 DEF Window, WindowWith
  <2>2. DOMAIN from = window /\ DOMAIN members = 0..(N - 1)
    BY <1>1, <2>1 DEF Sortings, Bijection, Injection
  <2> QED BY <2>1, <2>2 DEF Sortings
<1>6. /\ \A p \in window : from[p] \in window
      /\ \A t \in window : \E p \in window : from[p] = t
      /\ \A p \in window : p \in 0..(N - 1)
  <2>1. \A p \in window : p \in 0..(N - 1)
    BY <1>1, <1>2
  <2> QED BY <1>5, <2>1 DEF Bijection, Injection, Surjection
<1> HIDE DEF window
<1>7. /\ members' \in [0..(N - 1) -> Nat]
      /\ \A p \in window : members'[p] = members[from[p]]
      /\ \A p \in 0..(N - 1) : p \notin window => members'[p] = members[p]
  BY <1>1, <1>5, <1>6
<1>8. offsets' \in [0..Size -> Nat] /\ offsets'[key] = n
      /\ \A k \in 0..Size : k # key => offsets'[k] = offsets[k]
  BY <1>1, <1>2, <1>4
<1>9. {members'[p] : p \in window} = Values(edges, key, N)
  <2>1. {members[p] : p \in window} = Values(edges, key, N)
    <3>1. key \in key..(Size - 1)
      BY <1>1, <1>2, IndexAssumption DEF Key
    <3> QED BY <1>1, <3>1 DEF Ahead, Holds, lo, hi, window, N
  <2>2. ASSUME NEW p \in window PROVE members'[p] \in {members[q] : q \in window}
    BY <1>6, <1>7
  <2>3. ASSUME NEW q \in window PROVE members[q] \in {members'[p] : p \in window}
    BY <1>6, <1>7
  <2> QED BY <2>1, <2>2, <2>3
<1>10. Ahead(edges, offsets', members', key + 1)
  <2>1. Ahead(edges, offsets, members, key + 1)
    <3>1. \A j \in (key + 1)..Size : j \in key..Size
      BY <1>2
    <3>2. \A j \in (key + 1)..(Size - 1) : j \in key..(Size - 1)
      BY <1>2, IndexAssumption
    <3> QED BY <1>1, <3>1, <3>2 DEF Ahead
  <2>2. ASSUME NEW j \in (key + 1)..(Size - 1)
        PROVE  Holds(members', Below(edges, j), Below(edges, j + 1), Values(edges, j, Len(edges)))
    <3>1. j \in Key /\ j \in Nat /\ key + 1 <= j
      BY <1>2, IndexAssumption DEF Key
    <3>2. /\ Below(edges, j) \in Nat /\ Below(edges, j + 1) \in Nat
          /\ Below(edges, j + 1) <= N /\ hi <= Below(edges, j)
      BY <1>1, <1>2, <3>1, WindowBounds, BelowSums DEF N, hi
    <3>3. \A p \in Below(edges, j)..(Below(edges, j + 1) - 1) : p \in 0..(N - 1) /\ p \notin window
      BY <1>1, <1>2, <3>2 DEF window
    <3>4. \A p \in Below(edges, j)..(Below(edges, j + 1) - 1) : members'[p] = members[p]
      BY <1>7, <3>3
    <3>5. Holds(members, Below(edges, j), Below(edges, j + 1), Values(edges, j, Len(edges)))
      BY <2>1 DEF Ahead
    <3> QED BY <3>4, <3>5 DEF Holds
  <2>3. \A j \in (key + 1)..Size : offsets'[j] = Below(edges, j)
    <3>1. \A j \in (key + 1)..Size : j \in 0..Size /\ j # key
      BY <1>2
    <3> QED BY <1>8, <2>1, <3>1 DEF Ahead
  <2> QED BY <2>2, <2>3 DEF Ahead
<1>11. Compacted(edges, offsets', members', key)
  <2>1. Compacted(edges, offsets', members, key)
    BY <1>1, <1>4
  <2>2. \A i \in 0..key : offsets'[i] \in Nat
    <3>1. \A i \in 0..key : i \in 0..Size
      BY <1>2, IndexAssumption
    <3> QED BY <1>8, <3>1
  <2>3. \A p \in Nat : p < offsets'[key] => members'[p] = members[p]
    <3> SUFFICES ASSUME NEW p \in Nat, p < n PROVE members'[p] = members[p]
      BY <1>8
    <3>1. p \notin window /\ p < N
      BY <1>1, <1>2 DEF window
    <3>2. p \in 0..(N - 1)
      BY <1>1, <3>1
    <3> QED BY <1>7, <3>1, <3>2
  <2> QED BY <1>2, <2>1, <2>2, <2>3, CompactedKept
<1>12. Shape'
  BY <1>1, <1>2, <1>4, <1>7, <1>8 DEF Inv, Shape
<1>13. Compacting'
  <2>1. offsets'[key] = n /\ n <= lo /\ lo \in lo..hi
    BY <1>1, <1>2, <1>8
  <2>2. \A p, q \in lo..(hi - 1) : p < q => members'[p] <= members'[q]
    BY <1>5, <1>7 DEF window
  <2>3. n..(n - 1) = {}
    BY <1>1
  <2>4. Rising(members', n, n)
    BY <2>3 DEF Rising
  <2>5. {members'[p] : p \in n..(n - 1)} \cup {members'[p] : p \in lo..(hi - 1)}
          = Values(edges, key, N)
    BY <1>9, <2>3 DEF window
  <2> QED BY <1>1, <1>4, <1>10, <1>11, <2>1, <2>2, <2>4, <2>5 DEF Compacting, lo, hi
<1> QED
  BY <1>4, <1>12, <1>13 DEF Inv, Counting, Summing, Filling, Between, Finished

LEMMA CompactKeeps == Inv /\ Compact => Inv'
<1> SUFFICES ASSUME Inv, Compact PROVE Inv'
  OBVIOUS
<1> DEFINE lo == Below(edges, key)
           hi == Below(edges, key + 1)
           first == offsets[key]
           kept == {members[p] : p \in first..(n - 1)}
           left == {members[p] : p \in at..(hi - 1)}
<1>1. /\ edges \in Seq(Edge) /\ N \in Nat /\ N' = N /\ members \in [0..(N - 1) -> Nat]
      /\ offsets \in [0..Size -> Nat] /\ n \in Nat /\ pc = "compact"
      /\ key \in Key /\ start = lo /\ at \in lo..hi
      /\ Ahead(edges, offsets, members, key + 1)
      /\ Compacted(edges, offsets, members, key)
      /\ first <= n /\ n <= at
      /\ \A p, q \in at..(hi - 1) : p < q => members[p] <= members[q]
      /\ Rising(members, first, n)
      /\ kept \cup left = Values(edges, key, N)
      /\ IF at = lo THEN n = first
         ELSE first < n /\ previous = members[n - 1]
              /\ \A q \in at..(hi - 1) : previous <= members[q]
  BY DEF Compact, CompactFrom, Inv, Shape, Compacting, N
<1>2. /\ key \in Nat /\ key + 1 \in Nat /\ key \in 0..Size /\ key + 1 \in 0..Size
      /\ lo \in Nat /\ hi \in Nat /\ lo <= hi /\ hi <= N /\ first \in Nat
  BY <1>1, WindowBounds DEF N
<1>3. offsets[key + 1] = hi
  <2>1. key + 1 \in (key + 1)..Size
    BY <1>2
  <2> QED BY <1>1, <2>1 DEF Ahead
<1> HIDE DEF lo, hi, first
<1>4. /\ at < hi /\ pc' = "compact" /\ at' = at + 1
      /\ UNCHANGED <<edges, contiguous, key, total, offsets, start>>
  BY <1>3 DEF Compact, CompactFrom, Goto
<1>5. \/ /\ at = lo \/ members[at] # previous
         /\ members' = [members EXCEPT ![n] = members[at]]
         /\ n' = n + 1 /\ previous' = members[at]
      \/ at # lo /\ members[at] = previous /\ UNCHANGED <<members, n, previous>>
  BY <1>1 DEF Compact, CompactFrom
<1>6. at \in Nat /\ at \in at..(hi - 1) /\ at \in 0..(N - 1) /\ n \in 0..(N - 1) /\ members[at] \in Nat
  <2>1. /\ N \in Nat /\ lo \in Nat /\ hi \in Nat /\ hi <= N /\ at \in lo..hi /\ at < hi
        /\ n \in Nat /\ n <= at
    BY <1>1, <1>2, <1>4
  <2>2. at \in Nat /\ at \in at..(hi - 1) /\ at \in 0..(N - 1) /\ n \in 0..(N - 1)
    BY <2>1
  <2> QED BY <1>1, <2>2
<1>7. \A p : p \in at..(hi - 1) <=> p = at \/ p \in (at + 1)..(hi - 1)
  BY <1>2, <1>4, <1>6
<1>8. ASSUME members' \in [0..(N - 1) -> Nat], n' \in Nat, first <= n', n' <= at + 1,
             \A p \in 0..(N - 1) : p # n => members'[p] = members[p],
             Rising(members', first, n'), first < n', previous' = members'[n' - 1],
             previous' = members[at],
             {members'[p] : p \in first..(n' - 1)} = kept \cup {members[at]}
      PROVE  Inv'
  <2>1. \A p \in (at + 1)..(hi - 1) : p \in 0..(N - 1) /\ p # n /\ members'[p] = members[p]
    <3>1. \A p \in (at + 1)..(hi - 1) : p \in 0..(N - 1) /\ p # n
      BY <1>1, <1>2, <1>6
    <3> QED BY <1>8, <3>1
  <2>2. Shape'
    BY SMTT(40), <1>1, <1>4, <1>6, <1>8 DEF Inv, Shape
  <2>3. Ahead(edges, offsets, members', key + 1)
    <3>1. \A p \in Nat : p >= Below(edges, key + 1) => members'[p] = members[p]
      <4> SUFFICES ASSUME NEW p \in Nat, p >= hi PROVE members'[p] = members[p]
        BY DEF hi
      <4>1. p # n
        BY <1>1, <1>2, <1>4, <1>6
      <4>2. CASE p \in 0..(N - 1)
        BY <1>8, <4>1, <4>2
      <4>3. CASE p \notin 0..(N - 1)
        <5>1. CASE members' = members
          BY <5>1
        <5>2. CASE members' = [members EXCEPT ![n] = members[at]]
          BY <1>1, <4>1, <4>3, <5>2
        <5> QED BY <1>5, <5>1, <5>2
      <4> QED BY <4>2, <4>3
    <3> QED BY <1>1, <1>2, <3>1, AheadKept
  <2>4. Compacted(edges, offsets, members', key)
    <3>1. \A i \in 0..key : offsets[i] \in Nat
      <4>1. \A i \in 0..key : i \in 0..Size
        BY <1>2, IndexAssumption
      <4> QED BY <1>1, <4>1
    <3>2. \A p \in Nat : p < offsets[key] => members'[p] = members[p]
      <4> SUFFICES ASSUME NEW p \in Nat, p < first PROVE members'[p] = members[p]
        BY DEF first
      <4>1. p # n /\ p \in 0..(N - 1)
        BY <1>1, <1>2, <1>6
      <4> QED BY <1>8, <4>1
    <3> QED BY <1>1, <1>2, <3>1, <3>2, CompactedKept
  <2>5. {members'[p] : p \in first..(n' - 1)} \cup {members'[p] : p \in (at + 1)..(hi - 1)}
          = Values(edges, key, N)
    <3>1. {members'[p] : p \in (at + 1)..(hi - 1)} = {members[p] : p \in (at + 1)..(hi - 1)}
      BY <2>1
    <3>2. left = {members[at]} \cup {members[p] : p \in (at + 1)..(hi - 1)}
      BY <1>7
    <3> HIDE DEF kept, left
    <3> QED BY <1>1, <1>8, <3>1, <3>2
  <2>6. \A p, q \in (at + 1)..(hi - 1) : p < q => members'[p] <= members'[q]
    BY <1>1, <1>7, <2>1
  <2>7. \A q \in (at + 1)..(hi - 1) : previous' <= members'[q]
    <3> TAKE q \in (at + 1)..(hi - 1)
    <3>1. at < q /\ q \in at..(hi - 1)
      BY <1>6, <1>7
    <3> QED BY <1>1, <1>6, <1>8, <2>1, <3>1
  <2>8. at + 1 \in lo..hi /\ at + 1 # lo
    BY <1>1, <1>2, <1>4, <1>6
  <2>9. Compacting'
    BY <1>1, <1>4, <1>8, <2>3, <2>4, <2>5, <2>6, <2>7, <2>8 DEF Compacting, lo, hi, first
  <2> QED
    BY <1>4, <2>2, <2>9 DEF Inv, Counting, Summing, Filling, Between, Finished
<1>9. CASE /\ at = lo \/ members[at] # previous
           /\ members' = [members EXCEPT ![n] = members[at]]
           /\ n' = n + 1 /\ previous' = members[at]
  <2>1. /\ members' \in [0..(N - 1) -> Nat] /\ members'[n] = members[at]
        /\ \A p \in 0..(N - 1) : p # n => members'[p] = members[p]
    BY <1>1, <1>6, <1>9
  <2>2. n' \in Nat /\ first <= n' /\ n' <= at + 1 /\ first < n' /\ n' - 1 = n
    BY <1>1, <1>2, <1>6, <1>9
  <2>3. \A p : p \in first..n <=> p \in first..(n - 1) \/ p = n
    BY <1>1, <1>2
  <2>4. \A p \in first..(n - 1) : p < n /\ p \in 0..(N - 1) /\ p # n /\ members'[p] = members[p]
    <3>1. \A p \in first..(n - 1) : p < n /\ p \in 0..(N - 1) /\ p # n
      BY <1>1, <1>2, <1>6
    <3> QED BY <2>1, <3>1
  <2>5. \A p \in first..(n - 1) : members[p] < members[at]
    <3> TAKE p \in first..(n - 1)
    <3>1. at # lo
      BY <1>1, <1>2
    <3>2. /\ previous = members[n - 1] /\ previous <= members[at] /\ members[at] # previous
          /\ n - 1 \in first..(n - 1)
      BY <1>1, <1>2, <1>6, <1>9, <3>1
    <3>3. members[n - 1] \in Nat /\ members[p] \in Nat
      BY <1>1, <2>4, <3>2
    <3>4. CASE p = n - 1
      BY <1>6, <3>2, <3>3, <3>4
    <3>5. CASE p # n - 1
      <4>1. p < n - 1
        BY <1>1, <1>2, <3>5
      <4>2. members[p] < members[n - 1]
        BY <1>1, <3>2, <4>1 DEF Rising
      <4> QED BY <1>6, <3>2, <3>3, <4>2
    <3> QED BY <3>4, <3>5
  <2>6. Rising(members', first, n')
    <3> SUFFICES ASSUME NEW p \in first..n, NEW q \in first..n, p < q
                 PROVE  members'[p] < members'[q]
      BY <2>2 DEF Rising
    <3>1. p \in first..(n - 1)
      BY <1>1, <1>2
    <3>2. CASE q = n
      BY <2>1, <2>4, <2>5, <3>1, <3>2
    <3>3. CASE q # n
      BY <1>1, <2>3, <2>4, <3>1, <3>3 DEF Rising
    <3> QED BY <3>2, <3>3
  <2>7. {members'[p] : p \in first..(n' - 1)} = kept \cup {members[at]}
    BY <2>1, <2>2, <2>3, <2>4
  <2> QED BY <1>8, <1>9, <2>1, <2>2, <2>6, <2>7
<1>10. CASE at # lo /\ members[at] = previous /\ UNCHANGED <<members, n, previous>>
  <2>1. first < n /\ previous = members[n - 1] /\ n - 1 \in first..(n - 1)
    BY <1>1, <1>2, <1>10
  <2>2. {members'[p] : p \in first..(n' - 1)} = kept \cup {members[at]}
    BY <1>10, <2>1
  <2>3. n' <= at + 1
    BY <1>1, <1>6, <1>10
  <2> QED BY <1>1, <1>8, <1>10, <2>1, <2>2, <2>3
<1> QED BY <1>5, <1>9, <1>10

LEMMA WindowEndKeeps == Inv /\ WindowEnd => Inv'
<1> SUFFICES ASSUME Inv, WindowEnd PROVE Inv'
  OBVIOUS
<1> DEFINE hi == Below(edges, key + 1)
           o == [offsets EXCEPT ![key + 1] = n]
<1>1. /\ edges \in Seq(Edge) /\ N \in Nat /\ N' = N /\ n \in Nat /\ pc = "compact"
      /\ offsets \in [0..Size -> Nat]
      /\ key \in Key /\ at <= hi /\ at >= Below(edges, key) /\ at \in Nat
      /\ Ahead(edges, offsets, members, key + 1)
      /\ Compacted(edges, offsets, members, key)
      /\ offsets[key] <= n /\ n <= at
      /\ Rising(members, offsets[key], n)
      /\ {members[p] : p \in offsets[key]..(n - 1)} \cup {members[p] : p \in at..(hi - 1)}
           = Values(edges, key, N)
  BY SMTT(40) DEF WindowEnd, data, Inv, Shape, Compacting, N
<1>2. /\ key \in Nat /\ key + 1 \in Nat /\ key \in 0..Size /\ key + 1 \in 0..Size
      /\ hi \in Nat /\ offsets[key] \in Nat
  BY <1>1, WindowBounds DEF N
<1>3. offsets[key + 1] = hi
  <2>1. key + 1 \in (key + 1)..Size
    BY <1>2
  <2> QED BY <1>1, <2>1 DEF Ahead
<1>4. /\ at = hi /\ pc' = "window" /\ at' = 0 /\ key' = key + 1
      /\ UNCHANGED <<edges, contiguous, total, offsets, members, n>>
  BY <1>3 DEF WindowEnd, Goto, data
<1>5. Holds(members, offsets[key], n, Values(edges, key, Len(edges)))
  <2>1. at..(hi - 1) = {}
    BY <1>2, <1>4
  <2> QED BY <1>1, <2>1 DEF Holds, N
<1>6. o[key + 1] = n /\ \A i \in 0..key : o[i] = offsets[i] /\ offsets[i] \in Nat
  <2>1. \A i \in 0..key : i \in 0..Size /\ i # key + 1
    BY <1>2, IndexAssumption
  <2> QED BY <1>1, <1>2, <2>1
<1> HIDE DEF o
<1>7. Compacted(edges, o, members, key + 1)
  BY <1>1, <1>2, <1>5, <1>6, CompactedNext
<1>8. Shape'
  BY <1>1, <1>2, <1>4 DEF Inv, Shape
<1>9. Between'
  BY <1>1, <1>4, <1>7 DEF Between, o, hi
<1> QED
  BY <1>4, <1>8, <1>9 DEF Inv, Counting, Summing, Filling, Compacting, Finished

LEMMA TruncateKeeps == Inv /\ Truncate => Inv'
<1> SUFFICES ASSUME Inv, Truncate PROVE Inv'
  OBVIOUS
<1>1. /\ pc = "window" /\ key = Size /\ pc' = "done" /\ at' = 0
      /\ offsets' = [offsets EXCEPT ![Size] = n]
      /\ members' = [p \in 0..(n - 1) |-> members[p]]
      /\ UNCHANGED <<edges, contiguous, key, total, n>>
  BY DEF Truncate, Goto
<1>2. /\ edges \in Seq(Edge) /\ N' = N /\ n \in Nat /\ ~contiguous
      /\ offsets \in [0..Size -> Nat] /\ Size \in 0..Size
      /\ Compacted(edges, [offsets EXCEPT ![Size] = n], members, Size)
  BY <1>1, IndexAssumption DEF Inv, Shape, Between, N
<1>3. offsets' \in [0..Size -> Nat] /\ offsets'[Size] = n
  BY <1>1, <1>2
<1>4. Compacted(edges, offsets', members', Size)
  <2>1. Compacted(edges, offsets', members, Size)
    BY <1>1, <1>2
  <2>2. \A p \in Nat : p < offsets'[Size] => members'[p] = members[p]
    <3>1. \A p \in Nat : p < n => p \in 0..(n - 1)
      BY <1>2
    <3> QED BY <1>1, <1>3, <3>1
  <2> QED BY <1>3, <2>1, <2>2, CompactedKept, IndexAssumption
<1>5. Shape'
  BY <1>1, <1>2, <1>3 DEF Inv, Shape
<1>6. Finished'
  BY <1>1, <1>2, <1>4 DEF Finished
<1> QED
  BY <1>1, <1>5, <1>6 DEF Inv, Counting, Summing, Filling, Between, Compacting

\* A panic leaves nothing to be said, and a step that changes nothing keeps all.
LEMMA PanicKeeps == Inv /\ (CountOverflow \/ Canceled) => Inv'
<1> SUFFICES ASSUME Inv, CountOverflow \/ Canceled PROVE Inv'
  OBVIOUS
<1>1. pc' = "panic" /\ at' = at /\ UNCHANGED <<edges, contiguous, key, data>>
  BY DEF CountOverflow, Canceled, Goto
<1> QED
  BY <1>1 DEF data, Inv, Shape, N, Counting, Summing, Filling, Between, Compacting, Finished

LEMMA StepHolds == Inv /\ [Next]_vars => Inv'
<1> SUFFICES ASSUME Inv, [Next]_vars PROVE Inv'
  OBVIOUS
<1>1. CASE UNCHANGED vars
  BY <1>1
     DEF vars, data, Inv, Shape, N, Counting, Summing, Filling, Between, Compacting, Finished
<1> QED
  BY <1>1, CountKeeps, CountEndKeeps, PrefixKeeps, ContiguousDoneKeeps, CursorsKeeps, FillKeeps,
     FillEndKeeps, WindowKeeps, CompactKeeps, WindowEndKeeps, TruncateKeeps, PanicKeeps
     DEF Next, Stopped

(***************************************************************************)
(* The theorems                                                            *)
(***************************************************************************)
LEMMA ValuesOfKey ==
  ASSUME edges \in Seq(Edge), NEW k
  PROVE  ValuesOf(k) = Values(edges, k, N)
<1>1. DOMAIN edges = 1..N
  BY DEF N
<1> QED BY <1>1 DEF ValuesOf, Values, EdgesOf, Range

\* In front of the compaction the windows are as they were filled.
LEMMA AheadWindow ==
  ASSUME edges \in Seq(Edge), NEW b \in Nat, Ahead(edges, offsets, members, b),
         NEW k \in b..(Size - 1)
  PROVE  LET window == offsets[k]..(offsets[k + 1] - 1)
         IN /\ Cardinality(window) = Cardinality({i \in DOMAIN edges : edges[i][1] = k})
            /\ {members[p] : p \in window} = ValuesOf(k)
<1>1. k \in Nat /\ k \in b..Size /\ k + 1 \in b..Size /\ k \in Key
  BY IndexAssumption DEF Key
<1>2. offsets[k] = Below(edges, k) /\ offsets[k + 1] = Below(edges, k + 1)
  BY <1>1 DEF Ahead
<1>3. /\ Below(edges, k) \in Nat /\ Below(edges, k + 1) = Below(edges, k) + Number(edges, k, N)
      /\ Number(edges, k, N) \in Nat
  <2>1. N \in Nat /\ N \in 0..Len(edges)
    BY DEF N
  <2> QED BY <1>1, <2>1, BelowSums, EdgesOfPrefix DEF N
<1> DEFINE lo == Below(edges, k)
           hi == Below(edges, k + 1)
           num == Number(edges, k, N)
<1>4. Cardinality(lo..(hi - 1)) = num
  <2>1. lo \in Nat /\ hi = lo + num /\ num \in Nat
    BY <1>3
  <2> HIDE DEF lo, hi, num
  <2> QED BY <2>1, FS_Interval
<1>5. num = Cardinality({i \in DOMAIN edges : edges[i][1] = k})
  <2>1. DOMAIN edges = 1..N
    BY DEF N
  <2>2. {i \in DOMAIN edges : edges[i][1] = k} = EdgesOf(edges, k, N)
    BY <2>1 DEF EdgesOf
  <2> QED BY <2>2 DEF Number
<1>6. {members[p] : p \in lo..(hi - 1)} = ValuesOf(k)
  BY <1>1, ValuesOfKey DEF Ahead, Holds, N
<1> QED BY <1>2, <1>4, <1>5, <1>6

\* The compaction of the members in place never writes on a member that it has yet
\* to read, nor moves a bound that it has yet to look at (go/indexes.go 78 to 98).
THEOREM CompactionIsSafe == Spec => []ReadsAheadOfWrites
<1>1. Inv => ReadsAheadOfWrites
  <2> SUFFICES ASSUME Inv PROVE ReadsAheadOfWrites
    OBVIOUS
  <2>1. edges \in Seq(Edge) /\ key \in Nat /\ key + 1 \in Nat
    BY IndexAssumption DEF Inv, Shape
  <2>2. CASE pc = "window"
    <3>1. Ahead(edges, offsets, members, key)
      BY <2>2 DEF Inv, Between
    <3> QED BY <2>1, <2>2, <3>1, AheadWindow DEF ReadsAheadOfWrites
  <2>3. CASE pc = "compact"
    <3>1. Ahead(edges, offsets, members, key + 1) /\ n <= at
          /\ at \in Below(edges, key)..Below(edges, key + 1) /\ key \in Key
      BY <2>3 DEF Inv, Compacting
    <3>2. offsets[key + 1] = Below(edges, key + 1)
      <4>1. key + 1 \in (key + 1)..Size
        BY <2>1, <3>1, IndexAssumption DEF Key
      <4> QED BY <3>1, <4>1 DEF Ahead
    <3>3. n <= at /\ at <= offsets[key + 1]
      BY <2>1, <3>1, <3>2, WindowBounds
    <3> QED BY <2>1, <2>3, <3>1, <3>3, AheadWindow DEF ReadsAheadOfWrites
  <2>4. CASE pc \notin {"window", "compact"}
    BY <2>4 DEF ReadsAheadOfWrites
  <2> QED BY <2>2, <2>3, <2>4
<1> QED BY <1>1, InitHolds, StepHolds, PTL DEF Spec

\* Every set of numbers that is not empty has a least one.
LEMMA LeastNumber ==
  ASSUME NEW S \in SUBSET Nat, S # {} PROVE \E x \in S : \A y \in S : x <= y
<1>1. IsWellFoundedOn(OpToRel(<, Nat), Nat)
  BY NatLessThanWellFounded
<1>2. PICK x \in S : \A y \in S : ~(<<y, x>> \in OpToRel(<, Nat))
  BY <1>1, WFMin
<1>3. \A y \in S : ~(y < x)
  BY <1>2 DEF OpToRel
<1> QED BY <1>3

\* Rows in the order of their keys: the edges of the smaller keys come first.
LEMMA SmallerFirst ==
  ASSUME NEW es \in Seq(Edge), InOrder(es), NEW k \in Nat, NEW i \in 1..Len(es)
  PROVE  es[i][1] < k <=> i <= Below(es, k)
<1> DEFINE m == Len(es)
           rest == (1..(m + 1)) \ Smaller(es, k)
<1>1. m \in Nat
  OBVIOUS
<1>2. m + 1 \in rest /\ rest \in SUBSET Nat
  BY <1>1 DEF Smaller
<1>3. PICK x \in rest : \A y \in rest : x <= y
  <2> HIDE DEF rest
  <2> QED BY <1>2, LeastNumber
<1>4. x \in 1..(m + 1) /\ x \notin Smaller(es, k)
  BY <1>3
<1>5. Smaller(es, k) = 1..(x - 1)
  <2>1. ASSUME NEW j \in 1..(x - 1) PROVE j \in Smaller(es, k)
    BY <1>1, <1>3, <1>4
  <2>2. ASSUME NEW j \in Smaller(es, k) PROVE j \in 1..(x - 1)
    <3>1. j \in 1..m /\ es[j][1] < k /\ j # x
      BY <1>4 DEF Smaller
    <3>2. ASSUME x < j PROVE FALSE
      <4>1. x \in 1..m /\ x \in 1..j
        BY <1>1, <1>4, <3>1, <3>2
      <4>2. es[x][1] <= es[j][1]
        BY <3>1, <4>1 DEF InOrder
      <4>3. es[x][1] < k
        BY <3>1, <4>1, <4>2, EdgeTypes
      <4> QED BY <1>4, <4>1, <4>3 DEF Smaller
    <3> QED BY <1>1, <1>4, <3>1, <3>2
  <2> QED BY <2>1, <2>2
<1>6. Below(es, k) = x - 1
  <2>1. x - 1 \in Nat
    BY <1>1, <1>4
  <2> QED BY <1>5, <2>1, FS_Interval DEF Below
<1>7. es[i][1] < k <=> i \in Smaller(es, k)
  BY DEF Smaller
<1> QED BY <1>1, <1>4, <1>5, <1>6, <1>7

\* The answers of an index that keeps no members.
LEMMA ContiguousAnswers ==
  ASSUME Inv, pc = "done", contiguous, NEW k \in Key
  PROVE  /\ Range(Answer(k)) = ValuesOf(k)
         /\ \A i, j \in DOMAIN Answer(k) : i < j => Answer(k)[i] < Answer(k)[j]
<1> DEFINE lo == Below(edges, k)
           hi == Below(edges, k + 1)
<1>1. /\ edges \in Seq(Edge) /\ InOrder(edges)
      /\ \A j \in 0..Size : offsets[j] = Below(edges, j)
  BY DEF Inv, Shape, Finished
<1>2. /\ k \in Nat /\ k + 1 \in Nat /\ k \in 0..Size /\ k + 1 \in 0..Size
      /\ lo \in Nat /\ hi \in Nat /\ N \in Nat /\ lo <= hi /\ hi <= N
  BY <1>1, WindowBounds DEF N
<1>3. Answer(k) = [i \in 1..(hi - lo) |-> lo + i - 1]
  BY <1>1, <1>2 DEF Answer
<1>4. \A i \in 1..N : edges[i][1] = k <=> lo < i /\ i <= hi
  <2> TAKE i \in 1..N
  <2>1. edges[i][1] < k <=> i <= lo
    BY <1>1, <1>2, SmallerFirst DEF N
  <2>2. edges[i][1] < k + 1 <=> i <= hi
    BY <1>1, <1>2, SmallerFirst DEF N
  <2>3. edges[i][1] \in Nat
    BY <1>1, EdgeTypes DEF N
  <2> HIDE DEF lo, hi
  <2> QED BY <1>2, <2>1, <2>2, <2>3
<1>5. \A i \in 1..N : edges[i][2] = i - 1
  BY <1>1 DEF InOrder, N
<1>6. ValuesOf(k) = {i - 1 : i \in {j \in 1..N : lo < j /\ j <= hi}}
  BY <1>1, <1>4, <1>5, ValuesOfKey DEF Values, EdgesOf
<1> HIDE DEF lo, hi
<1>7. {i - 1 : i \in {j \in 1..N : lo < j /\ j <= hi}} = {lo + i - 1 : i \in 1..(hi - lo)}
  <2>1. ASSUME NEW i \in 1..N, lo < i, i <= hi
        PROVE  \E j \in 1..(hi - lo) : i - 1 = lo + j - 1
    <3>1. i - lo \in 1..(hi - lo) /\ i - 1 = lo + (i - lo) - 1
      BY <1>2, <2>1
    <3> QED BY <3>1
  <2>2. ASSUME NEW j \in 1..(hi - lo)
        PROVE  \E i \in 1..N : lo < i /\ i <= hi /\ lo + j - 1 = i - 1
    <3>1. lo + j \in 1..N /\ lo < lo + j /\ lo + j <= hi /\ lo + j - 1 = (lo + j) - 1
      BY <1>2
    <3> QED BY <3>1
  <2> QED BY <2>1, <2>2
<1>8. Range(Answer(k)) = ValuesOf(k)
  BY <1>3, <1>6, <1>7 DEF Range
<1>9. \A i, j \in DOMAIN Answer(k) : i < j => Answer(k)[i] < Answer(k)[j]
  BY <1>2, <1>3
<1> QED BY <1>8, <1>9

\* The answers of an index with members.
LEMMA MemberAnswers ==
  ASSUME Inv, pc = "done", ~contiguous, NEW k \in Key
  PROVE  /\ Range(Answer(k)) = ValuesOf(k)
         /\ \A i, j \in DOMAIN Answer(k) : i < j => Answer(k)[i] < Answer(k)[j]
<1> DEFINE lo == offsets[k]
           hi == offsets[k + 1]
<1>1. edges \in Seq(Edge) /\ offsets \in [0..Size -> Nat] /\ Compacted(edges, offsets, members, Size)
  BY DEF Inv, Shape, Finished
<1>2. k \in 0..Size /\ k + 1 \in 0..Size /\ k <= k + 1 /\ k \in 0..(Size - 1)
  BY IndexAssumption DEF Key
<1>3. lo \in Nat /\ hi \in Nat /\ lo <= hi
  BY <1>1, <1>2 DEF Compacted
<1>4. Rising(members, lo, hi) /\ {members[p] : p \in lo..(hi - 1)} = ValuesOf(k)
  BY <1>1, <1>2, ValuesOfKey DEF Compacted, Holds, N
<1>5. Answer(k) = [i \in 1..(hi - lo) |-> members[lo + i - 1]]
  BY DEF Answer
<1> HIDE DEF lo, hi
<1>6. {members[p] : p \in lo..(hi - 1)} = {members[lo + i - 1] : i \in 1..(hi - lo)}
  <2>1. ASSUME NEW p \in lo..(hi - 1) PROVE \E i \in 1..(hi - lo) : p = lo + i - 1
    <3>1. p - lo + 1 \in 1..(hi - lo) /\ p = lo + (p - lo + 1) - 1
      BY <1>3
    <3> QED BY <3>1
  <2>2. \A i \in 1..(hi - lo) : lo + i - 1 \in lo..(hi - 1)
    BY <1>3
  <2> QED BY <2>1, <2>2
<1>7. Range(Answer(k)) = ValuesOf(k)
  BY <1>4, <1>5, <1>6 DEF Range
<1>8. ASSUME NEW i \in 1..(hi - lo), NEW j \in 1..(hi - lo), i < j
      PROVE  members[lo + i - 1] < members[lo + j - 1]
  <2>1. lo + i - 1 \in lo..(hi - 1) /\ lo + j - 1 \in lo..(hi - 1) /\ lo + i - 1 < lo + j - 1
    BY <1>3, <1>8
  <2> QED BY <1>4, <2>1 DEF Rising
<1> QED BY <1>5, <1>7, <1>8

\* The index that is built answers each key with its values, each of them once and in
\* order, and no sum of counts wraps (go/indexes.go 40 to 102, abi.go 153 to 167).
THEOREM FrozenIndexIsExact == Spec => []IndexIsExact
<1>1. Inv => IndexIsExact
  <2> SUFFICES ASSUME Inv, pc = "done" PROVE IndexIsExact
    BY DEF IndexIsExact
  <2>1. total <= MaxUint /\ Len(edges) = total
    BY DEF Inv, Shape, N
  <2>2. contiguous \in BOOLEAN
    BY DEF Inv, Shape
  <2> QED BY <2>1, <2>2, ContiguousAnswers, MemberAnswers DEF IndexIsExact
<1> QED BY <1>1, InitHolds, StepHolds, PTL DEF Spec

(***************************************************************************)
(* The order in which the indexes are built (IndexPlan)                    *)
(*                                                                         *)
(* What is built at some moment has no more temporary cells than what was  *)
(* built before; so a peak that is reached by the code's order is that of  *)
(* a set of slots of which one with the least temporary cells is built     *)
(* last, and in any other order the last of this set to be built comes     *)
(* after the same slots and needs no less.                                 *)
(***************************************************************************)
\* Cells are counted in slabs: no fewer slabs for more cells, and none for none.
LEMMA CellsOfSlabs ==
  /\ \A m \in Nat : MemberCells(m) \in Nat
  /\ \A k, m \in Nat : k <= m => MemberCells(k) <= MemberCells(m)
  /\ MemberCells(0) = 0
<1>1. SlabSize \in Nat /\ SlabSize > 0
  BY PlanAssumption
<1>2. \A i \in Nat : /\ i \div SlabSize \in Nat /\ i % SlabSize \in 0..(SlabSize - 1)
                     /\ i = SlabSize * (i \div SlabSize) + (i % SlabSize)
  BY <1>1
<1>3. \A q, r \in Nat : q * SlabSize \in Nat /\ (q <= r => q * SlabSize <= r * SlabSize)
  <2> SUFFICES ASSUME NEW q \in Nat, NEW r \in Nat
               PROVE  q * SlabSize \in Nat /\ (q <= r => q * SlabSize <= r * SlabSize)
    OBVIOUS
  <2>1. q * SlabSize \in Nat /\ r * SlabSize \in Nat
    BY <1>1
  <2>2. ASSUME q <= r PROVE q * SlabSize <= r * SlabSize
    <3>1. (r - q) * SlabSize >= 0
      BY <1>1, <2>2
    <3>2. (r - q) * SlabSize = r * SlabSize - q * SlabSize
      BY <1>1
    <3> QED BY <2>1, <3>1, <3>2
  <2> QED BY <2>1, <2>2
<1>4. \A i, j \in Nat : i <= j => i \div SlabSize <= j \div SlabSize
  <2> SUFFICES ASSUME NEW i \in Nat, NEW j \in Nat, i <= j, j \div SlabSize < i \div SlabSize
               PROVE  FALSE
    BY <1>2
  <2> DEFINE q == i \div SlabSize
             r == j \div SlabSize
  <2>1. /\ q \in Nat /\ r \in Nat /\ r < q
        /\ i % SlabSize \in 0..(SlabSize - 1) /\ i = SlabSize * q + (i % SlabSize)
        /\ j % SlabSize \in 0..(SlabSize - 1) /\ j = SlabSize * r + (j % SlabSize)
    BY <1>2
  <2> HIDE DEF q, r
  <2>2. (r + 1) * SlabSize <= q * SlabSize /\ r + 1 \in Nat
    BY <1>3, <2>1
  <2>3. (r + 1) * SlabSize = r * SlabSize + SlabSize
        /\ SlabSize * q = q * SlabSize /\ SlabSize * r = r * SlabSize
        /\ q * SlabSize \in Nat /\ r * SlabSize \in Nat
    BY <1>1, <2>1
  <2> QED BY <1>1, <2>1, <2>2, <2>3
<1>5. \A m \in Nat : m + SlabSize - 1 \in Nat
  BY <1>1
<1>6. \A m \in Nat : MemberCells(m) \in Nat
  BY <1>2, <1>3, <1>5 DEF MemberCells
<1>7. ASSUME NEW k \in Nat, NEW m \in Nat, k <= m
      PROVE  MemberCells(k) <= MemberCells(m)
  <2>1. k + SlabSize - 1 <= m + SlabSize - 1
    BY <1>1, <1>7
  <2> QED BY <1>2, <1>3, <1>4, <1>5, <2>1 DEF MemberCells
<1>8. MemberCells(0) = 0
  <2>1. (0 + SlabSize - 1) \div SlabSize = 0
    BY <1>1
  <2> QED BY <1>1, <2>1 DEF MemberCells
<1> QED BY <1>6, <1>7, <1>8

\* The numbers of an index; and what it needs at most is what it keeps and its
\* temporary cells.
Planned(d) ==
  /\ d.size \in Nat /\ d.raw \in Nat /\ d.bound \in Nat
  /\ Retained(d) \in Nat /\ Kept(d) \in Nat
  /\ Temporary(d) \in Nat /\ Allocated(d) \in Nat
  /\ Allocated(d) = Kept(d) + Temporary(d)
  /\ MemberCells(d.size + 1) \in Nat

LEMMA CellsOfIndex ==
  ASSUME NEW d \in Definition PROVE Planned(d)
<1>1. d.size \in Nat /\ d.raw \in Nat /\ d.bound \in Nat /\ d.contiguous \in BOOLEAN
  <2>1. CASE d \in [contiguous : {FALSE}, size : Sizes, raw : 0..MaxRaw, bound : 0..MaxBound]
    <3>1. d.size \in Sizes /\ d.raw \in 0..MaxRaw /\ d.bound \in 0..MaxBound
      BY <2>1
    <3>2. d.contiguous \in BOOLEAN
      BY <2>1
    <3>3. Sizes \subseteq Nat /\ 0..MaxRaw \subseteq Nat /\ 0..MaxBound \subseteq Nat
      BY PlanAssumption
    <3> QED BY <3>1, <3>2, <3>3
  <2>2. CASE d \in [contiguous : {TRUE}, size : Sizes, raw : 0..MaxRaw, bound : {MaxBound}]
    <3>1. d.size \in Sizes /\ d.raw \in 0..MaxRaw /\ d.bound = MaxBound
      BY <2>2
    <3>2. d.contiguous \in BOOLEAN
      BY <2>2
    <3>3. Sizes \subseteq Nat /\ 0..MaxRaw \subseteq Nat /\ MaxBound \in Nat
      BY PlanAssumption
    <3> QED BY <3>1, <3>2, <3>3
  <2> QED BY <2>1, <2>2 DEF Definition
<1>2. Retained(d) \in Nat /\ (~d.contiguous => Retained(d) <= d.raw)
      /\ (d.contiguous => Retained(d) = 0)
  BY <1>1 DEF Retained, Least
<1> DEFINE first == MemberCells(d.size + 1)
           raw == MemberCells(d.raw)
           size == MemberCells(d.size)
           stay == MemberCells(Retained(d))
<1>3. /\ first \in Nat /\ raw \in Nat /\ size \in Nat /\ stay \in Nat
      /\ ~d.contiguous => stay <= raw
      /\ d.contiguous => stay = 0
  BY <1>1, <1>2, CellsOfSlabs
<1>4. /\ Kept(d) = first + stay
      /\ Temporary(d) = IF d.contiguous THEN 0 ELSE raw - stay + size
      /\ Allocated(d) = first + IF d.contiguous THEN 0 ELSE raw + size
  BY DEF Kept, Temporary, Allocated
<1> HIDE DEF first, raw, size, stay
<1>5. /\ Kept(d) \in Nat /\ Temporary(d) \in Nat /\ Allocated(d) \in Nat
      /\ Allocated(d) = Kept(d) + Temporary(d)
  <2>1. CASE d.contiguous
    BY <1>1, <1>3, <1>4, <2>1
  <2>2. CASE ~d.contiguous
    BY <1>1, <1>3, <1>4, <2>2
  <2> QED BY <1>1, <2>1, <2>2
<1> QED BY <1>1, <1>2, <1>3, <1>5 DEF Planned, first

-----------------------------------------------------------------------------
\* The cells that a slot keeps, and the slots of a set.
KeptCells(s) == {s} \X (1..Kept(plan[s]))
CellsOf(slots) == UNION {KeptCells(s) : s \in slots}

LEMMA KeptCardinality == ASSUME NEW S PROVE KeptBy(S) = Cardinality(CellsOf(S))
  BY DEF KeptBy, CellsOf, KeptCells

LEMMA KeptCellsFinite ==
  ASSUME plan \in [Slot -> Definition], NEW s \in Slot
  PROVE  IsFiniteSet(KeptCells(s)) /\ Cardinality(KeptCells(s)) = Kept(plan[s])
<1> DEFINE k == Kept(plan[s])
<1>1. k \in Nat
  <2>1. plan[s] \in Definition
    OBVIOUS
  <2> QED BY <2>1, CellsOfIndex DEF Planned
<1>2. KeptCells(s) = {s} \X (1..k)
  BY DEF KeptCells
<1> HIDE DEF k
<1>3. IsFiniteSet(1..k) /\ Cardinality(1..k) = k
  <2>1. 1 \in Int /\ k \in Int
    BY <1>1
  <2>2. IsFiniteSet(1..k) /\ Cardinality(1..k) = IF 1 > k THEN 0 ELSE k - 1 + 1
    BY <2>1, FS_Interval
  <2> QED BY <1>1, <2>2
<1>4. IsFiniteSet({s}) /\ Cardinality({s}) = 1
  BY FS_Singleton
<1>5. IsFiniteSet({s} \X (1..k)) /\ Cardinality({s} \X (1..k)) = 1 * k
  <2> DEFINE A == {s}
             B == 1..k
  <2>1. IsFiniteSet(A) /\ IsFiniteSet(B) /\ Cardinality(A) = 1 /\ Cardinality(B) = k
    BY <1>3, <1>4
  <2> HIDE DEF A, B
  <2>2. IsFiniteSet(A \X B) /\ Cardinality(A \X B) = Cardinality(A) * Cardinality(B)
    BY <2>1, FS_Product
  <2> QED BY <2>1, <2>2 DEF A, B
<1> QED BY <1>1, <1>2, <1>5 DEF k

\* What a set of slots keeps is a number, and more slots keep no less.
LEMMA KeptByType ==
  ASSUME plan \in [Slot -> Definition], NEW S \in SUBSET Slot
  PROVE  IsFiniteSet(CellsOf(S)) /\ KeptBy(S) \in Nat
<1>1. IsFiniteSet(S)
  <2>1. IsFiniteSet(Slot)
    BY PlanAssumption
  <2> QED BY <2>1, FS_Subset
<1> DEFINE F == {KeptCells(s) : s \in S}
           f == [s \in S |-> KeptCells(s)]
<1>2. f \in Surjection(S, F)
  BY DEF Surjection
<1>3. \A R \in F : IsFiniteSet(R)
  BY KeptCellsFinite
<1> HIDE DEF f
<1>4. IsFiniteSet(F)
  <2> HIDE DEF F
  <2> QED BY <1>1, <1>2, FS_Surjection
<1>5. IsFiniteSet(UNION F)
  <2> HIDE DEF F
  <2> QED BY <1>3, <1>4, FS_UNION
<1>6. IsFiniteSet(CellsOf(S))
  BY <1>5 DEF CellsOf
<1> QED BY <1>6, FS_CardinalityType, KeptCardinality

LEMMA KeptByMore ==
  ASSUME plan \in [Slot -> Definition],
         NEW S \in SUBSET Slot, NEW R \in SUBSET S
  PROVE  KeptBy(R) <= KeptBy(S)
<1>1. CellsOf(R) \in SUBSET CellsOf(S)
  BY DEF CellsOf
<1>2. IsFiniteSet(CellsOf(S))
  BY KeptByType
<1> QED BY <1>1, <1>2, FS_Subset, KeptCardinality

\* One slot more keeps its own cells more.
LEMMA KeptByAdded ==
  ASSUME plan \in [Slot -> Definition],
         NEW S \in SUBSET Slot, NEW s \in Slot, s \notin S
  PROVE  KeptBy(S \cup {s}) = KeptBy(S) + Kept(plan[s])
<1>1. CellsOf(S \cup {s}) = CellsOf(S) \cup KeptCells(s)
  BY DEF CellsOf
<1>2. CellsOf(S) \cap KeptCells(s) = {}
  BY DEF CellsOf, KeptCells
<1>3. IsFiniteSet(CellsOf(S)) /\ IsFiniteSet(KeptCells(s))
      /\ Cardinality(KeptCells(s)) = Kept(plan[s])
  BY KeptByType, KeptCellsFinite
<1>4. Cardinality(CellsOf(S) \cup KeptCells(s))
        = Cardinality(CellsOf(S)) + Cardinality(KeptCells(s))
            - Cardinality(CellsOf(S) \cap KeptCells(s))
  BY <1>3, FS_Union
<1>5. Cardinality(CellsOf(S) \cap KeptCells(s)) = 0
  BY <1>2, FS_EmptySet
<1>6. Cardinality(CellsOf(S)) \in Nat /\ Cardinality(KeptCells(s)) \in Nat
  BY <1>3, FS_CardinalityType
<1>7. KeptBy(S) = Cardinality(CellsOf(S))
      /\ KeptBy(S \cup {s}) = Cardinality(CellsOf(S \cup {s}))
  BY KeptCardinality
<1>8. Cardinality(CellsOf(S \cup {s})) = Cardinality(CellsOf(S)) + Cardinality(KeptCells(s))
  <2>1. Cardinality(CellsOf(S) \cup KeptCells(s))
          = Cardinality(CellsOf(S)) + Cardinality(KeptCells(s))
    <3> DEFINE a == Cardinality(CellsOf(S))
               b == Cardinality(KeptCells(s))
               c == Cardinality(CellsOf(S) \cap KeptCells(s))
               d == Cardinality(CellsOf(S) \cup KeptCells(s))
    <3>1. d = a + b - c /\ c = 0 /\ a \in Nat /\ b \in Nat
      BY <1>4, <1>5, <1>6
    <3> HIDE DEF a, b, c, d
    <3>2. d = a + b
      BY <3>1
    <3> QED BY <3>2 DEF a, b, d
  <2> QED BY <1>1, <2>1
<1> QED BY <1>3, <1>7, <1>8

-----------------------------------------------------------------------------
\* Of finitely many numbers one is the greatest.
LEMMA GreatestNumber ==
  ASSUME NEW count \in Nat, NEW f \in [1..count -> Nat]
  PROVE  \E x \in {0} \cup {f[i] : i \in 1..count} :
           \A y \in {0} \cup {f[i] : i \in 1..count} : x >= y
<1> DEFINE U(m) == {0} \cup {f[i] : i \in 1..m}
           Bad == {m \in 0..count : ~ \E x \in U(m) : \A y \in U(m) : x >= y}
<1>0. count \in 0..count /\ (count \notin Bad => \E x \in U(count) : \A y \in U(count) : x >= y)
  OBVIOUS
<1> SUFFICES ASSUME Bad # {} PROVE FALSE
  BY <1>0
<1>1. PICK m \in Bad : \A k \in Bad : m <= k
  <2>1. Bad \in SUBSET Nat
    OBVIOUS
  <2> HIDE DEF Bad
  <2> QED BY <2>1, LeastNumber
<1>2. m \in 0..count
  OBVIOUS
<1>3. m # 0
  <2>1. U(0) = {0}
    OBVIOUS
  <2>2. \A y \in U(0) : 0 >= y
    BY <2>1
  <2> QED BY <2>1, <2>2
<1>4. m - 1 \in 0..count /\ m \in 1..count /\ ~(m <= m - 1)
  BY <1>2, <1>3
<1>5. PICK x \in U(m - 1) : \A y \in U(m - 1) : x >= y
  BY <1>1, <1>4
<1>6. x \in Nat /\ f[m] \in Nat
  BY <1>4
<1>7. U(m) = U(m - 1) \cup {f[m]}
  <2>1. 1..m = (1..(m - 1)) \cup {m}
    BY <1>4
  <2> QED BY <2>1
<1>8. \A y \in U(m) : y \in Nat
  BY <1>4
<1>9. ~ \E z \in U(m) : \A y \in U(m) : z >= y
  BY <1>1
<1> HIDE DEF U, Bad
<1>10. CASE x >= f[m]
  BY <1>5, <1>6, <1>7, <1>9, <1>10
<1>11. CASE ~(x >= f[m])
  <2>1. \A y \in U(m) : f[m] >= y
    BY <1>5, <1>6, <1>7, <1>8, <1>11
  <2> QED BY <1>7, <1>9, <2>1
<1> QED BY <1>10, <1>11

\* The slots that are built before the i-th of an order; and the peak of the order is
\* not below what is allocated when the i-th is built.
Earlier(slots, i) == {slots[j] : j \in 1..(i - 1)}

LEMMA PeakIsAbove ==
  ASSUME plan \in [Slot -> Definition],
         NEW slots \in Orders
  PROVE  /\ PeakOf(slots) \in Nat
         /\ \A i \in DOMAIN slots :
              KeptBy(Earlier(slots, i)) + Allocated(plan[slots[i]]) <= PeakOf(slots)
<1> DEFINE count == Cardinality(Slot)
           f == [k \in 1..count |-> KeptBy(Earlier(slots, k)) + Allocated(plan[slots[k]])]
           V == {0} \cup {f[k] : k \in 1..count}
<1>1. count \in Nat
  BY FS_CardinalityType, PlanAssumption
<1>2. slots \in [1..count -> Slot]
  BY DEF Orders
<1>3. f \in [1..count -> Nat]
  <2>1. ASSUME NEW k \in 1..count
        PROVE  KeptBy(Earlier(slots, k)) + Allocated(plan[slots[k]]) \in Nat
    <3>1. Earlier(slots, k) \in SUBSET Slot
      BY <1>1, <1>2 DEF Earlier
    <3>2. KeptBy(Earlier(slots, k)) \in Nat
      BY <3>1, KeptByType
    <3>3. plan[slots[k]] \in Definition
      BY <1>2
    <3>4. Allocated(plan[slots[k]]) \in Nat
      BY <3>3, CellsOfIndex DEF Planned
    <3> QED BY <3>2, <3>4
  <2> QED BY <2>1
<1>4. PeakOf(slots) = Max(V)
  <2>1. DOMAIN slots = 1..count
    BY <1>2
  <2>2. V = {0} \cup {KeptBy({slots[j] : j \in 1..(k - 1)}) + Allocated(plan[slots[k]]) :
                        k \in DOMAIN slots}
    BY <2>1 DEF Earlier
  <2> QED BY <2>2 DEF PeakOf
<1>5. \A i \in DOMAIN slots :
        f[i] = KeptBy(Earlier(slots, i)) + Allocated(plan[slots[i]]) /\ i \in 1..count
  BY <1>2
<1> HIDE DEF f, count
<1>6. \E x \in V : \A y \in V : x >= y
  BY <1>1, <1>3, GreatestNumber
<1>7. (\A i \in DOMAIN slots : f[i] \in V) /\ \A y \in V : y \in Nat
  BY <1>3, <1>5
<1> HIDE DEF V
<1>8. Max(V) \in V /\ \A y \in V : Max(V) >= y
  BY <1>6 DEF Max
<1> QED BY <1>4, <1>5, <1>7, <1>8

-----------------------------------------------------------------------------
(* The order and the peak                                                    *)
Needs(s) == Temporary(plan[s])

\* A peak is not above what is allocated when of some slots one with the least
\* temporary cells is built last.
Reached(p) ==
  \E P \in SUBSET Slot : \E s \in P :
    /\ \A t \in P : Needs(t) >= Needs(s)
    /\ p <= KeptBy(P \ {s}) + Allocated(plan[s])

PlanInv ==
  /\ plan \in [Slot -> Definition]
  /\ order \in Seq(Slot) /\ indexes \in SUBSET Slot /\ held \in Nat /\ peak \in Nat
  /\ \A i, j \in 1..Len(order) : i < j => order[i] # order[j] /\ Needs(order[i]) >= Needs(order[j])
  /\ \A s \in indexes : \A i \in 1..Len(order) : s # order[i] /\ Needs(s) >= Needs(order[i])
  /\ held <= KeptBy(indexes)
  /\ stage = "building" => order # << >>
  /\ peak = 0 \/ Reached(peak)

LEMMA PlanSame ==
  ASSUME plan' = plan
  PROVE  /\ \A s : Needs(s)' = Needs(s)
         /\ \A S : KeptBy(S)' = KeptBy(S)
         /\ \A p : Reached(p)' <=> Reached(p)
<1>1. \A s : Needs(s)' = Needs(s)
  BY DEF Needs
<1>2. \A S : KeptBy(S)' = KeptBy(S)
  BY DEF KeptBy
<1>3. \A p : Reached(p)' <=> Reached(p)
  BY <1>1, <1>2 DEF Reached
<1> QED BY <1>1, <1>2, <1>3

LEMMA SlotCells ==
  ASSUME PlanInv, NEW s \in Slot PROVE Planned(plan[s]) /\ Needs(s) \in Nat
<1>1. plan[s] \in Definition
  BY DEF PlanInv
<1> QED BY <1>1, CellsOfIndex DEF PlanInv, Planned, Needs

\* The order the code sorts the slots in puts those with more temporary cells first.
LEMMA PlanStarts == PlanInit => PlanInv
<1> SUFFICES ASSUME PlanInit PROVE PlanInv
  OBVIOUS
<1> DEFINE count == Cardinality(Slot)
<1>1. /\ plan \in [Slot -> Definition] /\ order \in Orders
      /\ \A i, j \in DOMAIN order : i < j => Before(order[i], order[j])
      /\ stage \in {"panic", "next"} /\ held = 0 /\ peak = 0 /\ indexes = {}
  BY DEF PlanInit
<1>2. count \in Nat
  BY FS_CardinalityType, PlanAssumption
<1>3. order \in [1..count -> Slot]
  BY <1>1 DEF Orders
<1> HIDE DEF count
<1>4. order \in Seq(Slot) /\ Len(order) = count /\ DOMAIN order = 1..count
  <2>1. order \in Seq(Slot)
    BY <1>2, <1>3, SeqDef
  <2> QED BY <1>2, <1>3, <2>1, LenProperties
<1>5. ASSUME NEW s \in Slot PROVE Planned(plan[s]) /\ Needs(s) \in Nat
  <2>1. plan[s] \in Definition
    BY <1>1
  <2> QED BY <2>1, CellsOfIndex DEF Planned, Needs
<1>6. ASSUME NEW i \in 1..Len(order), NEW j \in 1..Len(order), i < j
      PROVE  order[i] # order[j] /\ Needs(order[i]) >= Needs(order[j])
  <2> DEFINE s == order[i]
             t == order[j]
  <2>1. Before(s, t)
    BY <1>1, <1>4, <1>6
  <2>2. s \in Slot /\ t \in Slot
    BY <1>3, <1>4
  <2> HIDE DEF s, t
  <2>3. \/ Needs(s) > Needs(t)
        \/ Needs(s) = Needs(t) /\ plan[s].raw > plan[t].raw
        \/ Needs(s) = Needs(t) /\ plan[s].raw = plan[t].raw /\ s < t
    BY <2>1 DEF Before, Needs
  <2>4. Needs(s) \in Nat /\ Needs(t) \in Nat /\ plan[s].raw \in Nat /\ plan[t].raw \in Nat
    BY <1>5, <2>2 DEF Planned
  <2>5. s \in Nat /\ t \in Nat
    BY <2>2, PlanAssumption
  <2>6. s # t /\ Needs(s) >= Needs(t)
    BY <2>3, <2>4, <2>5
  <2> QED BY <2>6 DEF s, t
<1>7. KeptBy({}) \in Nat
  <2>1. {} \in SUBSET Slot
    OBVIOUS
  <2> QED BY <1>1, <2>1, KeptByType
<1>8. held <= KeptBy(indexes)
  BY <1>1, <1>7
<1> QED BY <1>1, <1>4, <1>6, <1>8 DEF PlanInv

\* What is built next has the least temporary cells of all that is built by then.
LEMMA AllocateKeeps == PlanInv /\ Allocate => PlanInv'
<1> SUFFICES ASSUME PlanInv, Allocate PROVE PlanInv'
  OBVIOUS
<1> DEFINE s == Head(order)
           P == indexes \cup {s}
           a == Allocated(plan[s])
<1>1. /\ order # << >> /\ stage' = "building"
      /\ peak' = Greatest(peak, held + a)
      /\ plan' = plan /\ order' = order /\ held' = held /\ indexes' = indexes
  BY DEF Allocate, Current
<1>2. s \in Slot /\ s = order[1] /\ 1 \in 1..Len(order)
  BY <1>1, EmptySeq, HeadTailProperties, LenProperties DEF PlanInv
<1>3. Planned(plan[s])
  BY <1>2, SlotCells
<1>4. a \in Nat /\ KeptBy(indexes) \in Nat
  BY <1>3, KeptByType DEF PlanInv, Planned
<1>5. peak' \in Nat /\ (peak' = peak \/ peak' = held + a)
  BY <1>1, <1>4 DEF Greatest, PlanInv
<1>6. P \in SUBSET Slot /\ s \in P /\ P \ {s} = indexes /\ \A t \in P : Needs(t) >= Needs(s)
  <2>1. \A t \in indexes : t # s /\ Needs(t) >= Needs(s)
    BY <1>2 DEF PlanInv
  <2>2. Needs(s) >= Needs(s)
    BY <1>2, SlotCells
  <2> QED BY <1>2, <2>1, <2>2 DEF PlanInv
<1>7. held + a <= KeptBy(indexes) + a
  BY <1>4 DEF PlanInv
<1> HIDE DEF s, P, a
<1>8. Reached(held + a)
  BY <1>6, <1>7 DEF Reached, a
<1>9. peak' = 0 \/ Reached(peak')
  BY <1>5, <1>8 DEF PlanInv
<1>10. Reached(peak)' <=> Reached(peak')
  <2>1. \A p : Reached(p)' <=> Reached(p)
    BY <1>1, PlanSame
  <2> QED BY <1>1, <2>1 DEF Reached
<1> QED BY <1>1, <1>5, <1>9, <1>10, PlanSame DEF PlanInv

\* What an index keeps is at most what was estimated.
LEMMA ReturnKeeps == PlanInv /\ Return => PlanInv'
<1> SUFFICES ASSUME PlanInv, Return PROVE PlanInv'
  OBVIOUS
<1> DEFINE s == Head(order)
           d == plan[s]
<1>1. PICK kept \in {Retained(d), Least(1, Retained(d))} : ReturnIndex(kept)
  BY DEF Return, Current
<1>2. /\ stage' = "next" /\ plan' = plan /\ peak' = peak /\ order' = Tail(order)
      /\ indexes' = indexes \cup {s} /\ order # << >>
      /\ held' = held + MemberCells(d.size + 1) + MemberCells(kept)
  BY <1>1 DEF ReturnIndex, Current, Return, PlanInv
<1>3. /\ s \in Slot /\ s = order[1] /\ 1 \in 1..Len(order) /\ Len(order) \in Nat
      /\ order' \in Seq(Slot) /\ Len(order') = Len(order) - 1
      /\ \A i \in 1..Len(order') : order'[i] = order[i + 1] /\ i + 1 \in 1..Len(order)
  <2>1. order \in Seq(Slot) /\ order # << >>
    BY <1>2 DEF PlanInv
  <2>2. /\ Head(order) \in Slot /\ Head(order) = order[1] /\ Tail(order) \in Seq(Slot)
        /\ Len(Tail(order)) = Len(order) - 1 /\ Len(order) \in Nat /\ Len(order) # 0
        /\ \A i \in 1..Len(Tail(order)) : Tail(order)[i] = order[i + 1]
    BY <2>1, EmptySeq, HeadTailProperties, LenProperties
  <2> QED BY <1>2, <2>2
<1>4. Planned(d)
  BY <1>3, SlotCells
<1>5. MemberCells(kept) \in Nat /\ MemberCells(kept) <= MemberCells(Retained(d))
  <2>1. Retained(d) \in Nat
    BY <1>4 DEF Planned
  <2>2. kept \in Nat /\ kept <= Retained(d)
    BY <1>1, <2>1 DEF Least
  <2> QED BY <2>1, <2>2, CellsOfSlabs DEF PlanInv
<1>6. s \notin indexes
  BY <1>3 DEF PlanInv
<1>7. /\ KeptBy(indexes \cup {s}) = KeptBy(indexes) + Kept(d)
      /\ KeptBy(indexes) \in Nat
  BY <1>3, <1>6, KeptByAdded, KeptByType DEF PlanInv
<1>8. held' \in Nat /\ held' <= KeptBy(indexes')
  <2> DEFINE o == MemberCells(d.size + 1)
             m == MemberCells(Retained(d))
             k == MemberCells(kept)
  <2>1. o \in Nat /\ Kept(d) = o + m /\ m \in Nat
    <3>1. Retained(d) \in Nat /\ MemberCells(d.size + 1) \in Nat
      BY <1>4 DEF Planned
    <3> QED BY <3>1, CellsOfSlabs DEF Kept, PlanInv
  <2>2. k \in Nat /\ k <= m
    BY <1>5
  <2>3. held' = held + o + k /\ held \in Nat /\ held <= KeptBy(indexes)
    BY <1>2 DEF PlanInv
  <2>4. KeptBy(indexes') = KeptBy(indexes) + (o + m)
    BY <1>2, <1>7, <2>1
  <2> HIDE DEF o, m, k
  <2> QED BY <1>7, <2>1, <2>2, <2>3, <2>4
<1> HIDE DEF s, d
<1>9. ASSUME NEW i \in 1..Len(order'), NEW j \in 1..Len(order'), i < j
      PROVE  order'[i] # order'[j] /\ Needs(order'[i]) >= Needs(order'[j])
  <2>1. /\ order'[i] = order[i + 1] /\ order'[j] = order[j + 1] /\ i + 1 < j + 1
        /\ i + 1 \in 1..Len(order) /\ j + 1 \in 1..Len(order)
    BY <1>3, <1>9
  <2> QED BY <2>1 DEF PlanInv
<1>10. ASSUME NEW t \in indexes', NEW i \in 1..Len(order')
       PROVE  t # order'[i] /\ Needs(t) >= Needs(order'[i])
  <2>1. order'[i] = order[i + 1] /\ i + 1 \in 1..Len(order) /\ 1 < i + 1
    BY <1>3
  <2>2. CASE t \in indexes
    BY <2>1, <2>2 DEF PlanInv
  <2>3. CASE t = s
    BY <1>3, <2>1, <2>3 DEF PlanInv
  <2> QED BY <1>2, <2>2, <2>3
<1>11. indexes' \in SUBSET Slot
  BY <1>2, <1>3 DEF PlanInv
<1>12. (peak = 0 \/ Reached(peak))'
  <2>1. Reached(peak)' <=> Reached(peak)
    BY <1>2, PlanSame DEF Reached
  <2> QED BY <1>2, <2>1 DEF PlanInv
<1>13. plan' \in [Slot -> Definition]
  BY <1>2 DEF PlanInv
<1> QED BY <1>2, <1>3, <1>8, <1>9, <1>10, <1>11, <1>12, <1>13, PlanSame
       DEF PlanInv

LEMMA PlanStep == PlanInv /\ [PlanNext]_planVars => PlanInv'
<1> SUFFICES ASSUME PlanInv, [PlanNext]_planVars PROVE PlanInv'
  OBVIOUS
<1>1. CASE UNCHANGED planVars
  <2>1. /\ plan' = plan /\ order' = order /\ stage' = stage
        /\ held' = held /\ peak' = peak /\ indexes' = indexes
    BY <1>1 DEF planVars
  <2>2. Reached(peak)' <=> Reached(peak)
    BY <2>1, PlanSame DEF Reached
  <2> QED BY <2>1, <2>2, PlanSame DEF PlanInv
<1> QED BY <1>1, AllocateKeeps, ReturnKeeps DEF PlanNext, PlanStopped

\* In any other order too, the slot of these that is built last comes after the others,
\* and it has no fewer temporary cells.
LEMMA ReachedByAll ==
  ASSUME PlanInv, NEW p \in Nat, Reached(p), NEW slots \in Orders
  PROVE  p <= PeakOf(slots)
<1>1. PICK P \in SUBSET Slot : \E s \in P :
        /\ \A t \in P : Needs(t) >= Needs(s)
        /\ p <= KeptBy(P \ {s}) + Allocated(plan[s])
  BY DEF Reached
<1>2. PICK s \in P :
        /\ \A t \in P : Needs(t) >= Needs(s)
        /\ p <= KeptBy(P \ {s}) + Allocated(plan[s])
  BY <1>1
<1> DEFINE count == Cardinality(Slot)
           f == [i \in 1..count |-> IF slots[i] \in P THEN i ELSE 0]
<1>3. count \in Nat
  BY PlanAssumption, FS_CardinalityType
<1>4. slots \in [1..count -> Slot] /\ \A t \in Slot : \E i \in 1..count : slots[i] = t
  BY DEF Orders
<1>5. f \in [1..count -> Nat] /\ \A i \in 1..count : f[i] = IF slots[i] \in P THEN i ELSE 0
  BY <1>3
<1> HIDE DEF f, count
<1>6. PICK x \in {0} \cup {f[i] : i \in 1..count} :
        \A y \in {0} \cup {f[i] : i \in 1..count} : x >= y
  BY <1>3, <1>5, GreatestNumber
<1>7. \A i \in 1..count : f[i] <= x
  BY <1>5, <1>6
<1>8. x \in 1..count /\ slots[x] \in P
  <2>1. PICK i \in 1..count : slots[i] = s
    BY <1>4
  <2>2. f[i] = i /\ x >= i
    BY <1>5, <1>7, <2>1
  <2>3. PICK k \in 1..count : x = f[k]
    BY <1>3, <1>6, <2>2
  <2>4. f[k] = k /\ slots[k] \in P
    BY <1>5, <2>2, <2>3
  <2> QED BY <2>3, <2>4
<1> DEFINE q == slots[x]
<1>9. P \ {q} \subseteq Earlier(slots, x)
  <2> SUFFICES ASSUME NEW t \in P \ {q} PROVE t \in Earlier(slots, x)
    OBVIOUS
  <2>1. PICK i \in 1..count : slots[i] = t
    BY <1>4
  <2>2. i <= x /\ i # x
    BY <1>5, <1>7, <2>1
  <2>3. i \in 1..(x - 1)
    BY <1>3, <1>8, <2>2
  <2> QED BY <2>1, <2>3 DEF Earlier
<1>10. Earlier(slots, x) \in SUBSET Slot
  BY <1>3, <1>4, <1>8 DEF Earlier
<1>11. q \in P /\ q \in Slot /\ s \in Slot
  BY <1>1, <1>2, <1>8
<1>12. /\ PeakOf(slots) \in Nat
       /\ KeptBy(Earlier(slots, x)) + Allocated(plan[q]) <= PeakOf(slots)
  <2>1. x \in DOMAIN slots
    BY <1>4, <1>8
  <2> QED BY <2>1, PeakIsAbove DEF PlanInv
<1> HIDE DEF q
<1>13. /\ KeptBy(P \ {q}) <= KeptBy(Earlier(slots, x))
       /\ KeptBy(P \ {q}) \in Nat /\ KeptBy(Earlier(slots, x)) \in Nat
       /\ KeptBy(P \ {s}) \in Nat
  BY <1>1, <1>9, <1>10, KeptByMore, KeptByType DEF PlanInv
<1>14. /\ KeptBy(P) = KeptBy(P \ {q}) + Kept(plan[q])
       /\ KeptBy(P) = KeptBy(P \ {s}) + Kept(plan[s])
  <2>1. ASSUME NEW t \in P PROVE KeptBy(P) = KeptBy(P \ {t}) + Kept(plan[t])
    <3>1. P \ {t} \in SUBSET Slot /\ t \in Slot /\ t \notin P \ {t} /\ (P \ {t}) \cup {t} = P
      BY <1>1
    <3> QED BY <3>1, KeptByAdded DEF PlanInv
  <2> QED BY <1>2, <1>11, <2>1
<1>15. Planned(plan[q]) /\ Planned(plan[s]) /\ Needs(q) >= Needs(s)
  BY <1>2, <1>11, SlotCells
<1> QED BY <1>2, <1>12, <1>13, <1>14, <1>15 DEF Planned, Needs

\* Whatever the indexes of a report need and keep, building them in the order that
\* indexBuildOrder sorts them in never allocates more at a time than the peak of any
\* other order, and only less when an index deduplicates more than was estimated
\* (go/indexes.go: indexBuildOrder, and the loop of buildIndexes).
THEOREM NoOrderHasALowerPeak == PlanSpec => []PeakIsMinimal
<1>1. PlanInv => PeakIsMinimal
  <2> SUFFICES ASSUME PlanInv, NEW slots \in Orders PROVE peak <= PeakOf(slots)
    BY DEF PeakIsMinimal
  <2>1. CASE peak = 0
    <3>1. PeakOf(slots) \in Nat
      BY PeakIsAbove DEF PlanInv
    <3> QED BY <2>1, <3>1
  <2>2. CASE peak # 0
    BY <2>2, ReachedByAll DEF PlanInv
  <2> QED BY <2>1, <2>2
<1> QED BY <1>1, PlanStarts, PlanStep, PTL DEF PlanSpec
==============================================================================
