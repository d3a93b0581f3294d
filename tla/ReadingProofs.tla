---------------------------- MODULE ReadingProofs ----------------------------
(***************************************************************************)
(* That the reads of a report answer what a Python sequence would, for any *)
(* number of threads and any elements.                                     *)
(*                                                                         *)
(* Two arguments meet.  Ownership: every call in progress has a reference, *)
(* so that the report is live while one reads, whatever is dropped         *)
(* meanwhile.  Progress: what an operation has read and what it has still  *)
(* to read make up the positions that it began with.                       *)
(***************************************************************************)
EXTENDS Reading, FiniteSetTheorems, SequenceTheorems, TLAPS

LEMMA Elements ==
  /\ Size \in Nat /\ Size > 0 /\ LocalSize \in Nat
  /\ \A i \in 1..Size : Element[i].tag = "text" /\ Element[i].size \in Nat
<1>1. Element \in Seq({Element[i] : i \in DOMAIN Element}) /\ Element # << >>
  BY ReadingAssumption
<1>2. Len(Element) \in Nat /\ DOMAIN Element = 1..Len(Element) /\ Len(Element) > 0
  <2> DEFINE S == {Element[i] : i \in DOMAIN Element}
  <2>1. Element \in Seq(S)
    BY <1>1
  <2> HIDE DEF S
  <2> QED BY <1>1, <2>1
<1> QED BY <1>2, ReadingAssumption DEF Size

\* A sequence that is given by its elements, and the two ways in which a call moves
\* on in one.
LEMMA Tabulated ==
  ASSUME NEW f, NEW k \in Nat
  PROVE  /\ Len([i \in 1..k |-> f[i]]) = k
         /\ Append([i \in 1..k |-> f[i]], f[k + 1]) = [i \in 1..(k + 1) |-> f[i]]
<1> DEFINE s == [i \in 1..k |-> f[i]]
           S == {f[i] : i \in 1..k}
<1>1. s \in Seq(S) /\ Len(s) = k
  OBVIOUS
<1>2. /\ Append(s, f[k + 1]) \in Seq(S \cup {f[k + 1]})
      /\ Len(Append(s, f[k + 1])) = k + 1
      /\ \A i \in 1..k : Append(s, f[k + 1])[i] = s[i]
      /\ Append(s, f[k + 1])[k + 1] = f[k + 1]
  <2>1. s \in Seq(S \cup {f[k + 1]}) /\ f[k + 1] \in S \cup {f[k + 1]}
    OBVIOUS
  <2> HIDE DEF s, S
  <2> QED BY <1>1, <2>1, AppendProperties
<1>3. Append(s, f[k + 1]) = [i \in 1..(k + 1) |-> f[i]]
  <2>1. DOMAIN Append(s, f[k + 1]) = 1..(k + 1)
        /\ Append(s, f[k + 1]) = [i \in 1..(k + 1) |-> Append(s, f[k + 1])[i]]
    <3> DEFINE T == S \cup {f[k + 1]}
               a == Append(s, f[k + 1])
    <3>1. a \in Seq(T) /\ Len(a) = k + 1
      BY <1>2
    <3> HIDE DEF T, a
    <3>2. DOMAIN a = 1..(k + 1) /\ a = [i \in 1..(k + 1) |-> a[i]]
      BY <3>1
    <3> QED BY <3>2 DEF a
  <2>2. \A i \in 1..(k + 1) : Append(s, f[k + 1])[i] = f[i]
    <3>1. \A i \in 1..(k + 1) : i \in 1..k \/ i = k + 1
      OBVIOUS
    <3>2. \A i \in 1..k : s[i] = f[i]
      OBVIOUS
    <3> HIDE DEF s
    <3> QED BY <1>2, <3>1, <3>2
  <2> QED BY <2>1, <2>2
<1> QED BY <1>1, <1>3

LEMMA RestOf ==
  ASSUME NEW p, NEW k \in Nat, NEW l \in Nat, k < l
  PROVE  LET rest == [j \in 1..(l - k) |-> p[k + j]]
         IN /\ rest # << >> /\ Head(rest) = p[k + 1]
            /\ Tail(rest) = [j \in 1..(l - (k + 1)) |-> p[(k + 1) + j]]
<1> DEFINE m == l - k
           rest == [j \in 1..m |-> p[k + j]]
           S == {p[k + j] : j \in 1..m}
<1>1. m \in Nat /\ m > 0 /\ l - (k + 1) = m - 1
  OBVIOUS
<1> HIDE DEF m
<1>2. rest \in Seq(S) /\ Len(rest) = m /\ \A j \in 1..m : rest[j] = p[k + j]
  <2>1. rest \in [1..m -> S] /\ \A j \in 1..m : rest[j] = p[k + j]
    OBVIOUS
  <2> HIDE DEF rest, S
  <2> QED BY <1>1, <2>1
<1> HIDE DEF rest, S
<1>3. rest # << >> /\ Head(rest) = p[k + 1]
  <2>1. 1 \in 1..m
    BY <1>1
  <2> QED BY <1>1, <1>2, <2>1
<1> DEFINE t == Tail(rest)
<1>4. t \in Seq(S) /\ Len(t) = m - 1 /\ \A j \in 1..(m - 1) : t[j] = rest[j + 1]
  BY <1>1, <1>2, <1>3, HeadTailProperties
<1> HIDE DEF t
<1>5. t = [j \in 1..(m - 1) |-> t[j]]
  BY <1>1, <1>4
<1>6. \A j \in 1..(m - 1) : t[j] = p[(k + 1) + j]
  <2>1. \A j \in 1..(m - 1) : j + 1 \in 1..m /\ k + (j + 1) = (k + 1) + j
    BY <1>1
  <2> QED BY <1>2, <1>4, <2>1
<1> QED BY <1>1, <1>3, <1>5, <1>6 DEF rest, t, m

-----------------------------------------------------------------------------
(* What an operation reads.                                                  *)

Legal(o) == o \in Operation /\ (o.kind = "item" => InRange(o.index))
Total(o) == Len(Positions(o))

\* The values at the positions of an operation.
Wanted(o) == [i \in 1..Total(o) |-> Native(Positions(o)[i]).value]

\* No operation asks for a position that the sequence does not have.
LEMMA PositionsExist ==
  ASSUME NEW o, Legal(o)
  PROVE  /\ Total(o) \in Nat /\ Positions(o) = [i \in 1..Total(o) |-> Positions(o)[i]]
         /\ \A i \in 1..Total(o) : Positions(o)[i] \in -1..(Size - 1)
<1> USE Elements
<1>1. CASE o \in Slices
  <2>1. /\ o.kind = "slice" /\ o.first \in 0..(Size - 1) /\ o.step \in {-1, 1, 2}
        /\ o.length \in 0..Size
        /\ o.length > 0 => o.first + (o.length - 1) * o.step \in 0..(Size - 1)
    BY <1>1 DEF Slices
  <2>2. Positions(o) = [i \in 1..o.length |-> o.first + (i - 1) * o.step]
    BY <2>1 DEF Positions
  <2>3. Total(o) = o.length
    BY <2>1, <2>2 DEF Total
  <2>4. ASSUME NEW i \in 1..o.length PROVE o.first + (i - 1) * o.step \in 0..(Size - 1)
    BY <2>1
  <2> QED BY <2>1, <2>2, <2>3, <2>4
<1>2. CASE o.kind = "item"
  <2>1. Positions(o) = <<Wrapped(o.index)>> /\ Wrapped(o.index) \in 0..(Size - 1)
    <3>1. o.index \in Index
      BY <1>2 DEF Legal, Operation, Slices
    <3> QED BY <1>2, <3>1 DEF Legal, Positions, InRange, Wrapped, Index
  <2> QED BY <2>1 DEF Total
<1>3. ASSUME NEW a \in 0..Size, NEW b \in 0..Size, Positions(o) = From(a, b)
      PROVE  /\ Total(o) \in Nat /\ Positions(o) = [i \in 1..Total(o) |-> Positions(o)[i]]
             /\ \A i \in 1..Total(o) : Positions(o)[i] \in -1..(Size - 1)
  <2>1. CASE b > a
    <3>1. From(a, b) = [i \in 1..(b - a) |-> a + i - 1]
      BY <2>1 DEF From
    <3>2. Len(From(a, b)) = b - a
      BY <2>1, <3>1
    <3> QED BY <1>3, <2>1, <3>1, <3>2 DEF Total
  <2>2. CASE ~(b > a)
    <3>1. From(a, b) = << >>
      BY <2>2 DEF From
    <3> QED BY <1>3, <3>1 DEF Total
  <2> QED BY <2>1, <2>2
<1>4. CASE o.kind = "index"
  <2>1. o.first \in 0..Size /\ o.last \in 0..Size
    BY <1>4 DEF Legal, Operation, Slices
  <2> QED BY <1>3, <1>4, <2>1 DEF Positions
<1>5. CASE o.kind \in {"iter", "count"}
  <2>1. Positions(o) = From(0, Size)
    BY <1>5 DEF Positions
  <2> QED BY <1>3, <2>1
<1>6. CASE o.kind = "property"
  <2>1. Positions(o) = <<-1>>
    BY <1>6 DEF Positions
  <2> QED BY <2>1 DEF Total
<1> QED BY <1>1, <1>2, <1>4, <1>5, <1>6 DEF Legal, Operation

\* Each of the two calls gets the whole text that it is made for.
LEMMA TextIsWhole ==
  ASSUME NEW i \in -1..(Size - 1)
  PROVE  LET v == Native(i)
         IN /\ ~Long(v) => Copied(v, LocalSize) = v.value
            /\ Long(v) => Copied(v, v.size) = v.value
  BY Elements DEF Native, Long, Copied

-----------------------------------------------------------------------------
(* The progress of an operation.                                             *)

\* A search has found its value with the k-th element that it read.
HasFound(o, k) == o.kind = "index" /\ k > 0 /\ Wanted(o)[k] = o.value

\* An operation has read the first k of its elements and has the others to read,
\* unless it has found what it searched for.
Progress(o, k, read, left) ==
  /\ k \in 0..Total(o)
  /\ read = [i \in 1..k |-> Wanted(o)[i]]
  /\ \A i \in 1..(k - 1) : ~HasFound(o, i)
  /\ left = IF HasFound(o, k) THEN << >> ELSE [j \in 1..(Total(o) - k) |-> Positions(o)[k + j]]

LEMMA ProgressBegins ==
  ASSUME NEW o, Legal(o)
  PROVE  Progress(o, 0, << >>, Positions(o))
<1>1. Total(o) \in Nat /\ Positions(o) = [j \in 1..Total(o) |-> Positions(o)[j]]
  BY PositionsExist
<1>2. [j \in 1..(Total(o) - 0) |-> Positions(o)[0 + j]] = [j \in 1..Total(o) |-> Positions(o)[j]]
  BY <1>1
<1>3. ~HasFound(o, 0) /\ 1..0 = {} /\ 1..(0 - 1) = {}
  BY DEF HasFound
<1>4. [i \in 1..0 |-> Wanted(o)[i]] = << >>
  OBVIOUS
<1> QED BY <1>1, <1>2, <1>3, <1>4 DEF Progress

\* An operation reads the next element and moves on.
LEMMA ProgressMoves ==
  ASSUME NEW o, Legal(o), NEW k, NEW read, NEW left, Progress(o, k, read, left), left # << >>
  PROVE  LET value == Native(Head(left)).value
         IN /\ Head(left) \in -1..(Size - 1)
            /\ Progress(o, k + 1, Append(read, value),
                        IF o.kind = "index" /\ value = o.value THEN << >> ELSE Tail(left))
<1> DEFINE l == Total(o)
           p == Positions(o)
<1>1. l \in Nat /\ k \in 0..l /\ \A i \in 1..l : p[i] \in -1..(Size - 1)
  BY PositionsExist DEF Progress
<1>2. ~HasFound(o, k) /\ left = [j \in 1..(l - k) |-> p[k + j]]
  BY DEF Progress
<1> HIDE DEF l, p
<1>3. k < l
  <2>1. CASE k = l
    <3>1. [j \in 1..(l - k) |-> p[k + j]] = << >>
      BY <1>1, <2>1
    <3> QED BY <1>2, <3>1
  <2> QED BY <1>1, <2>1
<1>4. Head(left) = p[k + 1] /\ Tail(left) = [j \in 1..(l - (k + 1)) |-> p[(k + 1) + j]]
  BY SMTT(40), <1>1, <1>2, <1>3, RestOf
<1>5. Head(left) \in -1..(Size - 1)
  BY <1>1, <1>3, <1>4
<1>6. Wanted(o)[k + 1] = Native(Head(left)).value
  BY <1>1, <1>3, <1>4 DEF Wanted, l, p
<1>7. Append(read, Native(Head(left)).value) = [i \in 1..(k + 1) |-> Wanted(o)[i]]
  <2>1. read = [i \in 1..k |-> Wanted(o)[i]] /\ k \in Nat
    BY <1>1 DEF Progress
  <2> QED BY <1>6, <2>1, Tabulated
<1>8. HasFound(o, k + 1) <=> o.kind = "index" /\ Native(Head(left)).value = o.value
  BY <1>1, <1>6 DEF HasFound
<1>9. \A i \in 1..((k + 1) - 1) : ~HasFound(o, i)
  <2>1. \A i \in 1..((k + 1) - 1) : i = k \/ i \in 1..(k - 1)
    BY <1>1
  <2> QED BY <1>2, <2>1 DEF Progress
<1>10. k + 1 \in 0..Total(o)
  BY <1>1, <1>3 DEF l
<1> QED BY <1>4, <1>5, <1>7, <1>8, <1>9, <1>10 DEF Progress, l, p

\* What a Python sequence would answer is what the positions hold ...
LEMMA ItemsWanted == \A i \in 0..(Size - 1) : Native(i).value = Item(i)
<1>1. Size \in Nat
  BY Elements
<1>2. ASSUME NEW i \in 0..(Size - 1) PROVE Native(i) = Element[i + 1]
  <2>1. ~(i < 0) /\ ~(i >= Size)
    BY <1>1
  <2> QED BY <2>1, Zenon DEF Native
<1> QED BY <1>2 DEF Item

\* ... so that an operation that has nothing left to read answers it.
LEMMA AnswerIsExact ==
  ASSUME NEW o, Legal(o), NEW k, NEW read, Progress(o, k, read, << >>)
  PROVE  Answer(o, read) = Expected(o)
<1> DEFINE l == Total(o)
           p == Positions(o)
           w == Wanted(o)
<1>1. /\ l \in Nat /\ k \in 0..l /\ \A i \in 1..l : p[i] \in -1..(Size - 1)
      /\ \A i \in 1..l : w[i] = Native(p[i]).value
      /\ read = [i \in 1..k |-> w[i]] /\ \A i \in 1..(k - 1) : ~HasFound(o, i)
  BY PositionsExist DEF Progress, Wanted
<1>2. HasFound(o, k) \/ k = l
  <2>1. ASSUME k < l PROVE [j \in 1..(l - k) |-> p[k + j]] # << >>
    <3>1. k \in Nat
      BY <1>1
    <3> HIDE DEF l, p
    <3> QED BY <1>1, <2>1, <3>1, RestOf
  <2> QED BY <1>1, <2>1 DEF Progress
<1>3. Len(read) = k /\ DOMAIN read = 1..k
  <2>1. k \in Nat
    BY <1>1
  <2> HIDE DEF w
  <2> QED BY <1>1, <2>1, Tabulated
<1>4. Size \in Nat /\ Size > 0
  BY Elements
<1> HIDE DEF l, p, w
<1>5. CASE o.kind = "slice"
  <2>1. o.length \in Nat /\ o.first \in 0..(Size - 1) /\ o.step \in {-1, 1, 2}
        /\ (o.length > 0 => o.first + (o.length - 1) * o.step \in 0..(Size - 1))
    BY <1>4, <1>5 DEF Legal, Operation, Slices
  <2>2. p = [i \in 1..o.length |-> o.first + (i - 1) * o.step] /\ k = l
    BY <1>2, <1>5 DEF Positions, HasFound, p
  <2>3. l = o.length
    BY <2>1, <2>2 DEF Total, l, p
  <2>4. ASSUME NEW i \in 1..o.length PROVE o.first + (i - 1) * o.step \in 0..(Size - 1)
    <3>1. CASE o.step = -1
      BY SMTT(40), <1>4, <2>1, <3>1
    <3>2. CASE o.step = 1
      BY <1>4, <2>1, <3>2
    <3>3. CASE o.step = 2
      BY <1>4, <2>1, <3>3
    <3> QED BY <2>1, <3>1, <3>2, <3>3
  <2>5. \A i \in 1..o.length : w[i] = Item(o.first + (i - 1) * o.step)
    BY <1>1, <2>2, <2>3, <2>4, ItemsWanted
  <2>6. read = [i \in 1..o.length |-> Item(o.first + (i - 1) * o.step)]
    BY <1>1, <2>2, <2>3, <2>5
  <2> QED BY <1>5, <2>6 DEF Answer, Expected
<1>6. CASE o.kind = "item"
  <2>1. o.index \in Index /\ InRange(o.index) /\ p = <<Wrapped(o.index)>> /\ k = l
    BY <1>2, <1>6 DEF Legal, Operation, Slices, Positions, HasFound, p
  <2>2. l = 1 /\ Wrapped(o.index) \in 0..(Size - 1)
    BY <1>4, <2>1 DEF Total, l, p, InRange, Wrapped, Index
  <2>3. read[1] = Item(Wrapped(o.index))
    BY <1>1, <2>1, <2>2, ItemsWanted
  <2>4. Expected(o) = Item(Wrapped(o.index))
    BY <1>4, <1>6, <2>1, <2>2 DEF Expected, Wrapped, Index
  <2> QED BY <1>6, <2>3, <2>4 DEF Answer
<1>7. ASSUME o.kind \in {"iter", "count"}
      PROVE  /\ k = Size /\ read = [i \in 1..Size |-> Item(i - 1)]
             /\ \A i \in 1..Size : read[i] = Element[i].value
  <2>1. p = [i \in 1..Size |-> 0 + i - 1] /\ k = l
    BY SMTT(40), <1>2, <1>4, <1>7 DEF Positions, From, HasFound, p
  <2>2. l = Size
    BY <1>4, <2>1 DEF Total, l, p
  <2>3. \A i \in 1..Size : w[i] = Item(i - 1)
    <3>1. \A i \in 1..Size : p[i] = i - 1 /\ i - 1 \in 0..(Size - 1)
      BY <1>4, <2>1
    <3> QED BY <1>1, <2>2, <3>1, ItemsWanted
  <2>4. \A i \in 1..Size : Item(i - 1) = Element[i].value
    BY <1>4 DEF Item
  <2> QED BY <1>1, <2>1, <2>2, <2>3, <2>4
<1>8. CASE o.kind = "iter"
  BY <1>7, <1>8 DEF Answer, Expected
<1>9. CASE o.kind = "count"
  <2>1. {i \in DOMAIN read : read[i] = o.value} = {i \in 1..Size : Element[i].value = o.value}
    BY <1>3, <1>7, <1>9
  <2> QED BY <1>9, <2>1 DEF Answer, Expected
<1>10. CASE o.kind = "property"
  <2>1. p = <<-1>> /\ k = l
    BY <1>2, <1>10 DEF Positions, HasFound, p
  <2>2. l = 1 /\ p[1] = -1
    BY <2>1 DEF Total, l, p
  <2>3. read[1] = Number(Size)
    BY <1>1, <2>1, <2>2 DEF Native
  <2> QED BY <1>10, <2>3 DEF Answer, Expected
<1>11. CASE o.kind = "index"
  <2> DEFINE found == {i \in o.first..(o.last - 1) : Item(i) = o.value}
  <2>1. o.first \in 0..Size /\ o.last \in 0..Size /\ p = From(o.first, o.last)
    BY <1>11 DEF Legal, Operation, Slices, Positions, p
  <2>2. l = IF o.last > o.first THEN o.last - o.first ELSE 0
    BY <1>4, <2>1 DEF From, Total, l, p
  <2>3. \A i \in 1..l : p[i] = o.first + i - 1 /\ o.first + i - 1 \in 0..(Size - 1)
    BY <1>4, <2>1, <2>2 DEF From
  <2>4. \A i \in 1..l : w[i] = Item(o.first + i - 1)
    BY <1>1, <2>3, ItemsWanted
  <2>5. \A i \in 1..(k - 1) : w[i] # o.value
    BY <1>1, <1>11 DEF HasFound, w
  <2>6. CASE HasFound(o, k)
    <3>1. k \in 1..l /\ w[k] = o.value
      BY <1>1, <2>6 DEF HasFound, w
    <3>2. o.first + k - 1 \in found
      BY <1>4, <2>1, <2>2, <2>4, <3>1
    <3>3. ASSUME NEW i \in found PROVE o.first + k - 1 <= i
      <4>1. i \in Int /\ i >= o.first /\ i < o.last /\ Item(i) = o.value /\ k \in Int
        BY <1>1, <1>4, <2>1, <3>3
      <4>2. CASE i < o.first + k - 1
        <5>1. i - o.first + 1 \in 1..(k - 1) /\ i - o.first + 1 \in 1..l
              /\ o.first + (i - o.first + 1) - 1 = i
          <6>1. l \in Nat /\ k \in 1..l /\ o.first \in Nat
            BY <1>1, <1>4, <2>1, <3>1
          <6> HIDE DEF found
          <6> QED BY <4>1, <4>2, <6>1
        <5> QED BY <2>4, <2>5, <4>1, <5>1
      <4> QED BY <4>1, <4>2, <2>1, <1>4
    <3>4. Min(found) = o.first + k - 1
      <4>1. \A x \in found : (\A y \in found : x <= y) => x = o.first + k - 1
        <5>1. \A x \in found : x \in Int
          BY <1>4, <2>1
        <5>2. o.first + k - 1 \in Int
          BY <5>1, <3>2
        <5> HIDE DEF found
        <5> QED BY <3>2, <3>3, <5>1, <5>2
      <4> HIDE DEF found
      <4> QED BY <3>2, <3>3, <4>1 DEF Min
    <3>5. read # << >> /\ read[Len(read)] = o.value
      BY SMTT(40), <1>1, <1>3, <3>1
    <3>6. Answer(o, read) = Number(o.first + k - 1)
      BY <1>3, <1>11, <3>5 DEF Answer
    <3>7. Expected(o) = Number(Min(found))
      BY <1>11, <3>2 DEF Expected
    <3> QED BY <3>4, <3>6, <3>7
  <2>7. CASE ~HasFound(o, k)
    <3>1. k = l
      BY <1>2, <2>7
    <3>2. \A i \in 1..l : w[i] # o.value
      <4>1. ASSUME l > 0 PROVE w[l] # o.value
        BY SMTT(40), <1>1, <1>11, <2>7, <3>1, <4>1 DEF HasFound, w
      <4>2. \A i \in 1..l : (i = l /\ l > 0) \/ i \in 1..(k - 1)
        BY <1>1, <3>1
      <4> QED BY <2>5, <4>1, <4>2
    <3>3. found = {}
      <4>1. ASSUME NEW i \in found PROVE FALSE
        <5>1. i \in Int /\ i >= o.first /\ i < o.last /\ Item(i) = o.value
          BY <1>4, <2>1
        <5>2. i - o.first + 1 \in 1..l /\ o.first + (i - o.first + 1) - 1 = i
          <6>1. o.first \in Nat /\ o.last \in Nat
            BY <1>4, <2>1
          <6> HIDE DEF found, l
          <6> QED BY <2>2, <5>1, <6>1
        <5> QED BY <2>4, <3>2, <5>1, <5>2
      <4> QED BY <4>1
    <3>4. read # << >> => read[Len(read)] # o.value
      <4>1. read # << >> => k \in 1..l
        <5>1. k = 0 => read = << >>
          BY <1>1
        <5> QED BY <1>1, <5>1
      <4> QED BY <1>1, <1>3, <3>2, <4>1
    <3>5. Answer(o, read) = Raised("ValueError")
      BY <1>11, <3>4 DEF Answer
    <3>6. Expected(o) = Raised("ValueError")
      BY <1>11, <3>3 DEF Expected
    <3> QED BY <3>5, <3>6
  <2> QED BY <2>6, <2>7
<1> QED BY <1>5, <1>6, <1>8, <1>9, <1>10, <1>11 DEF Legal, Operation, Slices

-----------------------------------------------------------------------------
(* The invariant.                                                            *)

Busy == {t \in Thread : pc[t] # "idle"}

Shape ==
  /\ pc \in [Thread -> {"idle", "get", "unlocked", "suspended"}]
  /\ op = [t \in Thread |-> op[t]] /\ todo = [t \in Thread |-> todo[t]]
  /\ items = [t \in Thread |-> items[t]] /\ result = [t \in Thread |-> result[t]]

\* The references are those of the program and one of each call in progress.
Ownership ==
  /\ views \in Nat /\ refs = views + Cardinality(Busy)
  /\ handle = IF refs = 0 THEN "released" ELSE "live"

Call(t) ==
  /\ pc[t] = "idle" =>
       result[t] \in {Pending, Raised("MemoryError"), Closed} \/ result[t] = Expected(op[t])
  /\ pc[t] # "idle" =>
       /\ Legal(op[t]) /\ result[t] = Pending
       /\ \E k : Progress(op[t], k, items[t], todo[t])
  /\ pc[t] = "unlocked" => todo[t] # << >> /\ Long(Native(Head(todo[t])))

Inv == Shape /\ Ownership /\ \A t \in Thread : Call(t)

LEMMA InvInit == Init => Inv
<1> SUFFICES ASSUME Init PROVE Inv
  OBVIOUS
<1>1. Shape /\ \A t \in Thread : Call(t)
  BY DEF Init, Shape, Call
<1>2. Ownership
  <2>1. Busy = {}
    BY DEF Init, Busy
  <2> QED BY <2>1, FS_EmptySet DEF Init, Ownership
<1> QED BY <1>1, <1>2 DEF Inv

\* A thread does not touch the call of another.
LEMMA OthersKeep ==
  ASSUME NEW t, Call(t), pc'[t] = pc[t], op'[t] = op[t], todo'[t] = todo[t],
         items'[t] = items[t], result'[t] = result[t]
  PROVE  Call(t)'
  BY DEF Call

LEMMA BusyCounts == IsFiniteSet(Busy) /\ Cardinality(Busy) \in Nat
  BY ReadingAssumption, FS_Subset, FS_CardinalityType DEF Busy

\* A call in progress holds the report.
LEMMA BusyIsLive == ASSUME Inv, NEW t \in Thread, pc[t] # "idle" PROVE handle = "live"
<1>1. Busy # {}
  BY DEF Busy
<1>2. Cardinality(Busy) > 0
  BY <1>1, BusyCounts, FS_EmptySet
<1> QED BY <1>2, BusyCounts DEF Inv, Ownership

\* One more call, or one call less.
LEMMA BusyGrows ==
  ASSUME NEW t \in Thread, pc[t] = "idle", pc' = [pc EXCEPT ![t] = "get"], Shape
  PROVE  Cardinality(Busy)' = Cardinality(Busy) + 1
<1>1. Busy' = Busy \cup {t} /\ t \notin Busy
  BY DEF Busy, Shape
<1> QED BY <1>1, BusyCounts, FS_AddElement

LEMMA BusyShrinks ==
  ASSUME NEW t \in Thread, pc[t] # "idle", pc' = [pc EXCEPT ![t] = "idle"], Shape
  PROVE  Cardinality(Busy)' = Cardinality(Busy) - 1
<1>1. Busy' = Busy \ {t} /\ t \in Busy
  BY DEF Busy, Shape
<1> QED BY <1>1, BusyCounts, FS_RemoveElement

\* A step of a thread within its call.
LEMMA SameBusy ==
  ASSUME Shape, Ownership, NEW t \in Thread, pc[t] # "idle", NEW p, p # "idle",
         pc' = [pc EXCEPT ![t] = p], UNCHANGED <<handle, refs, views>>
  PROVE  Ownership'
<1>1. Busy' = Busy
  BY DEF Busy, Shape
<1> QED BY <1>1 DEF Ownership

-----------------------------------------------------------------------------
(* The steps.                                                                *)

LEMMA BeginStep ==
  ASSUME Inv, NEW t \in Thread, NEW o \in Operation, Begin(t, o)
  PROVE  Inv'
<1>1. /\ pc[t] = "idle" /\ views > 0 /\ UNCHANGED <<handle, views>>
      /\ op' = [op EXCEPT ![t] = o] /\ items' = [items EXCEPT ![t] = << >>]
  BY DEF Begin
<1>2. CASE o.kind = "item" /\ ~InRange(o.index)
  <2>1. result' = [result EXCEPT ![t] = Raised("IndexError")] /\ UNCHANGED <<refs, pc, todo>>
    BY <1>2 DEF Begin
  <2>2. Expected(o) = Raised("IndexError")
    BY <1>2, Elements DEF Expected, InRange, Wrapped, Operation, Slices, Index
  <2>3. Shape'
    BY <1>1, <2>1 DEF Inv, Shape
  <2>4. Ownership'
    BY <1>1, <2>1 DEF Inv, Ownership, Busy
  <2>5. Call(t)'
    BY <1>1, <2>1, <2>2 DEF Inv, Shape, Call
  <2>6. \A u \in Thread \ {t} : Call(u)'
    BY <1>1, <2>1, OthersKeep DEF Inv, Shape
  <2> QED BY <2>3, <2>4, <2>5, <2>6 DEF Inv
<1>3. CASE ~(o.kind = "item" /\ ~InRange(o.index))
  <2>1. /\ pc' = [pc EXCEPT ![t] = "get"] /\ todo' = [todo EXCEPT ![t] = Positions(o)]
        /\ refs' = refs + 1 /\ result' = [result EXCEPT ![t] = Pending]
    BY <1>3 DEF Begin
  <2>2. Legal(o) /\ Progress(o, 0, << >>, Positions(o))
    BY <1>3, ProgressBegins DEF Legal
  <2>3. Shape'
    BY <1>1, <2>1 DEF Inv, Shape
  <2>4. Ownership'
    <3>1. Cardinality(Busy)' = Cardinality(Busy) + 1
      BY <1>1, <2>1, BusyGrows DEF Inv
    <3>2. refs \in Nat /\ refs > 0 /\ views' \in Nat
      BY <1>1, BusyCounts DEF Inv, Ownership
    <3> QED BY <1>1, <2>1, <3>1, <3>2, BusyCounts DEF Inv, Ownership
  <2>5. Call(t)'
    BY <1>1, <2>1, <2>2 DEF Inv, Shape, Call
  <2>6. \A u \in Thread \ {t} : Call(u)'
    BY <1>1, <2>1, OthersKeep DEF Inv, Shape
  <2> QED BY <2>3, <2>4, <2>5, <2>6 DEF Inv
<1> QED BY <1>2, <1>3

\* The element is the one that the sequence has at the position.
LEMMA TakeStep ==
  ASSUME Inv, NEW t \in Thread, pc[t] # "idle", todo[t] # << >>,
         Take(t, Native(Head(todo[t])).value)
  PROVE  Inv'
<1> DEFINE o == op[t]
           value == Native(Head(todo[t])).value
           left == IF o.kind = "index" /\ value = o.value THEN << >> ELSE Tail(todo[t])
           p == IF o.kind = "iter" THEN "suspended" ELSE "get"
<1>1. /\ items' = [items EXCEPT ![t] = Append(items[t], value)]
      /\ todo' = [todo EXCEPT ![t] = left]
      /\ pc' = [pc EXCEPT ![t] = p]
      /\ UNCHANGED <<handle, refs, views, op, result>>
  BY DEF Take, Inv, Shape
<1>2. PICK k : Legal(o) /\ result[t] = Pending /\ Progress(o, k, items[t], todo[t])
  BY DEF Inv, Call
<1>3. Progress(o, k + 1, Append(items[t], value), left)
  BY <1>2, ProgressMoves
<1>4. p \in {"get", "suspended"}
  OBVIOUS
<1> HIDE DEF o, value, left, p
<1>5. Shape'
  BY <1>1, <1>4 DEF Inv, Shape
<1>6. Ownership'
  <2>1. p # "idle"
    BY <1>4
  <2> QED BY <1>1, <2>1, SameBusy DEF Inv
<1>7. Call(t)'
  <2>1. /\ items'[t] = Append(items[t], value) /\ todo'[t] = left /\ pc'[t] = p
        /\ op'[t] = o /\ result'[t] = Pending
    BY <1>1, <1>2 DEF Inv, Shape, o
  <2> QED BY <1>2, <1>3, <1>4, <2>1 DEF Call
<1>8. \A u \in Thread \ {t} : Call(u)'
  BY <1>1, OthersKeep DEF Inv, Shape
<1> QED BY <1>5, <1>6, <1>7, <1>8 DEF Inv

LEMMA GetStep == ASSUME Inv, NEW t \in Thread, Get(t) PROVE Inv'
<1> DEFINE v == Native(Head(todo[t]))
<1>1. pc[t] = "get" /\ todo[t] # << >> /\ handle = "live"
  BY BusyIsLive DEF Get
<1>2. Head(todo[t]) \in -1..(Size - 1)
  <2>1. \E k : Legal(op[t]) /\ Progress(op[t], k, items[t], todo[t])
    BY <1>1 DEF Inv, Call
  <2> QED BY <1>1, <2>1, ProgressMoves
<1>3. CASE Long(v)
  <2>1. /\ pc' = [pc EXCEPT ![t] = "unlocked"]
        /\ UNCHANGED <<handle, refs, views, op, todo, items, result>>
    BY <1>1, <1>3 DEF Get
  <2>2. Shape'
    BY <2>1 DEF Inv, Shape
  <2>3. Ownership'
    BY <1>1, <2>1, SameBusy DEF Inv
  <2>4. Call(t)'
    BY <1>1, <1>3, <2>1 DEF Inv, Shape, Call
  <2>5. \A u \in Thread \ {t} : Call(u)'
    BY <2>1, OthersKeep DEF Inv, Shape
  <2> QED BY <2>2, <2>3, <2>4, <2>5 DEF Inv
<1>4. CASE ~Long(v)
  <2>1. Take(t, Copied(v, LocalSize))
    BY <1>1, <1>4 DEF Get
  <2>2. Copied(v, LocalSize) = v.value
    BY <1>2, <1>4, TextIsWhole
  <2> QED BY <1>1, <2>1, <2>2, TakeStep
<1> QED BY <1>3, <1>4

\* Other threads may have dropped every reference of the program meanwhile.
LEMMA GetAgainStep == ASSUME Inv, NEW t \in Thread, GetAgain(t) PROVE Inv'
<1> DEFINE v == Native(Head(todo[t]))
<1>1. pc[t] = "unlocked" /\ todo[t] # << >> /\ Long(v) /\ handle = "live"
  BY BusyIsLive DEF GetAgain, Inv, Call
<1>2. Head(todo[t]) \in -1..(Size - 1)
  <2>1. \E k : Legal(op[t]) /\ Progress(op[t], k, items[t], todo[t])
    BY <1>1 DEF Inv, Call
  <2> QED BY <1>1, <2>1, ProgressMoves
<1>3. Take(t, v.value)
  <2>1. Take(t, Copied(v, v.size))
    BY <1>1 DEF GetAgain
  <2>2. Copied(v, v.size) = v.value
    BY <1>1, <1>2, TextIsWhole
  <2> QED BY <2>1, <2>2
<1> QED BY <1>1, <1>3, TakeStep

\* A call ends with an error, or with the answer to its operation.
LEMMA EndStep ==
  ASSUME Inv, NEW t \in Thread, pc[t] # "idle", NEW answer, NEW kept \in {0, 1},
         End(t, answer, kept),
         answer \in {Raised("MemoryError"), Closed} \/ answer = Expected(op[t])
  PROVE  Inv'
<1>1. /\ pc' = [pc EXCEPT ![t] = "idle"] /\ result' = [result EXCEPT ![t] = answer]
      /\ todo' = [todo EXCEPT ![t] = << >>] /\ items' = [items EXCEPT ![t] = << >>]
      /\ views' = views + kept /\ refs' = refs - 1 + kept /\ op' = op
      /\ handle' = IF refs' = 0 THEN "released" ELSE handle
  BY DEF End, References
<1>2. Shape'
  BY <1>1 DEF Inv, Shape
<1>3. Ownership'
  <2>1. Cardinality(Busy)' = Cardinality(Busy) - 1
    BY <1>1, BusyShrinks DEF Inv
  <2>2. handle = "live"
    BY BusyIsLive
  <2> QED BY <1>1, <2>1, <2>2, BusyCounts DEF Inv, Ownership
<1>4. Call(t)'
  BY <1>1 DEF Inv, Shape, Call
<1>5. \A u \in Thread \ {t} : Call(u)'
  BY <1>1, OthersKeep DEF Inv, Shape
<1> QED BY <1>2, <1>3, <1>4, <1>5 DEF Inv

LEMMA ReturnStep == ASSUME Inv, NEW t \in Thread, Return(t) PROVE Inv'
<1>1. pc[t] = "get" /\ todo[t] = << >>
  BY DEF Return
<1>2. PICK kept \in {0, 1} : End(t, Answer(op[t], items[t]), kept)
  BY DEF Return
<1>3. Answer(op[t], items[t]) = Expected(op[t])
  <2>1. \E k : Legal(op[t]) /\ Progress(op[t], k, items[t], << >>)
    BY <1>1 DEF Inv, Call
  <2> QED BY <2>1, AnswerIsExact
<1> QED BY <1>1, <1>2, <1>3, EndStep

LEMMA InvStep == Inv /\ [Next]_vars => Inv'
<1> SUFFICES ASSUME Inv, [Next]_vars PROVE Inv'
  OBVIOUS
<1>1. ASSUME NEW t \in Thread, NEW o \in Operation, Begin(t, o) PROVE Inv'
  BY <1>1, BeginStep
<1>2. ASSUME NEW t \in Thread, Reads(t) PROVE Inv'
  <2>1. CASE NoMemory(t)
    <3>1. pc[t] # "idle" /\ End(t, Raised("MemoryError"), 0)
      BY <2>1 DEF NoMemory
    <3> QED BY <3>1, EndStep
  <2> QED BY <1>2, <2>1, GetStep, GetAgainStep, ReturnStep DEF Reads
<1>3. ASSUME NEW t \in Thread, Resume(t) PROVE Inv'
  <2>1. /\ pc[t] = "suspended" /\ pc' = [pc EXCEPT ![t] = "get"]
        /\ UNCHANGED <<handle, refs, views, op, todo, items, result>>
    BY <1>3 DEF Resume
  <2>2. Shape'
    BY <2>1 DEF Inv, Shape
  <2>3. Ownership'
    BY <2>1, SameBusy DEF Inv
  <2>4. Call(t)'
    BY <2>1 DEF Inv, Shape, Call
  <2>5. \A u \in Thread \ {t} : Call(u)'
    BY <2>1, OthersKeep DEF Inv, Shape
  <2> QED BY <2>2, <2>3, <2>4, <2>5 DEF Inv
<1>4. ASSUME NEW t \in Thread, Close(t) PROVE Inv'
  <2>1. pc[t] # "idle" /\ End(t, Closed, 0)
    BY <1>4 DEF Close
  <2> QED BY <2>1, EndStep
<1>5. CASE Drop
  <2>1. /\ views > 0 /\ views' = views - 1 /\ refs' = refs - 1
        /\ handle' = (IF refs' = 0 THEN "released" ELSE handle)
        /\ UNCHANGED <<pc, op, todo, items, result>>
    BY <1>5 DEF Drop, References
  <2>2. Ownership'
    <3>1. Busy' = Busy
      BY <2>1 DEF Busy
    <3> QED BY <2>1, <3>1, BusyCounts DEF Inv, Ownership
  <2> QED BY <2>1, <2>2 DEF Inv, Shape, Call
<1>6. CASE UNCHANGED vars
  BY <1>6 DEF vars, Inv, Shape, Ownership, Busy, Call
<1> QED BY <1>1, <1>2, <1>3, <1>4, <1>5, <1>6 DEF Next, Stopped

\* Items, slices, iterations, count and index answer what a Python sequence of the
\* elements would, in whatever order threads read and drop their references, and
\* whatever the sizes of the texts are: no call sees a dead handle, a buffer that was
\* not written or an element that is not asked for (_native.pyx 33 to 40, 71 to 140,
\* 179 to 217; go/abi.go 422 to 437).
THEOREM ReadsAnswerExactly == Spec => []ReadsAreExact
<1>1. Inv => ReadsAreExact
  <2> SUFFICES ASSUME Inv, NEW t \in Thread,
                      result[t] \notin {Pending, Raised("MemoryError"), Closed}
               PROVE  result[t] = Expected(op[t])
    BY DEF ReadsAreExact
  <2>1. pc[t] = "idle"
    BY DEF Inv, Call
  <2> QED BY <2>1 DEF Inv, Call
<1> QED BY <1>1, InvInit, InvStep, PTL DEF Spec
==============================================================================
