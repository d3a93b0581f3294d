----------------------------- MODULE SlabsProofs -----------------------------
(***************************************************************************)
(* That Slabs implements Rows, for chunks of any size, any values and any  *)
(* limit on the number of rows.                                            *)
(*                                                                         *)
(* The invariant: the directory has just the chunks that n rows need and   *)
(* no chunk twice; the cells behind the last row are zero, so that growing *)
(* never brings a dropped row back; and a pointer that somebody holds is   *)
(* the one that At would give now, so that what is written through it is   *)
(* written to its row.                                                     *)
(***************************************************************************)
EXTENDS Slabs, Integers, SequenceTheorems, TLAPS

-----------------------------------------------------------------------------
(* Division by the size of a chunk.                                          *)

\* A row is a chunk and a cell.
LEMMA DivMod ==
  \A i \in Nat : /\ i \div SlabSize \in Nat /\ i % SlabSize \in 0..(SlabSize - 1)
                 /\ i = SlabSize * (i \div SlabSize) + (i % SlabSize)
  BY SlabsAssumption

\* The cells of a chunk come before those of the next.
LEMMA Before ==
  ASSUME NEW q \in Nat, NEW r \in Nat, NEW c \in 0..(SlabSize - 1)
  PROVE  /\ SlabSize * q + c < SlabSize * r <=> q < r
         /\ SlabSize * q \in Nat
<1>1. SlabSize \in Nat /\ SlabSize > 0
  BY SlabsAssumption
<1>2. ASSUME q < r PROVE SlabSize * q + c < SlabSize * r
  <2>1. SlabSize * (r - q - 1) >= 0
    BY <1>1, <1>2
  <2>2. SlabSize * (r - q - 1) = SlabSize * r - SlabSize * q - SlabSize
    BY <1>1
  <2> QED BY <1>1, <2>1, <2>2
<1>3. ASSUME r <= q PROVE SlabSize * r <= SlabSize * q + c
  <2>1. SlabSize * (q - r) >= 0
    BY <1>1, <1>3
  <2>2. SlabSize * (q - r) = SlabSize * q - SlabSize * r
    BY <1>1
  <2> QED BY <1>1, <2>1, <2>2
<1> QED BY <1>1, <1>2, <1>3

\* The chunks for m rows are enough, and one less is not.
LEMMA ChunksSuffice ==
  ASSUME NEW m \in Nat
  PROVE  /\ ChunksFor(m) \in Nat
         /\ m <= SlabSize * ChunksFor(m)
         /\ SlabSize * ChunksFor(m) < m + SlabSize
<1>1. m + SlabSize - 1 \in Nat
  BY SlabsAssumption
<1> QED BY <1>1, DivMod, SlabsAssumption DEF ChunksFor

\* No other number of chunks is like that.
LEMMA ChunksUnique ==
  ASSUME NEW m \in Nat, NEW k \in Nat, m <= SlabSize * k, SlabSize * k < m + SlabSize
  PROVE  k = ChunksFor(m)
<1> DEFINE c == ChunksFor(m)
<1>1. c \in Nat /\ m <= SlabSize * c /\ SlabSize * c < m + SlabSize
  BY ChunksSuffice
<1> HIDE DEF c
<1>2. SlabSize \in Nat /\ SlabSize > 0 /\ 0 \in 0..(SlabSize - 1)
  BY SlabsAssumption
<1>3. SlabSize * (k + 1) = SlabSize * k + SlabSize /\ SlabSize * (c + 1) = SlabSize * c + SlabSize
  BY <1>1, <1>2
<1>4. SlabSize * k < SlabSize * (c + 1) /\ SlabSize * c < SlabSize * (k + 1)
      /\ SlabSize * k \in Nat /\ SlabSize * c \in Nat
  BY <1>1, <1>2, <1>3, Before
<1>5. k < c + 1 /\ c < k + 1
  <2>1. \A q, r \in Nat : SlabSize * q + 0 < SlabSize * r => q < r
    BY <1>2, Before
  <2>2. SlabSize * k + 0 < SlabSize * (c + 1) /\ SlabSize * c + 0 < SlabSize * (k + 1)
    BY <1>4
  <2> QED BY <1>1, <2>1, <2>2
<1>6. k = c
  BY <1>1, <1>5
<1> QED BY <1>6 DEF c

\* How many chunks one row more needs, and how many there were before.
LEMMA ChunksOfRow ==
  ASSUME NEW m \in Nat
  PROVE  /\ ChunksFor(m + 1) = m \div SlabSize + 1
         /\ ChunksFor(m) = m \div SlabSize + (IF m % SlabSize = 0 THEN 0 ELSE 1)
<1> DEFINE q == m \div SlabSize
           c == m % SlabSize
<1>1. q \in Nat /\ c \in 0..(SlabSize - 1) /\ m = SlabSize * q + c /\ SlabSize \in Nat
  BY DivMod, SlabsAssumption
<1> HIDE DEF q, c
<1>2. SlabSize * (q + 1) = SlabSize * q + SlabSize /\ SlabSize * q \in Nat
  BY <1>1, Before
<1>3. q + 1 = ChunksFor(m + 1)
  BY <1>1, <1>2, ChunksUnique
<1>4. c = 0 => q = ChunksFor(m)
  BY <1>1, <1>2, ChunksUnique
<1>5. c # 0 => q + 1 = ChunksFor(m)
  BY <1>1, <1>2, ChunksUnique
<1> QED BY <1>1, <1>3, <1>4, <1>5 DEF q, c

\* More rows need no fewer chunks.
LEMMA ChunksMonotonic ==
  ASSUME NEW l \in Nat, NEW m \in Nat, l <= m
  PROVE  ChunksFor(l) <= ChunksFor(m)
<1> DEFINE k == ChunksFor(l)
           j == ChunksFor(m)
<1>1. k \in Nat /\ j \in Nat /\ SlabSize * k < l + SlabSize /\ m <= SlabSize * j
  BY ChunksSuffice
<1> HIDE DEF k, j
<1>2. SlabSize \in Nat /\ 0 \in 0..(SlabSize - 1) /\ SlabSize * (j + 1) = SlabSize * j + SlabSize
  BY <1>1, SlabsAssumption
<1>3. SlabSize * k \in Nat /\ SlabSize * j \in Nat
  BY <1>1, <1>2, Before
<1>4. SlabSize * k + 0 < SlabSize * (j + 1)
  BY <1>1, <1>2, <1>3
<1>5. k < j + 1
  BY <1>1, <1>2, <1>4, Before
<1> QED BY <1>1, <1>5 DEF k, j

-----------------------------------------------------------------------------
(* The invariant.                                                            *)

Cell == 0..(SlabSize - 1)

TypeInv ==
  /\ heap \in Seq([Cell -> Value]) /\ chunks \in Seq(1..Len(heap))
  /\ n \in 0..MaxUint /\ failed \in BOOLEAN

Directory ==
  /\ Len(chunks) = ChunksFor(n)
  /\ \A q, r \in 1..Len(chunks) : q # r => chunks[q] # chunks[r]

Zeroed ==
  \A q \in 1..Len(chunks) : \A c \in Cell :
    n <= SlabSize * (q - 1) + c => heap[chunks[q]][c] = Zero

PointersGood == \A p \in held : p.row \in 0..(n - 1) /\ p = Pointer(chunks, p.row)

Inv == TypeInv /\ Directory /\ Zeroed /\ PointersGood

\* A row lies in a chunk of the directory ...
LEMMA RowPlace ==
  ASSUME NEW i \in Nat, NEW k \in Nat, i < SlabSize * k
  PROVE  i \div SlabSize + 1 \in 1..k /\ i % SlabSize \in Cell
<1> DEFINE q == i \div SlabSize
           c == i % SlabSize
<1>1. q \in Nat /\ c \in 0..(SlabSize - 1) /\ i = SlabSize * q + c
  BY DivMod
<1> HIDE DEF q, c
<1>2. q < k
  BY <1>1, Before
<1> QED BY <1>1, <1>2 DEF q, c, Cell

LEMMA RowsInside ==
  ASSUME TypeInv, Directory
  PROVE  /\ n \in Nat /\ n <= SlabSize * Len(chunks) /\ Len(chunks) \in Nat
         /\ \A i \in 0..(n - 1) : /\ i \div SlabSize + 1 \in 1..Len(chunks)
                                  /\ i % SlabSize \in Cell
<1>1. n \in Nat /\ Len(chunks) \in Nat /\ SlabSize \in Nat
  BY SlabsAssumption DEF TypeInv
<1>2. n <= SlabSize * Len(chunks) /\ SlabSize * Len(chunks) \in Nat
  <2>1. \A k \in Nat : k = ChunksFor(n) => n <= SlabSize * k
    BY <1>1, ChunksSuffice
  <2> QED BY <1>1, <2>1 DEF Directory
<1>3. \A i \in 0..(n - 1) : i \in Nat /\ i < SlabSize * Len(chunks)
  BY <1>1, <1>2
<1> QED BY <1>1, <1>2, <1>3, RowPlace

\* ... and no two rows in one place: the place of a row gives its number.
LEMMA PlaceIsRow ==
  ASSUME NEW i \in Nat
  PROVE  SlabSize * ((i \div SlabSize + 1) - 1) + (i % SlabSize) = i
  BY DivMod

\* A sequence with another behind it.
LEMMA Joined ==
  ASSUME NEW S, NEW s \in Seq(S), NEW t \in Seq(S)
  PROVE  /\ s \o t \in Seq(S) /\ Len(s \o t) = Len(s) + Len(t)
         /\ \A a \in 1..Len(s \o t) :
              (s \o t)[a] = IF a <= Len(s) THEN s[a] ELSE t[a - Len(s)]
  BY ConcatProperties

\* The heap and the directory with more chunks.
LEMMA MoreOfBoth ==
  ASSUME TypeInv, NEW k \in Nat
  PROVE  /\ MoreHeap(k) \in Seq([Cell -> Value]) /\ Len(MoreHeap(k)) = Len(heap) + k
         /\ \A a \in 1..Len(MoreHeap(k)) :
              MoreHeap(k)[a] = IF a <= Len(heap) THEN heap[a] ELSE Blank
         /\ MoreChunks(k) \in Seq(1..(Len(heap) + k)) /\ Len(MoreChunks(k)) = Len(chunks) + k
         /\ \A q \in 1..Len(MoreChunks(k)) :
              MoreChunks(k)[q] = IF q <= Len(chunks) THEN chunks[q]
                                 ELSE Len(heap) + (q - Len(chunks))
<1> DEFINE new == [i \in 1..k |-> Blank]
           ids == [i \in 1..k |-> Len(heap) + i]
           Id == 1..(Len(heap) + k)
<1>1. heap \in Seq([Cell -> Value]) /\ Len(heap) \in Nat
      /\ chunks \in Seq(Id) /\ Len(chunks) \in Nat
  BY DEF TypeInv
<1>2. Blank \in [Cell -> Value]
  BY SlabsAssumption DEF Blank, Cell
<1>3. new \in Seq([Cell -> Value]) /\ Len(new) = k /\ \A i \in 1..k : new[i] = Blank
  BY <1>2
<1>4. ids \in Seq(Id) /\ Len(ids) = k /\ \A i \in 1..k : ids[i] = Len(heap) + i
  <2>1. \A i \in 1..k : Len(heap) + i \in 1..(Len(heap) + k)
    BY <1>1
  <2> QED BY <2>1
<1> HIDE DEF new, ids, Id
<1>5. /\ heap \o new \in Seq([Cell -> Value]) /\ Len(heap \o new) = Len(heap) + k
      /\ \A a \in 1..Len(heap \o new) :
           (heap \o new)[a] = IF a <= Len(heap) THEN heap[a] ELSE new[a - Len(heap)]
  BY <1>1, <1>3, Joined
<1>6. /\ chunks \o ids \in Seq(Id) /\ Len(chunks \o ids) = Len(chunks) + k
      /\ \A q \in 1..Len(chunks \o ids) :
           (chunks \o ids)[q] = IF q <= Len(chunks) THEN chunks[q] ELSE ids[q - Len(chunks)]
  BY <1>1, <1>4, Joined
<1>7. \A q \in 1..Len(chunks \o ids) : q <= Len(chunks) \/ q - Len(chunks) \in 1..k
  BY <1>1, <1>4, <1>6
<1>8. \A a \in 1..Len(heap \o new) : a <= Len(heap) \/ a - Len(heap) \in 1..k
  BY <1>1, <1>3, <1>5
<1>9. MoreHeap(k) = heap \o new /\ MoreChunks(k) = chunks \o ids
  BY DEF MoreHeap, MoreChunks, new, ids
<1> QED BY <1>3, <1>4, <1>5, <1>6, <1>7, <1>8, <1>9 DEF Id

-----------------------------------------------------------------------------
(* The rows that the directory shows.                                        *)

\* Row(i) of Rows.
RowAt(i) == heap[chunks[i \div SlabSize + 1]][i % SlabSize]

LEMMA RowsAreRowAt ==
  /\ [i \in 0..(n - 1) |-> Load(Pointer(chunks, i))] = [i \in 0..(n - 1) |-> RowAt(i)]
  /\ [i \in 0..(n - 1) |-> Load(Pointer(chunks, i))]' = [i \in 0..(n' - 1) |-> RowAt(i)']
  BY DEF Load, Pointer, RowAt

LEMMA NumberOfRows ==
  ASSUME NEW k \in 0..MaxUint, NEW r, DOMAIN r = 0..(k - 1)
  PROVE  Array!Number(r) = k
<1>1. \A j \in 0..MaxUint : 0..(j - 1) = 0..(k - 1) => j = k
  <2> SUFFICES ASSUME NEW j \in 0..MaxUint, 0..(j - 1) = 0..(k - 1) PROVE j = k
    OBVIOUS
  <2>1. \A x : x \in 0..(j - 1) <=> x \in 0..(k - 1)
    BY Zenon
  <2>2. j \in Nat /\ k \in Nat
    BY SlabsAssumption
  <2>3. ~(j < k)
    BY <2>1, <2>2
  <2>4. ~(k < j)
    BY <2>1, <2>2
  <2> QED BY <2>2, <2>3, <2>4
<1> QED BY <1>1 DEF Array!Number

\* Bringing more chunks leaves every row and every pointer where it was, and what the
\* directory shows behind the rows is zero.
LEMMA Grown ==
  ASSUME Inv, NEW k \in Nat
  PROVE  /\ \A q, r \in 1..Len(MoreChunks(k)) : q # r => MoreChunks(k)[q] # MoreChunks(k)[r]
         /\ \A q \in 1..Len(MoreChunks(k)) : \A c \in Cell :
              n <= SlabSize * (q - 1) + c => MoreHeap(k)[MoreChunks(k)[q]][c] = Zero
         /\ \A i \in 0..(n - 1) :
              /\ MoreHeap(k)[MoreChunks(k)[i \div SlabSize + 1]][i % SlabSize] = RowAt(i)
              /\ Pointer(MoreChunks(k), i) = Pointer(chunks, i)
<1> DEFINE H == MoreHeap(k)
           D == MoreChunks(k)
<1>1. /\ Len(heap) \in Nat /\ Len(chunks) \in Nat /\ n \in Nat
      /\ \A q \in 1..Len(chunks) : chunks[q] \in 1..Len(heap)
  BY SlabsAssumption DEF Inv, TypeInv
<1>2. /\ Len(H) = Len(heap) + k /\ Len(D) = Len(chunks) + k
      /\ \A a \in 1..Len(H) : H[a] = IF a <= Len(heap) THEN heap[a] ELSE Blank
      /\ \A q \in 1..Len(D) :
           D[q] = IF q <= Len(chunks) THEN chunks[q] ELSE Len(heap) + (q - Len(chunks))
  BY MoreOfBoth DEF Inv
<1>3. \A c \in Cell : Blank[c] = Zero
  BY DEF Blank, Cell
<1> HIDE DEF H, D
<1>4. ASSUME NEW q \in 1..Len(chunks)
      PROVE  /\ q \in 1..Len(D) /\ D[q] = chunks[q]
             /\ chunks[q] \in 1..Len(heap) /\ H[chunks[q]] = heap[chunks[q]]
  BY <1>1, <1>2
<1>5. ASSUME NEW q \in 1..Len(D), ~(q <= Len(chunks))
      PROVE  D[q] = Len(heap) + (q - Len(chunks)) /\ D[q] > Len(heap) /\ H[D[q]] = Blank
  <2>1. D[q] = Len(heap) + (q - Len(chunks))
    BY <1>2, <1>5
  <2>2. D[q] \in 1..Len(H) /\ D[q] > Len(heap)
    BY <2>1, <1>1, <1>2, <1>5
  <2> QED BY SMTT(40), <2>1, <2>2, <1>1, <1>2
<1>6. \A q, r \in 1..Len(D) : q # r => D[q] # D[r]
  <2> SUFFICES ASSUME NEW q \in 1..Len(D), NEW r \in 1..Len(D), q # r PROVE D[q] # D[r]
    OBVIOUS
  <2>1. CASE q <= Len(chunks) /\ r <= Len(chunks)
    <3>1. q \in 1..Len(chunks) /\ r \in 1..Len(chunks)
      BY <2>1, <1>1, <1>2
    <3> QED BY <3>1, <1>4 DEF Inv, Directory
  <2>2. CASE q <= Len(chunks) /\ ~(r <= Len(chunks))
    <3>1. q \in 1..Len(chunks)
      BY <2>2, <1>1, <1>2
    <3> QED BY <2>2, <3>1, <1>4, <1>5, <1>1
  <2>3. CASE ~(q <= Len(chunks)) /\ r <= Len(chunks)
    <3>1. r \in 1..Len(chunks)
      BY <2>3, <1>1, <1>2
    <3> QED BY <2>3, <3>1, <1>4, <1>5, <1>1
  <2>4. CASE ~(q <= Len(chunks)) /\ ~(r <= Len(chunks))
    BY <2>4, <1>5, <1>1, <1>2
  <2> QED BY <2>1, <2>2, <2>3, <2>4
<1>7. \A q \in 1..Len(D) : \A c \in Cell :
        n <= SlabSize * (q - 1) + c => H[D[q]][c] = Zero
  <2> SUFFICES ASSUME NEW q \in 1..Len(D), NEW c \in Cell, n <= SlabSize * (q - 1) + c
               PROVE  H[D[q]][c] = Zero
    OBVIOUS
  <2>1. CASE q <= Len(chunks)
    <3>1. q \in 1..Len(chunks)
      BY <2>1, <1>1, <1>2
    <3> QED BY <3>1, <1>4 DEF Inv, Zeroed
  <2> QED BY <2>1, <1>3, <1>5
<1>8. \A i \in 0..(n - 1) : /\ H[D[i \div SlabSize + 1]][i % SlabSize] = RowAt(i)
                            /\ Pointer(D, i) = Pointer(chunks, i)
  BY <1>4, RowsInside DEF Inv, RowAt, Pointer
<1> QED BY <1>6, <1>7, <1>8 DEF H, D

-----------------------------------------------------------------------------
(* The steps.                                                                *)

\* One cell of a heap is written.
LEMMA CellWritten ==
  ASSUME NEW h \in Seq([Cell -> Value]), NEW a \in 1..Len(h), NEW c \in Cell, NEW v \in Value
  PROVE  LET w == [h EXCEPT ![a] = [h[a] EXCEPT ![c] = v]]
         IN /\ w \in Seq([Cell -> Value]) /\ Len(w) = Len(h)
            /\ \A b \in 1..Len(h) : \A d \in Cell :
                 w[b][d] = IF b = a /\ d = c THEN v ELSE h[b][d]
<1>1. \A b \in 1..Len(h) : h[b] \in [Cell -> Value]
  OBVIOUS
<1>2. [h[a] EXCEPT ![c] = v] \in [Cell -> Value]
  BY <1>1
<1>3. LET w == [h EXCEPT ![a] = [h[a] EXCEPT ![c] = v]]
      IN /\ w \in Seq([Cell -> Value]) /\ Len(w) = Len(h)
         /\ \A b \in 1..Len(h) : w[b] = IF b = a THEN [h[a] EXCEPT ![c] = v] ELSE h[b]
  BY <1>2, ExceptSeq
<1> QED BY <1>1, <1>3

\* The row that is appended takes the first place behind the others.
LEMMA AppendStep ==
  ASSUME Inv, NEW v \in Value, AppendRow(v)
  PROVE  Inv' /\ Array!Append(v)
<1> DEFINE k == IF n % SlabSize = 0 THEN 1 ELSE 0
           D == MoreChunks(k)
           H == MoreHeap(k)
           e == n \div SlabSize + 1
           c == n % SlabSize
<1>1. /\ k \in Nat /\ n \in Nat /\ Len(heap) \in Nat /\ Len(chunks) \in Nat
      /\ n + 1 \in 0..MaxUint /\ MaxUint \in Nat
  BY SlabsAssumption DEF Inv, TypeInv, AppendRow
<1>2. /\ H \in Seq([Cell -> Value]) /\ Len(H) = Len(heap) + k
      /\ D \in Seq(1..Len(H)) /\ Len(D) = Len(chunks) + k
  <2>1. /\ H \in Seq([Cell -> Value]) /\ Len(H) = Len(heap) + k
        /\ D \in Seq(1..(Len(heap) + k)) /\ Len(D) = Len(chunks) + k
    BY <1>1, MoreOfBoth DEF Inv
  <2> QED BY <2>1
<1>3. Len(D) = e /\ ChunksFor(n + 1) = e
  <2>1. ChunksFor(n + 1) = e /\ Len(chunks) = n \div SlabSize + (IF n % SlabSize = 0 THEN 0 ELSE 1)
    BY <1>1, ChunksOfRow DEF Inv, Directory
  <2>2. n \div SlabSize \in Nat
    BY <1>1, DivMod
  <2>3. Len(D) = Len(chunks) + k
    BY <1>2
  <2> HIDE DEF D, H
  <2> QED BY <2>1, <2>2, <2>3
<1>4. e \in 1..Len(D) /\ c \in Cell /\ D[e] \in 1..Len(H) /\ Len(H) \in Nat
  <2>1. e \in 1..Len(D) /\ c \in Cell
    <3> HIDE DEF k, D, H
    <3>1. n \div SlabSize \in Nat /\ n % SlabSize \in 0..(SlabSize - 1)
      BY <1>1, DivMod
    <3> QED BY <3>1, <1>3 DEF Cell
  <2>2. /\ D \in Seq(1..Len(H)) /\ Len(H) \in Nat
        /\ \A q \in 1..Len(D) : D[q] \in 1..Len(H)
    <3>1. D \in Seq(1..Len(H)) /\ Len(H) \in Nat
      BY <1>1, <1>2
    <3> HIDE DEF D, H
    <3> QED BY <3>1
  <2> HIDE DEF D, H, k
  <2> QED BY <2>1, <2>2
<1>5. /\ chunks' = D /\ n' = n + 1 /\ held' = held /\ failed' = failed
      /\ heap' = [H EXCEPT ![D[e]] = [H[D[e]] EXCEPT ![c] = v]]
  BY DEF AppendRow, Pointer
<1>6. /\ heap' \in Seq([Cell -> Value]) /\ Len(heap') = Len(H)
      /\ \A b \in 1..Len(H) : \A d \in Cell :
           heap'[b][d] = IF b = D[e] /\ d = c THEN v ELSE H[b][d]
  <2>1. D[e] \in 1..Len(H) /\ c \in Cell /\ H \in Seq([Cell -> Value])
    BY <1>2, <1>4
  <2> HIDE DEF D, H, e, c
  <2> QED BY <2>1, <1>5, CellWritten
<1>7. /\ \A q, r \in 1..Len(D) : q # r => D[q] # D[r]
      /\ \A q \in 1..Len(D) : \A d \in Cell :
           n <= SlabSize * (q - 1) + d => H[D[q]][d] = Zero
      /\ \A i \in 0..(n - 1) : /\ H[D[i \div SlabSize + 1]][i % SlabSize] = RowAt(i)
                               /\ Pointer(D, i) = Pointer(chunks, i)
  BY <1>1, Grown
<1>8. SlabSize * (e - 1) + c = n
  BY <1>1, PlaceIsRow
<1>9. \A q \in 1..Len(D) : D[q] \in 1..Len(H)
  BY <1>2
<1>10. \A i \in 0..(n - 1) : i \div SlabSize + 1 \in 1..Len(D) /\ i % SlabSize \in Cell
  <2>1. \A i \in 0..(n - 1) : i \div SlabSize + 1 \in 1..Len(chunks) /\ i % SlabSize \in Cell
    BY RowsInside DEF Inv
  <2> QED BY <2>1, <1>1, <1>2
<1> HIDE DEF k, D, H, e, c
<1>11. TypeInv'
  BY <1>1, <1>2, <1>5, <1>6 DEF Inv, TypeInv
<1>12. Directory'
  BY <1>3, <1>5, <1>7 DEF Directory
<1>13. Zeroed'
  <2> SUFFICES ASSUME NEW q \in 1..Len(D), NEW d \in Cell, n + 1 <= SlabSize * (q - 1) + d
               PROVE  heap'[D[q]][d] = Zero
    BY <1>5 DEF Zeroed, Cell
  <2>1. SlabSize * (q - 1) + d \in Int
    BY <1>1, <1>2, SlabsAssumption DEF Cell
  <2>2. ~(q = e /\ d = c)
    BY <2>1, <1>1, <1>8
  <2>3. ~(D[q] = D[e] /\ d = c)
    BY <2>2, <1>4, <1>7
  <2>4. heap'[D[q]][d] = H[D[q]][d]
    BY <2>3, <1>6, <1>9
  <2> QED BY <2>1, <2>4, <1>1, <1>7
<1>14. PointersGood'
  BY <1>1, <1>5, <1>7 DEF Inv, PointersGood
<1>15. \A i \in 0..(n - 1) : RowAt(i)' = RowAt(i)
  <2> SUFFICES ASSUME NEW i \in 0..(n - 1) PROVE heap'[D[i \div SlabSize + 1]][i % SlabSize] = RowAt(i)
    BY <1>5 DEF RowAt
  <2>1. ~(i \div SlabSize + 1 = e /\ i % SlabSize = c)
    BY <1>1, <1>8, PlaceIsRow
  <2>2. ~(D[i \div SlabSize + 1] = D[e] /\ i % SlabSize = c)
    BY <2>1, <1>4, <1>7, <1>10
  <2> QED BY <2>2, <1>6, <1>7, <1>9, <1>10
<1>16. \A i : i = n => RowAt(i)' = v
  BY <1>4, <1>5, <1>6 DEF RowAt, e, c
<1>17. Array!Append(v)
  <2> DEFINE R == [i \in 0..(n - 1) |-> Load(Pointer(chunks, i))]
  <2>1. Array!Number(R) = n /\ n < MaxUint
    BY <1>1, NumberOfRows
  <2>2. R = [i \in 0..(n - 1) |-> RowAt(i)] /\ R' = [i \in 0..(n' - 1) |-> RowAt(i)']
    BY RowsAreRowAt
  <2>3. R' = [i \in 0..n |-> IF i \in DOMAIN R THEN R[i] ELSE v]
    <3>1. 0..(n' - 1) = 0..n /\ \A i \in 0..n : i \in 0..(n - 1) \/ i = n
      BY <1>1, <1>5
    <3>2. n \notin 0..(n - 1)
      BY <1>1
    <3>3. \A i \in 0..n : RowAt(i)' = IF i \in 0..(n - 1) THEN RowAt(i) ELSE v
      BY <3>1, <3>2, <1>15, <1>16
    <3>4. DOMAIN R = 0..(n - 1) /\ \A i \in 0..(n - 1) : R[i] = RowAt(i)
      BY <2>2
    <3> HIDE DEF R
    <3> QED BY <2>2, <3>1, <3>3, <3>4
  <2> QED BY <2>1, <2>3, <1>5 DEF Array!Append
<1> QED BY <1>11, <1>12, <1>13, <1>14, <1>17 DEF Inv

\* What is written through a pointer is written to its row, and to no other.
LEMMA WriteStep ==
  ASSUME Inv, NEW p \in held, NEW v \in Value, Write(p, v)
  PROVE  Inv' /\ Array!Write(p.row, v)
<1> DEFINE r == p.row
           e == r \div SlabSize + 1
           c == r % SlabSize
<1>1. r \in 0..(n - 1) /\ p = Pointer(chunks, r) /\ n \in Nat /\ r \in Nat
  BY SlabsAssumption DEF Inv, PointersGood, TypeInv
<1>2. p.chunk = chunks[e] /\ p.cell = c
  BY <1>1 DEF Pointer
<1>3. /\ heap \in Seq([Cell -> Value]) /\ Len(heap) \in Nat /\ Len(chunks) \in Nat
      /\ \A q \in 1..Len(chunks) : chunks[q] \in 1..Len(heap)
      /\ \A q, s \in 1..Len(chunks) : q # s => chunks[q] # chunks[s]
  BY DEF Inv, TypeInv, Directory
<1>4. e \in 1..Len(chunks) /\ c \in Cell
  BY <1>1, RowsInside DEF Inv
<1>5. /\ chunks' = chunks /\ n' = n /\ held' = held /\ failed' = failed
      /\ heap' = [heap EXCEPT ![chunks[e]] = [heap[chunks[e]] EXCEPT ![c] = v]]
  BY <1>2 DEF Write
<1>6. /\ heap' \in Seq([Cell -> Value]) /\ Len(heap') = Len(heap)
      /\ \A b \in 1..Len(heap) : \A d \in Cell :
           heap'[b][d] = IF b = chunks[e] /\ d = c THEN v ELSE heap[b][d]
  BY <1>3, <1>4, <1>5, CellWritten
<1>7. SlabSize * (e - 1) + c = r
  BY <1>1, PlaceIsRow
<1>8. \A i \in 0..(n - 1) : i \in Nat /\ i \div SlabSize + 1 \in 1..Len(chunks) /\ i % SlabSize \in Cell
  BY <1>1, RowsInside DEF Inv
<1>9. \A i : i = r => i \div SlabSize + 1 = e /\ i % SlabSize = c
  OBVIOUS
<1> HIDE DEF r, e, c
<1>10. TypeInv' /\ Directory' /\ PointersGood'
  BY <1>5, <1>6 DEF Inv, TypeInv, Directory, PointersGood
<1>11. Zeroed'
  <2> SUFFICES ASSUME NEW q \in 1..Len(chunks), NEW d \in Cell, n <= SlabSize * (q - 1) + d
               PROVE  heap'[chunks[q]][d] = Zero
    BY <1>5 DEF Zeroed, Cell
  <2>1. ~(q = e /\ d = c)
    BY <1>1, <1>7
  <2>2. ~(chunks[q] = chunks[e] /\ d = c)
    BY <2>1, <1>3, <1>4
  <2> QED BY <2>2, <1>3, <1>6 DEF Inv, Zeroed
<1>12. \A i \in 0..(n - 1) : RowAt(i)' = IF i = r THEN v ELSE RowAt(i)
  <2> SUFFICES ASSUME NEW i \in 0..(n - 1)
               PROVE  heap'[chunks[i \div SlabSize + 1]][i % SlabSize] = IF i = r THEN v ELSE RowAt(i)
    BY <1>5 DEF RowAt
  <2>1. CASE i = r
    BY <2>1, <1>3, <1>4, <1>6, <1>9
  <2>2. CASE i # r
    <3>1. ~(i \div SlabSize + 1 = e /\ i % SlabSize = c)
      BY <2>2, <1>7, <1>8, PlaceIsRow
    <3>2. ~(chunks[i \div SlabSize + 1] = chunks[e] /\ i % SlabSize = c)
      BY <3>1, <1>3, <1>4, <1>8
    <3> QED BY <2>2, <3>2, <1>3, <1>6, <1>8 DEF RowAt
  <2> QED BY <2>1, <2>2
<1>13. Array!Write(r, v)
  <2> DEFINE R == [i \in 0..(n - 1) |-> Load(Pointer(chunks, i))]
  <2>1. R = [i \in 0..(n - 1) |-> RowAt(i)] /\ R' = [i \in 0..(n' - 1) |-> RowAt(i)']
    BY RowsAreRowAt
  <2>2. R' = [R EXCEPT ![r] = v]
    <3>1. DOMAIN R = 0..(n - 1) /\ \A i \in 0..(n - 1) : R[i] = RowAt(i)
      BY <2>1
    <3>2. R' = [i \in 0..(n - 1) |-> IF i = r THEN v ELSE RowAt(i)]
      BY <2>1, <1>5, <1>12
    <3> HIDE DEF R
    <3> QED BY <3>1, <3>2, <2>1
  <2>3. r \in {s.row : s \in held}
    BY DEF r
  <2> QED BY <2>2, <2>3, <1>5 DEF Array!Write
<1> QED BY <1>10, <1>11, <1>13 DEF Inv, r

\* A pointer is taken to a row that is there.
LEMMA AtStep ==
  ASSUME Inv, NEW i \in 0..MaxUint, At(i)
  PROVE  Inv' /\ Array!At(i)
<1>1. /\ i \in 0..(n - 1) /\ held' = held \cup {Pointer(chunks, i)}
      /\ UNCHANGED <<heap, chunks, n, failed>>
  BY SlabsAssumption DEF At, Inv, TypeInv
<1>2. Pointer(chunks, i).row = i
  BY DEF Pointer
<1>3. TypeInv' /\ Directory' /\ Zeroed'
  BY <1>1 DEF Inv, TypeInv, Directory, Zeroed
<1>4. PointersGood'
  BY <1>1, <1>2 DEF Inv, PointersGood
<1>5. Array!At(i)
  <2> DEFINE R == [j \in 0..(n - 1) |-> Load(Pointer(chunks, j))]
  <2>1. R' = R
    BY <1>1 DEF Load, Pointer
  <2>2. i \in DOMAIN R
    BY <1>1
  <2>3. {p.row : p \in held'} = {p.row : p \in held} \cup {i}
    BY <1>1, <1>2
  <2> HIDE DEF R
  <2> QED BY <2>1, <2>2, <2>3, <1>1 DEF Array!At, R
<1> QED BY <1>3, <1>4, <1>5 DEF Inv

\* Growing shows the rows of before and then zero rows.
LEMMA ExtendStep ==
  ASSUME Inv, NEW m \in 0..MaxUint, Extend(m)
  PROVE  Inv' /\ Array!Resize(m)
<1> DEFINE k == ChunksFor(m) - Len(chunks)
           D == MoreChunks(k)
           H == MoreHeap(k)
<1>1. /\ n \in Nat /\ m \in Nat /\ n <= m /\ Len(heap) \in Nat /\ Len(chunks) \in Nat
      /\ Len(chunks) = ChunksFor(n) /\ MaxUint \in Nat
  BY SlabsAssumption DEF Inv, TypeInv, Directory, Extend
<1>2. k \in Nat /\ ChunksFor(m) \in Nat
  <2>1. ChunksFor(m) \in Nat /\ ChunksFor(n) \in Nat
    BY <1>1, ChunksSuffice
  <2>2. ChunksFor(n) <= ChunksFor(m)
    BY <1>1, ChunksMonotonic
  <2> QED BY <2>1, <2>2, <1>1
<1>3. /\ H \in Seq([Cell -> Value]) /\ Len(H) = Len(heap) + k
      /\ D \in Seq(1..Len(H)) /\ Len(D) = Len(chunks) + k
  <2>1. /\ H \in Seq([Cell -> Value]) /\ Len(H) = Len(heap) + k
        /\ D \in Seq(1..(Len(heap) + k)) /\ Len(D) = Len(chunks) + k
    BY <1>2, MoreOfBoth DEF Inv
  <2> QED BY <2>1
<1>4. Len(D) = ChunksFor(m)
  <2>1. Len(D) = Len(chunks) + k
    BY <1>3
  <2> HIDE DEF D
  <2> QED BY <2>1, <1>1, <1>2
<1>5. /\ chunks' = D /\ heap' = H /\ n' = m /\ held' = held /\ failed' = failed
  BY DEF Extend
<1>6. /\ \A q, r \in 1..Len(D) : q # r => D[q] # D[r]
      /\ \A q \in 1..Len(D) : \A d \in Cell :
           n <= SlabSize * (q - 1) + d => H[D[q]][d] = Zero
      /\ \A i \in 0..(n - 1) : /\ H[D[i \div SlabSize + 1]][i % SlabSize] = RowAt(i)
                               /\ Pointer(D, i) = Pointer(chunks, i)
  BY <1>2, Grown
<1> HIDE DEF k, D, H
<1>7. TypeInv' /\ Directory' /\ PointersGood'
  BY <1>1, <1>3, <1>4, <1>5, <1>6 DEF Inv, TypeInv, Directory, PointersGood
<1>8. Zeroed'
  <2> SUFFICES ASSUME NEW q \in 1..Len(D), NEW d \in Cell, m <= SlabSize * (q - 1) + d
               PROVE  H[D[q]][d] = Zero
    BY <1>5 DEF Zeroed, Cell
  <2>1. SlabSize * (q - 1) + d \in Int
    BY <1>3, SlabsAssumption DEF Cell
  <2> QED BY <2>1, <1>1, <1>6
<1>9. \A i \in 0..(m - 1) : RowAt(i)' = IF i \in 0..(n - 1) THEN RowAt(i) ELSE Zero
  <2> SUFFICES ASSUME NEW i \in 0..(m - 1)
               PROVE  H[D[i \div SlabSize + 1]][i % SlabSize]
                        = IF i \in 0..(n - 1) THEN RowAt(i) ELSE Zero
    BY <1>5 DEF RowAt
  <2>1. CASE i \in 0..(n - 1)
    BY <2>1, <1>6
  <2>2. CASE i \notin 0..(n - 1)
    <3>1. i \div SlabSize + 1 \in 1..Len(D) /\ i % SlabSize \in Cell
      <4>1. i \in Nat /\ Len(D) \in Nat /\ m <= SlabSize * Len(D)
        BY <1>1, <1>2, <1>4, ChunksSuffice
      <4>2. SlabSize * Len(D) \in Nat
        BY <4>1, SlabsAssumption, Before
      <4>3. i < SlabSize * Len(D)
        BY <4>1, <4>2, <1>1
      <4> QED BY <4>1, <4>3, RowPlace
    <3>2. n <= SlabSize * ((i \div SlabSize + 1) - 1) + (i % SlabSize)
      BY <2>2, <1>1, PlaceIsRow
    <3> QED BY <2>2, <3>1, <3>2, <1>6
  <2> QED BY <2>1, <2>2
<1>10. Array!Resize(m)
  <2> DEFINE R == [i \in 0..(n - 1) |-> Load(Pointer(chunks, i))]
  <2>1. R = [i \in 0..(n - 1) |-> RowAt(i)] /\ R' = [i \in 0..(n' - 1) |-> RowAt(i)']
    BY RowsAreRowAt
  <2>2. R' = [i \in 0..(m - 1) |-> IF i \in DOMAIN R THEN R[i] ELSE Zero]
    <3>1. DOMAIN R = 0..(n - 1) /\ \A i \in 0..(n - 1) : R[i] = RowAt(i)
      BY <2>1
    <3>2. R' = [i \in 0..(m - 1) |-> IF i \in 0..(n - 1) THEN RowAt(i) ELSE Zero]
      BY <2>1, <1>5, <1>9
    <3> HIDE DEF R
    <3> QED BY <3>1, <3>2
  <2>3. {p.row : p \in held'} = {p.row : p \in held} \cap 0..(m - 1)
    <3>1. \A p \in held : p.row \in 0..(m - 1)
      BY <1>1 DEF Inv, PointersGood
    <3> QED BY <3>1, <1>5
  <2> HIDE DEF R
  <2> QED BY <2>2, <2>3, <1>5 DEF Array!Resize, Array!Sized, R
<1> QED BY <1>7, <1>8, <1>10 DEF Inv

\* Shrinking drops the rows from m on, and clears what is left of them in the last
\* chunk that stays.
LEMMA TruncateStep ==
  ASSUME Inv, NEW m \in 0..MaxUint, Truncate(m)
  PROVE  Inv' /\ Array!Resize(m)
<1> DEFINE l == ChunksFor(m)
           e == m \div SlabSize
           c == m % SlabSize
<1>1. /\ n \in Nat /\ m \in Nat /\ m <= n /\ Len(heap) \in Nat /\ Len(chunks) \in Nat
      /\ Len(chunks) = ChunksFor(n) /\ MaxUint \in Nat
      /\ heap \in Seq([Cell -> Value]) /\ chunks \in Seq(1..Len(heap))
      /\ \A q, r \in 1..Len(chunks) : q # r => chunks[q] # chunks[r]
  BY SlabsAssumption DEF Inv, TypeInv, Directory, Truncate, TruncateTo
<1>2. l \in Nat /\ l <= Len(chunks) /\ m <= SlabSize * l
  BY <1>1, ChunksSuffice, ChunksMonotonic
<1>3. e \in Nat /\ c \in Cell /\ m = SlabSize * e + c /\ l = e + (IF c = 0 THEN 0 ELSE 1)
      /\ SlabSize * e \in Nat
  <2>1. e \in Nat /\ c \in Cell /\ m = SlabSize * e + c
    BY <1>1, DivMod DEF Cell
  <2>2. l = e + (IF c = 0 THEN 0 ELSE 1)
    BY <1>1, ChunksOfRow
  <2> HIDE DEF e, c, l
  <2> QED BY <2>1, <2>2, Before DEF Cell
<1>4. /\ chunks' = SubSeq(chunks, 1, l) /\ n' = m /\ failed' = failed
      /\ held' = {p \in held : p.row < m}
      /\ heap' = IF c # 0
                 THEN [heap EXCEPT ![chunks[l]] =
                         [d \in DOMAIN @ |-> IF d < c THEN @[d] ELSE Zero]]
                 ELSE heap
  BY DEF Truncate, TruncateTo
<1> HIDE DEF l, e, c
<1>5. /\ chunks' \in Seq(1..Len(heap)) /\ Len(chunks') = l
      /\ \A q \in 1..l : q \in 1..Len(chunks) /\ chunks'[q] = chunks[q] /\ chunks[q] \in 1..Len(heap)
  <2>1. \A q \in 1..l : q \in 1..Len(chunks) /\ chunks[q] \in 1..Len(heap)
    BY <1>1, <1>2
  <2>2. \A S : (\A q \in 1..l : chunks[q] \in S)
          => /\ SubSeq(chunks, 1, l) \in Seq(S)
             /\ Len(SubSeq(chunks, 1, l)) = (IF 1 <= l THEN l - 1 + 1 ELSE 0)
             /\ \A q \in 1..(l - 1 + 1) : SubSeq(chunks, 1, l)[q] = chunks[1 + q - 1]
    BY <1>2, SubSeqProperties
  <2> DEFINE Id == 1..Len(heap)
             head == SubSeq(chunks, 1, l)
  <2>3. /\ head \in Seq(Id) /\ Len(head) = (IF 1 <= l THEN l - 1 + 1 ELSE 0)
        /\ \A q \in 1..(l - 1 + 1) : head[q] = chunks[1 + q - 1]
    BY <2>1, <2>2
  <2>4. chunks' = head
    BY <1>4
  <2> HIDE DEF head, Id
  <2>5. Len(head) = l /\ \A q \in 1..l : head[q] = chunks[q]
    BY <2>3, <1>2
  <2> QED BY <2>1, <2>3, <2>4, <2>5 DEF Id
<1>6. /\ heap' \in Seq([Cell -> Value]) /\ Len(heap') = Len(heap)
      /\ \A b \in 1..Len(heap) : \A d \in Cell :
           heap'[b][d] = IF c # 0 /\ b = chunks[l] /\ ~(d < c) THEN Zero ELSE heap[b][d]
  <2>1. CASE c = 0
    BY <2>1, <1>1, <1>4
  <2>2. CASE c # 0
    <3> DEFINE f == [d \in Cell |-> IF d < c THEN heap[chunks[l]][d] ELSE Zero]
    <3>1. l \in 1..l /\ chunks[l] \in 1..Len(heap)
      BY <2>2, <1>2, <1>3, <1>5
    <3>2. \A b \in 1..Len(heap) : heap[b] \in [Cell -> Value]
      BY <1>1
    <3>3. f \in [Cell -> Value] /\ heap' = [heap EXCEPT ![chunks[l]] = f]
      BY <2>2, <3>1, <3>2, <1>4, SlabsAssumption
    <3>4. \A d \in Cell : f[d] = IF d < c THEN heap[chunks[l]][d] ELSE Zero
      OBVIOUS
    <3> HIDE DEF f
    <3>5. /\ heap' \in Seq([Cell -> Value]) /\ Len(heap') = Len(heap)
          /\ \A b \in 1..Len(heap) : heap'[b] = IF b = chunks[l] THEN f ELSE heap[b]
      BY <1>1, <3>1, <3>3, ExceptSeq
    <3> QED BY <2>2, <3>4, <3>5
  <2> QED BY <2>1, <2>2
<1>7. TypeInv' /\ Directory'
  <2>1. \A q, r \in 1..l : q # r => chunks'[q] # chunks'[r]
    BY <1>1, <1>5
  <2> QED BY <2>1, <1>4, <1>5, <1>6 DEF Inv, TypeInv, Directory, l
<1>8. \A i \in 0..(m - 1) : i \in Nat /\ i \div SlabSize + 1 \in 1..l /\ i % SlabSize \in Cell
  <2>1. \A i \in 0..(m - 1) : i \in Nat /\ i < SlabSize * l
    BY <1>1, <1>2, SlabsAssumption
  <2> QED BY <2>1, <1>2, RowPlace
<1>9. PointersGood'
  <2> SUFFICES ASSUME NEW p \in held, p.row < m
               PROVE  p.row \in 0..(m - 1) /\ p = Pointer(chunks', p.row)
    BY <1>4 DEF PointersGood
  <2>1. p.row \in 0..(n - 1) /\ p = Pointer(chunks, p.row)
    BY DEF Inv, PointersGood
  <2>2. p.row \in 0..(m - 1)
    BY <2>1, <1>1
  <2>3. chunks'[p.row \div SlabSize + 1] = chunks[p.row \div SlabSize + 1]
    BY <2>2, <1>5, <1>8
  <2> QED BY <2>1, <2>2, <2>3 DEF Pointer
<1>10. Zeroed'
  <2>0. n' = m /\ Len(chunks') = l /\ \A q \in 1..l : chunks'[q] = chunks[q]
    BY <1>4, <1>5
  <2> SUFFICES ASSUME NEW q \in 1..l, NEW d \in Cell, m <= SlabSize * (q - 1) + d
               PROVE  heap'[chunks[q]][d] = Zero
    BY <2>0 DEF Zeroed
  <2>1. ~(q - 1 < e)
    <3>1. q - 1 \in Nat /\ d \in 0..(SlabSize - 1)
      BY <1>2 DEF Cell
    <3>2. q - 1 < e => SlabSize * (q - 1) + d < SlabSize * e
      BY <3>1, <1>3, Before
    <3>3. SlabSize * (q - 1) + d \in Int /\ c >= 0 /\ c \in Int
      BY <3>1, <1>3, SlabsAssumption DEF Cell
    <3> QED BY <3>2, <3>3, <1>1, <1>3
  <2>2. c # 0 /\ q = l /\ q - 1 = e
    BY <2>1, <1>2, <1>3
  <2>3. ~(d < c)
    <3>1. m <= SlabSize * e + d /\ d \in Int /\ c \in Int
      BY <2>2, <1>3, SlabsAssumption DEF Cell
    <3> QED BY <3>1, <1>1, <1>3
  <2> QED BY <2>2, <2>3, <1>5, <1>6
<1>11. \A i \in 0..(m - 1) : RowAt(i)' = RowAt(i)
  <2> SUFFICES ASSUME NEW i \in 0..(m - 1)
               PROVE  heap'[chunks[i \div SlabSize + 1]][i % SlabSize]
                        = heap[chunks[i \div SlabSize + 1]][i % SlabSize]
    BY <1>4, <1>5, <1>8 DEF RowAt
  <2> DEFINE q == i \div SlabSize
             d == i % SlabSize
  <2>1. q \in Nat /\ d \in Cell /\ q + 1 \in 1..l /\ i = SlabSize * q + d
    BY <1>8, DivMod
  <2> HIDE DEF q, d
  <2>2. ~(c # 0 /\ chunks[q + 1] = chunks[l] /\ ~(d < c))
    <3> SUFFICES ASSUME c # 0, chunks[q + 1] = chunks[l], ~(d < c) PROVE FALSE
      OBVIOUS
    <3>1. q + 1 = l /\ q = e
      BY <2>1, <1>1, <1>2, <1>3, <1>5
    <3>2. i = SlabSize * e + d /\ d \in Int /\ c \in Int
      BY <3>1, <2>1, <1>3 DEF Cell
    <3> HIDE DEF l, e, c
    <3> QED BY SMTT(40), <3>2, <1>1, <1>3
  <2>3. heap'[chunks[q + 1]][d] = heap[chunks[q + 1]][d]
    <3>1. chunks[q + 1] \in 1..Len(heap)
      BY <2>1, <1>5
    <3> HIDE DEF l, e, c
    <3> QED BY SMTT(40), <3>1, <2>1, <2>2, <1>6
  <2> QED BY <2>3 DEF q, d
<1>12. Array!Resize(m)
  <2> DEFINE R == [i \in 0..(n - 1) |-> Load(Pointer(chunks, i))]
  <2>1. R = [i \in 0..(n - 1) |-> RowAt(i)] /\ R' = [i \in 0..(n' - 1) |-> RowAt(i)']
    BY RowsAreRowAt
  <2>2. R' = [i \in 0..(m - 1) |-> IF i \in DOMAIN R THEN R[i] ELSE Zero]
    <3>1. DOMAIN R = 0..(n - 1) /\ \A i \in 0..(n - 1) : R[i] = RowAt(i)
      BY <2>1
    <3>2. R' = [i \in 0..(m - 1) |-> RowAt(i)]
      BY <2>1, <1>4, <1>11
    <3>3. \A i \in 0..(m - 1) : i \in 0..(n - 1)
      BY <1>1
    <3> HIDE DEF R
    <3> QED BY <3>1, <3>2, <3>3
  <2>3. {p.row : p \in held'} = {p.row : p \in held} \cap 0..(m - 1)
    <3>1. \A p \in held : p.row < m <=> p.row \in 0..(m - 1)
      BY <1>1 DEF Inv, PointersGood
    <3> QED BY <3>1, <1>4
  <2> HIDE DEF R
  <2> QED BY <2>2, <2>3, <1>4 DEF Array!Resize, Array!Sized, R
<1> QED BY <1>7, <1>9, <1>10, <1>12 DEF Inv

-----------------------------------------------------------------------------
(* The refinement.                                                           *)

LEMMA InitHolds == Init => Inv /\ Array!Init
<1> SUFFICES ASSUME Init PROVE Inv /\ Array!Init
  OBVIOUS
<1>1. heap = << >> /\ chunks = << >> /\ n = 0 /\ held = {} /\ failed = FALSE
  BY DEF Init
<1>2. 0..(n - 1) = {}
  BY <1>1
<1>3. TypeInv /\ Zeroed /\ PointersGood
  <2>1. \A S : << >> \in Seq(S)
    OBVIOUS
  <2>2. heap \in Seq([Cell -> Value]) /\ chunks \in Seq(1..Len(heap))
    BY <1>1, <2>1, Zenon
  <2>3. n \in 0..MaxUint /\ failed \in BOOLEAN
    <3>1. 0 \in 0..MaxUint
      BY SlabsAssumption
    <3> QED BY <3>1, <1>1, Zenon
  <2> QED BY <1>1, <2>2, <2>3 DEF TypeInv, Zeroed, PointersGood
<1>4. Directory
  <2>1. ChunksFor(0) = 0
    <3>1. 0 \in Nat /\ SlabSize * 0 = 0 /\ SlabSize > 0
      BY SlabsAssumption
    <3>2. \A m, k \in Nat : m <= SlabSize * k /\ SlabSize * k < m + SlabSize => k = ChunksFor(m)
      BY ChunksUnique
    <3>3. 0 <= SlabSize * 0 /\ SlabSize * 0 < 0 + SlabSize
      BY <3>1, SlabsAssumption
    <3> HIDE DEF ChunksFor
    <3> QED BY <3>1, <3>2, <3>3
  <2> QED BY <2>1, <1>1 DEF Directory
<1>5. Array!Init
  BY <1>1, <1>2 DEF Array!Init
<1> QED BY <1>3, <1>4, <1>5 DEF Inv

\* Every step keeps the invariant and is a step of the array or leaves it alone.
LEMMA StepHolds == Inv /\ [Next]_vars => Inv' /\ [Array!Next]_(Array!vars)
<1> SUFFICES ASSUME Inv, [Next]_vars PROVE Inv' /\ [Array!Next]_(Array!vars)
  OBVIOUS
<1> DEFINE R == [i \in 0..(n - 1) |-> Load(Pointer(chunks, i))]
<1>1. DOMAIN R = 0..(n - 1) /\ n \in Nat
  BY SlabsAssumption DEF Inv, TypeInv
<1>2. ASSUME NEW v \in Value, ~failed, AppendRow(v) PROVE Inv' /\ [Array!Next]_(Array!vars)
  <2>1. Inv' /\ Array!Append(v)
    BY <1>2, AppendStep
  <2> QED BY <1>2, <2>1 DEF Array!Next
<1>3. ASSUME NEW v \in Value, NEW p \in held, ~failed, Write(p, v)
      PROVE  Inv' /\ [Array!Next]_(Array!vars)
  <2>1. Inv' /\ Array!Write(p.row, v)
    BY <1>3, WriteStep
  <2>2. p.row \in {s.row : s \in held}
    OBVIOUS
  <2> QED BY <1>3, <2>1, <2>2 DEF Array!Next
<1>4. ASSUME NEW i \in 0..MaxUint, ~failed, At(i) PROVE Inv' /\ [Array!Next]_(Array!vars)
  <2>1. Inv' /\ Array!At(i)
    BY <1>4, AtStep
  <2>2. i \in DOMAIN R
    BY <1>1, <1>4, SlabsAssumption DEF At
  <2> QED BY <1>4, <2>1, <2>2 DEF Array!Next
<1>5. ASSUME NEW m \in 0..MaxUint, ~failed, Extend(m) \/ Truncate(m)
      PROVE  Inv' /\ [Array!Next]_(Array!vars)
  <2>1. Inv' /\ Array!Resize(m)
    BY <1>5, ExtendStep, TruncateStep
  <2> QED BY <1>5, <2>1 DEF Array!Next
<1>6. ASSUME UNCHANGED <<heap, chunks, n, held>> PROVE Inv' <=> (Inv /\ failed' \in BOOLEAN)
  BY <1>6 DEF Inv, TypeInv, Directory, Zeroed, PointersGood
<1>7. ASSUME UNCHANGED <<heap, chunks, n, held>> PROVE R' = R /\ {p.row : p \in held'} = {p.row : p \in held}
  BY <1>7 DEF Load, Pointer
<1>8. CASE ~failed /\ Refuse
  <2>1. UNCHANGED <<heap, chunks, n, held>> /\ failed' = TRUE
    BY <1>8 DEF Refuse
  <2>2. Array!Fail
    BY <2>1, <1>7 DEF Array!Fail
  <2> QED BY <1>6, <1>8, <2>1, <2>2 DEF Array!Next
<1>9. CASE UNCHANGED vars
  <2>1. UNCHANGED <<heap, chunks, n, held>> /\ failed' = failed
    BY <1>9 DEF vars
  <2>2. UNCHANGED Array!vars
    BY <2>1, <1>7 DEF Array!vars
  <2> QED BY <1>6, <2>1, <2>2 DEF Inv, TypeInv
<1> QED BY <1>2, <1>3, <1>4, <1>5, <1>8, <1>9 DEF Next, Stopped

\* A table behind its directory of chunks is an array of rows: an append or a resize
\* moves no row and brings no dropped row back, and a pointer that was got before its
\* table grew still writes to its row (slabs.go:3-5, slabs.go:27-95).
THEOREM SlabsImplementRows == Spec => ImplementsArray
<1>1. Init => Inv /\ Array!Init
  BY InitHolds
<1>2. Inv /\ [Next]_vars => Inv' /\ [Array!Next]_(Array!vars)
  BY StepHolds
<1> QED BY <1>1, <1>2, PTL DEF Spec, ImplementsArray, Array!Spec
===============================================================================
