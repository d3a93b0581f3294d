-------------------------------- MODULE Slabs --------------------------------
(***************************************************************************)
(* go/slabs.go: the tables, words and indexes of a report lie in chunks of *)
(* slabSize rows behind a small directory of pointers, so that a row stays *)
(* where it is when its table grows.                                       *)
(*                                                                         *)
(* The heap is every chunk that was ever allocated; a pointer to a row is  *)
(* a cell of the heap and does not follow the directory.  Rows are counted *)
(* from 0.  A call is one step: one goroutine builds a report, and nobody  *)
(* writes to it later.                                                     *)
(***************************************************************************)
EXTENDS Naturals, Sequences, FiniteSets

CONSTANTS
  SlabSize,   \* slabSize, the rows of a chunk
  Value,      \* what a row may hold
  Zero,       \* the zero value of a row
  MaxUint,    \* math.MaxUint32
  MaxChunks,  \* bound: the chunks that are ever allocated
  MaxHeld     \* bound: the pointers that are held at a time

ASSUME SlabsAssumption ==
  /\ SlabSize \in Nat \ {0} /\ MaxUint \in Nat
  /\ MaxChunks \in Nat /\ MaxHeld \in Nat
  /\ Zero \in Value

VARIABLES
  heap,     \* the chunks that were allocated
  chunks,   \* s.chunks: the directory
  n,        \* s.n
  held,     \* the pointers that callers have got from At
  failed    \* a call has panicked

vars == <<heap, chunks, n, held, failed>>

Blank == [c \in 0..(SlabSize - 1) |-> Zero]
ChunksFor(m) == (m + SlabSize - 1) \div SlabSize

\* &directory[i/slabSize][i%slabSize]
Pointer(directory, i) ==
  [row |-> i, chunk |-> directory[i \div SlabSize + 1], cell |-> i % SlabSize]
Load(p) == heap[p.chunk][p.cell]

Init == heap = << >> /\ chunks = << >> /\ n = 0 /\ held = {} /\ failed = FALSE

\* The heap and the directory with k more chunks.
MoreHeap(k) == heap \o [i \in 1..k |-> Blank]
MoreChunks(k) == chunks \o [i \in 1..k |-> Len(heap) + i]

AppendRow(v) ==
  LET k == IF n % SlabSize = 0 THEN 1 ELSE 0
      p == Pointer(MoreChunks(k), n)
  IN /\ n + 1 <= MaxUint /\ Len(heap) + k <= MaxChunks
     /\ chunks' = MoreChunks(k)
     /\ heap' = [MoreHeap(k) EXCEPT ![p.chunk][p.cell] = v]
     /\ n' = n + 1
     /\ UNCHANGED <<held, failed>>

At(i) ==
  /\ i < n
  /\ held' = held \cup {Pointer(chunks, i)} /\ Cardinality(held') <= MaxHeld
  /\ UNCHANGED <<heap, chunks, n, failed>>

\* A caller writes through a pointer, however long ago it got it.
Write(p, v) ==
  /\ heap' = [heap EXCEPT ![p.chunk][p.cell] = v]
  /\ UNCHANGED <<chunks, n, held, failed>>

\* Resize without a need to truncate: the new rows are taken as they lie there.
Extend(m) ==
  LET k == ChunksFor(m) - Len(chunks)
  IN /\ n <= m /\ m <= MaxUint /\ Len(heap) + k <= MaxChunks
     /\ chunks' = MoreChunks(k) /\ heap' = MoreHeap(k)
     /\ n' = m
     /\ UNCHANGED <<held, failed>>

\* The unused chunks leave the directory and the rest of the last chunk is cleared.
\* Nobody keeps a pointer to a row that is gone.
TruncateTo(m, cleared) ==
  LET count == ChunksFor(m)
  IN /\ m <= n
     /\ chunks' = SubSeq(chunks, 1, count)
     /\ heap' = IF cleared /\ m % SlabSize # 0
                THEN [heap EXCEPT ![chunks[count]] =
                        [c \in DOMAIN @ |-> IF c < m % SlabSize THEN @[c] ELSE Zero]]
                ELSE heap
     /\ n' = m
     /\ held' = {p \in held : p.row < m}
     /\ UNCHANGED failed

\* Mutant: the rest of the last chunk keeps its rows.
MutantTruncate(m) == TruncateTo(m, FALSE)

Truncate(m) == TruncateTo(m, TRUE)

\* A panic: checked refuses a length, At an index.
Refuse == failed' = TRUE /\ UNCHANGED <<heap, chunks, n, held>>

Stopped == failed /\ UNCHANGED vars

Next ==
  \/ /\ ~failed
     /\ \/ \E v \in Value : AppendRow(v) \/ \E p \in held : Write(p, v)
        \/ \E i \in 0..MaxUint : At(i)
        \/ \E m \in 0..MaxUint : Extend(m) \/ Truncate(m)
        \/ Refuse
  \/ Stopped

Spec == Init /\ [][Next]_vars

(***************************************************************************)
(* Properties                                                              *)
(***************************************************************************)
\* Through the directory the chunks are an array of n rows: appending, growing and
\* shrinking never bring a row back that was dropped, and what is written through a
\* pointer is seen in its row however much the table has grown since
\* ("Rows never move when a table grows", slabs.go:3-5).
Array == INSTANCE Rows WITH
           rows <- [i \in 0..(n - 1) |-> Load(Pointer(chunks, i))],
           held <- {p.row : p \in held}

ImplementsArray == Array!Spec
=============================================================================
