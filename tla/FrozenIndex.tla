----------------------------- MODULE FrozenIndex -----------------------------
(***************************************************************************)
(* go/indexes.go: makeIndex freezes the edges of a relationship between    *)
(* rows into offsets and members.  It counts the edges of each key, sums   *)
(* the counts up, fills the members through cursors, and then sorts and    *)
(* deduplicates the members of each key in place, overwriting members and  *)
(* offsets while it still reads from them.                                 *)
(*                                                                         *)
(* Keys, values and positions are counted from 0, as in the code.  Slabs   *)
(* are functions over their positions.  The loops are modelled turn by     *)
(* turn, the sort of one window and the copy of the offsets into the       *)
(* cursors as one step each.                                               *)
(***************************************************************************)
EXTENDS Naturals, Sequences, FiniteSets, SequencesExt

CONSTANTS
  Size,        \* the number of keys
  MaxValue,    \* bound: the greatest value of an edge
  MaxEdges,    \* bound: the number of edges
  MaxUint,     \* math.MaxUint32
  CheckEvery   \* how often the loops look at the context (1024 in the code)

ASSUME IndexAssumption ==
  /\ Size \in Nat /\ MaxValue \in Nat /\ MaxEdges \in Nat /\ MaxUint \in Nat
  /\ CheckEvery \in Nat \ {0}

VARIABLES
  edges,        \* the edges in the order in which the rows are visited
  contiguous,   \* the values of a key are a range of rows: no members are kept
  pc,           \* count, prefix, fill, window (between keys), compact, done, panic
  at,           \* the position of the loop: edge, offset, key or member j
  key,          \* the key whose window is compacted
  total, offsets, cursor, members, start, n, previous

data == <<total, offsets, cursor, members, start, n, previous>>
vars == <<edges, contiguous, pc, at, key, data>>

Key == 0..(Size - 1)
Edge == Key \X (0..MaxValue)
ValuesOf(k) == {e[2] : e \in {e \in Range(edges) : e[1] = k}}

\* What buildIndexes passes for a contiguous index: the rows in order, the keys
\* of which only go up.
InOrder(es) ==
  \A i \in DOMAIN es : es[i][2] = i - 1 /\ \A j \in 1..i : es[j][1] <= es[i][1]

Init ==
  /\ edges \in UNION {[1..m -> Edge] : m \in 0..MaxEdges}
  /\ contiguous \in {FALSE} \cup {InOrder(edges)}
  /\ pc = "count" /\ at = 1 /\ key = 0
  /\ total = 0 /\ offsets = [i \in 0..Size |-> 0] /\ cursor = << >> /\ members = << >>
  /\ start = 0 /\ n = 0 /\ previous = 0

Goto(where, position) == pc' = where /\ at' = position

\* addIndexCount: the first visit counts the edges of each key.
Count ==
  /\ pc = "count" /\ at <= Len(edges) /\ total < MaxUint
  /\ total' = total + 1
  /\ offsets' = [offsets EXCEPT ![edges[at][1] + 1] = @ + 1]
  /\ Goto("count", at + 1)
  /\ UNCHANGED <<edges, contiguous, key, cursor, members, start, n, previous>>

CountOverflow ==
  /\ pc = "count" /\ at <= Len(edges) /\ total = MaxUint
  /\ Goto("panic", at)
  /\ UNCHANGED <<edges, contiguous, key, data>>

CountEnd ==
  /\ pc = "count" /\ at > Len(edges)
  /\ Goto("prefix", 1)
  /\ UNCHANGED <<edges, contiguous, key, data>>

\* prefixIndexCounts; the sums stay below the total, which has been checked.
Prefix ==
  /\ pc = "prefix" /\ at <= Size
  /\ offsets' = [offsets EXCEPT ![at] = @ + offsets[at - 1]]
  /\ Goto("prefix", at + 1)
  /\ UNCHANGED <<edges, contiguous, key, total, cursor, members, start, n, previous>>

ContiguousDone ==
  /\ pc = "prefix" /\ at > Size /\ contiguous
  /\ Goto("done", 0)
  /\ UNCHANGED <<edges, contiguous, key, data>>

\* The members get their final number of cells and a cursor for each key.
Cursors ==
  /\ pc = "prefix" /\ at > Size /\ ~contiguous
  /\ members' = [p \in 0..(offsets[Size] - 1) |-> 0]
  /\ cursor' = [k \in Key |-> offsets[k]]
  /\ Goto("fill", 1)
  /\ UNCHANGED <<edges, contiguous, key, total, offsets, start, n, previous>>

\* The second visit puts each value at the cursor of its key.
Fill ==
  /\ pc = "fill" /\ at <= Len(edges)
  /\ LET k == edges[at][1]
     IN /\ members' = [members EXCEPT ![cursor[k]] = edges[at][2]]
        /\ cursor' = [cursor EXCEPT ![k] = @ + 1]
  /\ Goto("fill", at + 1)
  /\ UNCHANGED <<edges, contiguous, key, total, offsets, start, n, previous>>

FillEnd ==
  /\ pc = "fill" /\ at > Len(edges)
  /\ Goto("window", 0) /\ key' = 0
  /\ UNCHANGED <<edges, contiguous, data>>

\* sort.Sort swaps the members of a window into one of the arrangements in which no
\* member is less than the one before it; which of them it is does not matter.
Sortings(window) ==
  {from \in Bijection(window, window) :
     \A p, q \in window : p < q => members[from[p]] <= members[from[q]]}

\* The members of the next key are sorted where they are, and the offset of the
\* key becomes the number of members kept so far.
WindowWith(moved) ==
  /\ pc = "window" /\ key < Size
  /\ \E from \in Sortings(offsets[key]..(offsets[key + 1] - 1)) :
       members' = [p \in DOMAIN members |-> members[IF p \in DOMAIN from THEN from[p] ELSE p]]
  /\ offsets' = [offsets EXCEPT ![moved] = n]
  /\ start' = offsets[key] /\ previous' = 0
  /\ Goto("compact", offsets[key])
  /\ UNCHANGED <<edges, contiguous, key, total, cursor, n>>

\* Mutant: the offset of the next key is moved before its window is read.
MutantWindow == WindowWith(key + 1)

Window == WindowWith(key)

\* A member of the window is kept unless it repeats the one before it.
CompactFrom(first) ==
  /\ pc = "compact" /\ at < offsets[key + 1]
  /\ IF first \/ members[at] # previous
     THEN /\ members' = [members EXCEPT ![n] = members[at]]
          /\ n' = n + 1 /\ previous' = members[at]
     ELSE UNCHANGED <<members, start, n, previous>>
  /\ Goto("compact", at + 1)
  /\ UNCHANGED <<edges, contiguous, key, total, offsets, cursor, start>>

\* Mutant: the first member of a window is compared with the initial value.
MutantCompact == CompactFrom(FALSE)

Compact == CompactFrom(at = start)

WindowEnd ==
  /\ pc = "compact" /\ at = offsets[key + 1]
  /\ Goto("window", 0) /\ key' = key + 1
  /\ UNCHANGED <<edges, contiguous, data>>

\* The last offset moves and the cells behind the kept members are released.
Truncate ==
  /\ pc = "window" /\ key = Size
  /\ offsets' = [offsets EXCEPT ![Size] = n]
  /\ members' = [p \in 0..(n - 1) |-> members[p]]
  /\ Goto("done", 0)
  /\ UNCHANGED <<edges, contiguous, key, total, cursor, start, n, previous>>

\* checkContext: a loop finds that the operation has been cancelled.
AtCheck ==
  \/ pc = "count" /\ (at - 1) % CheckEvery = 0
  \/ pc = "prefix" /\ at <= Size
  \/ pc = "fill" /\ (at - 1) % CheckEvery = 0
  \/ pc = "window" /\ key < Size
  \/ pc = "compact" /\ at < offsets[key + 1] /\ at % CheckEvery = 0

Canceled ==
  /\ AtCheck
  /\ Goto("panic", at)
  /\ UNCHANGED <<edges, contiguous, key, data>>

Stopped == pc \in {"done", "panic"} /\ UNCHANGED vars

Next ==
  \/ Count \/ CountOverflow \/ CountEnd
  \/ Prefix \/ ContiguousDone \/ Cursors
  \/ Fill \/ FillEnd
  \/ Window \/ Compact \/ WindowEnd \/ Truncate
  \/ Canceled \/ Stopped

Spec == Init /\ [][Next]_vars

(***************************************************************************)
(* Properties                                                              *)
(***************************************************************************)
\* The compaction writes behind what it reads: the kept members never reach the
\* next member to be read, and the windows of the keys to come hold their values
\* and have their bounds (indexes.go:78-98).
ReadsAheadOfWrites ==
  /\ pc = "compact" => n <= at /\ at <= offsets[key + 1]
  /\ pc \in {"window", "compact"} =>
       \A k \in (IF pc = "window" THEN key ELSE key + 1)..(Size - 1) :
         LET window == offsets[k]..(offsets[k + 1] - 1)
         IN /\ Cardinality(window) = Cardinality({i \in DOMAIN edges : edges[i][1] = k})
            /\ {members[p] : p \in window} = ValuesOf(k)

\* What an index answers for a key: its range of rows, or its members.
Answer(k) ==
  [i \in 1..(offsets[k + 1] - offsets[k]) |->
     IF contiguous THEN offsets[k] + i - 1 ELSE members[offsets[k] + i - 1]]

\* The index that is built answers each key with its values, each of them once and
\* in order, whatever the order of the edges was, and its offsets fit 32 bits: no
\* sum of counts was wrapped (indexValue, abi.go:153-167; indexes.go:40-52).
IndexIsExact ==
  pc = "done" =>
    /\ \A k \in Key :
         /\ Range(Answer(k)) = ValuesOf(k)
         /\ \A i, j \in DOMAIN Answer(k) : i < j => Answer(k)[i] < Answer(k)[j]
    /\ total <= MaxUint /\ Len(edges) = total
=============================================================================
