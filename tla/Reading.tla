------------------------------- MODULE Reading -------------------------------
(***************************************************************************)
(* The reads of a finished report (src/osvpy/_native.pyx, osv_result_get   *)
(* in go/abi.go).  Python threads share views of one report and read a     *)
(* sequence property of it: items, slices, iteration, count and index.     *)
(* Each element is fetched by a native call with a buffer of fixed size,   *)
(* and a second time into allocated memory if it does not fit; the         *)
(* second call runs without the GIL, while other threads drop references.  *)
(* The last reference to the owner releases the report.                    *)
(*                                                                         *)
(* Steps between two releases of the GIL are atomic.  Indices count from   *)
(* 0; the index -1 asks for the sequence itself.                           *)
(***************************************************************************)
EXTENDS Integers, Sequences, FiniteSets, FiniteSetsExt

CONSTANTS
  Thread,     \* the threads of the process
  Element,    \* the texts of the sequence, with their sizes
  LocalSize,  \* the size of the buffer on the stack (512)
  Absent,     \* a value that no element has
  MaxViews    \* bound: the references that the program keeps at a time

ASSUME ReadingAssumption ==
  /\ IsFiniteSet(Thread) /\ LocalSize \in Nat /\ MaxViews \in Nat
  /\ Element # << >> /\ Element \in Seq({Element[i] : i \in DOMAIN Element})
  /\ \A i \in DOMAIN Element : Element[i].tag = "text" /\ Element[i].size \in Nat

VARIABLES
  handle,  \* the handle of the report: live or released
  refs,    \* the references to the owner
  views,   \* those of them that the program keeps in views and sequences
  pc,      \* idle, get, unlocked (the second call), suspended (at a yield)
  op,      \* the operation of a thread
  todo,    \* the indices that the operation has yet to read
  items,   \* what it has read
  result   \* what the last operation of a thread returned or raised

vars == <<handle, refs, views, pc, op, todo, items, result>>

Size == Len(Element)
Index == (-Size - 1)..Size
Values == {Element[i].value : i \in 1..Size} \cup {Absent}

\* What a call ends with.
Number(k) == <<"number", k>>
Tuple(values) == <<"tuple", values>>
Raised(exception) == <<"raised", exception>>
Pending == <<"pending">>
Closed == <<"closed">>

\* PySlice_GetIndicesEx gives a slice as a first position, a step and a length; for
\* index it gives the bounds of the search.
Slices == {s \in [kind : {"slice"}, first : 0..(Size - 1), step : {-1, 1, 2}, length : 0..Size] :
             s.length > 0 => s.first + (s.length - 1) * s.step \in 0..(Size - 1)}
Operation ==
  Slices
    \cup [kind : {"item"}, index : Index]
    \cup [kind : {"count"}, value : Values]
    \cup [kind : {"index"}, value : Values, first : 0..Size, last : 0..Size]
    \cup {[kind |-> "iter"], [kind |-> "property"]}

From(first, last) == [i \in 1..(IF last > first THEN last - first ELSE 0) |-> first + i - 1]

\* IndexedSequence.__getitem__: an item is read only if its index is in range.
Wrapped(i) == IF i < 0 THEN i + Size ELSE i

\* Mutant: an index that is still negative is passed on.
MutantInRange(i) == Wrapped(i) < Size

InRange(i) == 0 <= Wrapped(i) /\ Wrapped(i) < Size

\* The native indices that an operation reads, in order.
Positions(o) ==
  CASE o.kind = "item" -> <<Wrapped(o.index)>>
    [] o.kind = "slice" -> [i \in 1..o.length |-> o.first + (i - 1) * o.step]
    [] o.kind = "index" -> From(o.first, o.last)
    [] o.kind \in {"iter", "count"} -> From(0, Size)
    [] o.kind = "property" -> <<-1>>

\* value, for the property and its elements.
Native(i) ==
  IF i < 0 THEN [tag |-> "sequence", value |-> Number(Size), size |-> 0]
  ELSE IF i >= Size THEN [tag |-> "panic", value |-> Raised("invalid index"), size |-> 0]
  ELSE Element[i + 1]

\* osv_result_get copies a text if the buffer has room for it.
Copied(v, capacity) == IF capacity >= v.size THEN v.value ELSE <<"bytes", "untouched">>

Init ==
  /\ handle = "live" /\ refs = 1 /\ views = 1
  /\ pc = [t \in Thread |-> "idle"] /\ op = [t \in Thread |-> [kind |-> "none"]]
  /\ todo = [t \in Thread |-> << >>] /\ items = [t \in Thread |-> << >>]
  /\ result = [t \in Thread |-> Pending]

\* _Owner.__dealloc__: the last reference releases the report.
References(count) ==
  /\ refs' = count
  /\ handle' = IF count = 0 THEN "released" ELSE handle

\* A thread calls a method of a view that the program has; the call holds the view.
Begin(t, o) ==
  /\ pc[t] = "idle" /\ views > 0
  /\ op' = [op EXCEPT ![t] = o]
  /\ IF o.kind = "item" /\ ~InRange(o.index)
     THEN /\ result' = [result EXCEPT ![t] = Raised("IndexError")]
          /\ UNCHANGED <<refs, pc, todo>>
     ELSE /\ pc' = [pc EXCEPT ![t] = "get"] /\ todo' = [todo EXCEPT ![t] = Positions(o)]
          /\ refs' = refs + 1
          /\ result' = [result EXCEPT ![t] = Pending]
  /\ items' = [items EXCEPT ![t] = << >>]
  /\ UNCHANGED <<handle, views>>

\* What an operation returns for the values it has read.
Answer(o, read) ==
  CASE o.kind \in {"item", "property"} -> read[1]
    [] o.kind \in {"slice", "iter"} -> Tuple(read)
    [] o.kind = "count" -> Number(Cardinality({i \in DOMAIN read : read[i] = o.value}))
    [] o.kind = "index" -> IF read # << >> /\ read[Len(read)] = o.value
                           THEN Number(o.first + Len(read) - 1) ELSE Raised("ValueError")

\* The call is over and lets its view go; the program may keep what it got, which
\* refers to the owner if it is a view or a sequence.
End(t, answer, kept) ==
  /\ pc' = [pc EXCEPT ![t] = "idle"] /\ result' = [result EXCEPT ![t] = answer]
  /\ todo' = [todo EXCEPT ![t] = << >>] /\ items' = [items EXCEPT ![t] = << >>]
  /\ views' = views + kept /\ views' <= MaxViews
  /\ References(refs - 1 + kept)
  /\ UNCHANGED op

Return(t) ==
  /\ pc[t] = "get" /\ todo[t] = << >>
  /\ \E kept \in IF op[t].kind \in {"item", "slice", "property"} THEN {0, 1} ELSE {0} :
       End(t, Answer(op[t], items[t]), kept)

\* An element has been read: the search ends where it finds its value, and an
\* iteration yields.
Take(t, value) ==
  /\ items' = [items EXCEPT ![t] = Append(@, value)]
  /\ todo' = [todo EXCEPT ![t] =
                IF op[t].kind = "index" /\ value = op[t].value THEN << >> ELSE Tail(@)]
  /\ pc' = [pc EXCEPT ![t] = IF op[t].kind = "iter" THEN "suspended" ELSE "get"]
  /\ UNCHANGED <<handle, refs, views, op, result>>

Long(v) == v.tag = "text" /\ v.size > LocalSize

\* read: the first call, with the buffer on the stack.
Get(t) ==
  /\ pc[t] = "get" /\ todo[t] # << >>
  /\ LET v == Native(Head(todo[t]))
     IN IF handle = "released" THEN Take(t, Raised("dead handle"))
        ELSE IF Long(v)
        THEN /\ pc' = [pc EXCEPT ![t] = "unlocked"]
             /\ UNCHANGED <<handle, refs, views, op, todo, items, result>>
        ELSE Take(t, Copied(v, LocalSize))

\* malloc fails.
NoMemory(t) ==
  /\ pc[t] = "get" /\ todo[t] # << >> /\ handle = "live" /\ Long(Native(Head(todo[t])))
  /\ End(t, Raised("MemoryError"), 0)

\* The second call, without the GIL, with a buffer of the size that the first gave.
GetAgain(t) ==
  /\ pc[t] = "unlocked"
  /\ LET v == Native(Head(todo[t]))
     IN Take(t, IF handle = "released" THEN Raised("dead handle") ELSE Copied(v, v.size))

\* The generator of an iteration goes on, or the program drops it.
Resume(t) ==
  /\ pc[t] = "suspended"
  /\ pc' = [pc EXCEPT ![t] = "get"]
  /\ UNCHANGED <<handle, refs, views, op, todo, items, result>>

\* Mutant: a generator that is dropped leaks its view.
MutantClose(t) ==
  /\ pc[t] = "suspended"
  /\ pc' = [pc EXCEPT ![t] = "idle"] /\ result' = [result EXCEPT ![t] = Closed]
  /\ UNCHANGED <<handle, refs, views, op, todo, items>>

Close(t) == pc[t] = "suspended" /\ End(t, Closed, 0)

\* The program drops one of its references, whatever other threads are reading.
Drop ==
  /\ views > 0 /\ views' = views - 1 /\ References(refs - 1)
  /\ UNCHANGED <<pc, op, todo, items, result>>

\* The program has nothing left to read from.
Stopped == views = 0 /\ (\A t \in Thread : pc[t] = "idle") /\ UNCHANGED vars

Reads(t) == Get(t) \/ NoMemory(t) \/ GetAgain(t) \/ Return(t)

Next ==
  \/ \E t \in Thread :
       \/ \E o \in Operation : Begin(t, o)
       \/ Reads(t) \/ Resume(t) \/ Close(t)
  \/ Drop \/ Stopped

\* A call that has begun is run to its end, as the GIL goes round.  Nothing forces the
\* program to drop a view or to finish an iteration.
Spec == Init /\ [][Next]_vars /\ \A t \in Thread : WF_vars(Reads(t))

(***************************************************************************)
(* Properties                                                              *)
(***************************************************************************)
\* What a Python sequence of these elements answers.
Item(i) == Element[i + 1].value
Expected(o) ==
  CASE o.kind = "item" -> IF o.index \in 0..(Size - 1) THEN Item(o.index)
                          ELSE IF o.index \in -Size..-1 THEN Item(Size + o.index)
                          ELSE Raised("IndexError")
    [] o.kind = "slice" -> Tuple([i \in 1..o.length |-> Item(o.first + (i - 1) * o.step)])
    [] o.kind = "iter" -> Tuple([i \in 1..Size |-> Item(i - 1)])
    [] o.kind = "count" -> Number(Cardinality({i \in 1..Size : Element[i].value = o.value}))
    [] o.kind = "index" ->
         LET found == {i \in o.first..(o.last - 1) : Item(i) = o.value}
         IN IF found = {} THEN Raised("ValueError") ELSE Number(Min(found))
    [] o.kind = "property" -> Number(Size)

\* Every call that completes returns what a Python sequence of the elements would,
\* whatever their sizes, and no call meets a handle that is dead because another
\* thread dropped its references meanwhile (_native.pyx:86-140, 179-217;
\* "Every view/sequence holds this owner strongly", _native.pyx:33-34).
ReadsAreExact ==
  \A t \in Thread :
    result[t] \notin {Pending, Raised("MemoryError"), Closed} => result[t] = Expected(op[t])

\* Once the program has let go of its views, sequences and iterations for good, the
\* report is released, also after a read that failed (_native.pyx:33-40).
ReportReleased ==
  <>[](views = 0 /\ \A t \in Thread : pc[t] # "suspended") => <>(handle = "released")
=============================================================================
