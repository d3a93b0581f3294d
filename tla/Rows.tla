-------------------------------- MODULE Rows --------------------------------
(***************************************************************************)
(* What a store of rows promises to the builder, the indexes and the       *)
(* views: an array that grows and shrinks at its end.  A new row is zero   *)
(* unless a value is given, and a pointer to a row stays good for as long  *)
(* as the row is there.  Rows are counted from 0.                          *)
(***************************************************************************)
EXTENDS Naturals

CONSTANTS
  Value,    \* what a row may hold
  Zero,     \* the zero value of a row
  MaxUint   \* math.MaxUint32

VARIABLES
  rows,     \* the rows, as a function over 0 .. number of rows - 1
  held,     \* the rows that somebody has a pointer to
  failed    \* a call has panicked; the batch is given up

vars == <<rows, held, failed>>

Number(r) == CHOOSE k \in 0..MaxUint : DOMAIN r = 0..(k - 1)

Init == rows = [i \in {} |-> Zero] /\ held = {} /\ failed = FALSE

\* The array with m rows: those of before, then zero rows.
Sized(m) == [i \in 0..(m - 1) |-> IF i \in DOMAIN rows THEN rows[i] ELSE Zero]

Append(v) ==
  /\ Number(rows) < MaxUint
  /\ rows' = [i \in 0..Number(rows) |-> IF i \in DOMAIN rows THEN rows[i] ELSE v]
  /\ UNCHANGED <<held, failed>>

At(i) == i \in DOMAIN rows /\ held' = held \cup {i} /\ UNCHANGED <<rows, failed>>

Write(i, v) == i \in held /\ rows' = [rows EXCEPT ![i] = v] /\ UNCHANGED <<held, failed>>

Resize(m) == rows' = Sized(m) /\ held' = held \cap 0..(m - 1) /\ UNCHANGED failed

\* A call that asks for too much changes no row.
Fail == failed' = TRUE /\ UNCHANGED <<rows, held>>

Next ==
  /\ ~failed
  /\ \/ \E v \in Value : Append(v) \/ \E i \in held : Write(i, v)
     \/ \E i \in DOMAIN rows : At(i)
     \/ \E m \in 0..MaxUint : Resize(m)
     \/ Fail

Spec == Init /\ [][Next]_vars
=============================================================================
