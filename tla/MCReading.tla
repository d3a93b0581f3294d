------------------------------ MODULE MCReading ------------------------------
(***************************************************************************)
(* Reading with two threads and a text that just fits the local buffer, a  *)
(* longer one, and an equal one.                                           *)
(***************************************************************************)
EXTENDS Reading

Text(value, size) == [tag |-> "text", value |-> <<"text", value>>, size |-> size]

MCElement == <<Text("fits", 2), Text("long", 3), Text("fits", 2)>>
MCAbsent == <<"text", "absent">>
=============================================================================
