---------------------------- MODULE AliasPartition ----------------------------
(***************************************************************************)
(* What the alias index of a batch promises: the advisory names seen so    *)
(* far are partitioned into vulnerabilities, and the only way in which     *)
(* vulnerabilities change is that a request for a union of aliases brings  *)
(* in a new name or merges the two vulnerabilities of two of its names.    *)
(***************************************************************************)
CONSTANT Name

VARIABLE groups     \* a partition of the names that have been seen

Seen == UNION groups
GroupOf(n) == CHOOSE g \in groups : n \in g

Init == groups = {}

See(n) == n \notin Seen /\ groups' = groups \cup {{n}}

Merge(m, n) ==
  /\ m \in Seen /\ n \in Seen
  /\ groups' = (groups \ {GroupOf(m), GroupOf(n)}) \cup {GroupOf(m) \cup GroupOf(n)}

Next == \E m, n \in Name : See(n) \/ Merge(m, n)

Spec == Init /\ [][Next]_groups
=============================================================================
