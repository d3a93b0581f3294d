------------------------------ MODULE IndexPlan ------------------------------
(***************************************************************************)
(* go/indexes.go: indexBuildOrder estimates for each of the indexes of a   *)
(* report what it keeps and what its construction needs on top of that,    *)
(* and buildIndexes builds them one after the other in the order that is   *)
(* meant to keep the peak of memory low.                                   *)
(*                                                                         *)
(* Memory is counted in cells; it is allocated in slabs.  The offsets of   *)
(* an index are allocated with it and kept.                                *)
(***************************************************************************)
EXTENDS Naturals, Sequences, FiniteSets, FiniteSetsExt

CONSTANTS
  Slot,       \* the slots of the indexes, numbers as in the ABI
  MaxRaw,     \* bound: edges of an index
  MaxBound,   \* bound: pairs of rows that an index may relate
  Sizes,      \* the numbers of keys of an index
  SlabSize,   \* 1024 in the code
  MaxUint32   \* math.MaxUint32

ASSUME PlanAssumption ==
  /\ Slot \subseteq Nat /\ IsFiniteSet(Slot)
  /\ MaxRaw \in Nat /\ MaxBound \in Nat /\ Sizes \subseteq Nat
  /\ SlabSize \in Nat \ {0} /\ MaxUint32 \in Nat

VARIABLES
  plan,      \* for each slot: contiguous, size (keys), raw (edges), bound (pairs)
  order,     \* the slots in the order in which they are still to be built
  stage,     \* next (before a build), building, panic
  held,      \* the cells kept by the indexes that are built
  peak,      \* the greatest number of cells allocated at a time so far
  indexes    \* r.Indexes: the slots that are filled

planVars == <<plan, order, stage, held, peak, indexes>>

\* indexMemberBytes, in cells.
MemberCells(cells) == ((cells + SlabSize - 1) \div SlabSize) * SlabSize

Least(a, b) == IF a < b THEN a ELSE b
Greatest(a, b) == IF a < b THEN b ELSE a

\* indexBuildOrder's estimates of the members that stay and of the cells that a
\* construction needs beyond them.
Retained(d) == IF d.contiguous THEN 0 ELSE Least(d.raw, d.bound)
Temporary(d) ==
  IF d.contiguous THEN 0
  ELSE MemberCells(d.raw) - MemberCells(Retained(d)) + MemberCells(d.size)

\* Mutant: the largest index is built first.
MutantBefore(a, b) ==
  plan[a].raw > plan[b].raw \/ (plan[a].raw = plan[b].raw /\ a < b)

\* The order of construction: by temporary cells, then edges, then slots.
Before(a, b) ==
  LET s == plan[a]  t == plan[b]
  IN \/ Temporary(s) > Temporary(t)
     \/ Temporary(s) = Temporary(t) /\ s.raw > t.raw
     \/ Temporary(s) = Temporary(t) /\ s.raw = t.raw /\ a < b

\* The estimates do not look at the pairs of a contiguous index.
Definition ==
  [contiguous : {FALSE}, size : Sizes, raw : 0..MaxRaw, bound : 0..MaxBound]
    \cup [contiguous : {TRUE}, size : Sizes, raw : 0..MaxRaw, bound : {MaxBound}]

\* The sequences in which every slot occurs once.
Orders ==
  {slots \in [1..Cardinality(Slot) -> Slot] : \A s \in Slot : \E i \in DOMAIN slots : slots[i] = s}

PlanInit ==
  /\ plan \in [Slot -> Definition]
  /\ order \in {slots \in Orders : \A i, j \in DOMAIN slots : i < j => Before(slots[i], slots[j])}
  /\ stage = IF \E s \in Slot : plan[s].raw > MaxUint32 THEN "panic" ELSE "next"
  /\ held = 0 /\ peak = 0 /\ indexes = {}

Current == plan[Head(order)]

\* makeIndex has allocated all that it needs: offsets, members for all the edges
\* and cursors; a contiguous index has only offsets.
Allocated(d) ==
  MemberCells(d.size + 1)
    + IF d.contiguous THEN 0 ELSE MemberCells(d.raw) + MemberCells(d.size)

Allocate ==
  /\ stage = "next" /\ order # << >>
  /\ peak' = Greatest(peak, held + Allocated(Current))
  /\ stage' = "building"
  /\ UNCHANGED <<plan, order, held, indexes>>

\* makeIndex returns with the distinct members, of which there are at most as many
\* as pairs, in slabs that are truncated to them; its cursors are garbage.
ReturnIndex(kept) ==
  /\ held' = held + MemberCells(Current.size + 1) + MemberCells(kept)
  /\ indexes' = indexes \cup {Head(order)}
  /\ order' = Tail(order) /\ stage' = "next"
  /\ UNCHANGED <<plan, peak>>

Return ==
  /\ stage = "building"
  /\ \E kept \in {Retained(Current), Least(1, Retained(Current))} : ReturnIndex(kept)

PlanStopped == (stage = "panic" \/ order = << >>) /\ UNCHANGED planVars

PlanNext == Allocate \/ Return \/ PlanStopped

PlanSpec == PlanInit /\ [][PlanNext]_planVars

(***************************************************************************)
(* Properties                                                              *)
(***************************************************************************)
\* The cells that the indexes of a set of slots keep when each of them keeps as many
\* members as was estimated; a cell is known by its slot and its number.
Kept(d) == MemberCells(d.size + 1) + MemberCells(Retained(d))
KeptBy(slots) == Cardinality(UNION {{s} \X (1..Kept(plan[s])) : s \in slots})

\* The peak of building the indexes in a given order then.
PeakOf(slots) ==
  Max({0} \cup {KeptBy({slots[j] : j \in 1..(i - 1)}) + Allocated(plan[slots[i]]) :
                  i \in DOMAIN slots})

\* No order of construction has a lower peak than the one the code chooses, and the
\* peak only gets lower when an index deduplicates more than was estimated (the
\* comment in indexes.go:177-180).
PeakIsMinimal == \A slots \in Orders : peak <= PeakOf(slots)
=============================================================================
