----------------------------- MODULE AliasGroups -----------------------------
(***************************************************************************)
(* go/store.go: the union-find over advisory names with which the builder  *)
(* groups the advisories of a whole batch into vulnerabilities.  union     *)
(* interns the names of a request, finds their roots with path halving and *)
(* links the roots so that the preferred name stays on top; finishAliases  *)
(* flattens the forest, sorts the ids by their roots with a counting sort  *)
(* and lays the groups out.                                                *)
(*                                                                         *)
(* A name is a natural number that stands for its place in the order of    *)
(* strings; CVE is the set of the names with the prefix "CVE-".  An id is  *)
(* the position at which a name was interned, counted from 1.  The loops   *)
(* of root, of union and of the counting sort are modelled turn by turn.   *)
(***************************************************************************)
EXTENDS Naturals, Sequences, FiniteSets

CONSTANTS
  Name,          \* the names that requests may hold
  CVE,           \* those of them with the prefix
  MaxRequests,   \* bound: the number of calls of union
  MaxAliases     \* bound: the length of a request

ASSUME AliasAssumption ==
  Name \subseteq Nat /\ CVE \subseteq Name /\ MaxRequests \in Nat /\ MaxAliases \in Nat

VARIABLES
  names,      \* b.names: the name of each id
  parent,     \* b.parent
  pc,         \* where the builder is: idle; first, next or flatten, in root's loop
              \* for union's first name, another one, or finishAliases;
              \* linked, between two names of union; sort, sum and fill in the
              \* rest of finishAliases, and done
  sought,     \* the id that root was called with, or that a later loop is at
  cur,        \* root's id
  top,        \* union's a
  origin,     \* the id of the request's first name
  rest,       \* the names of the request that are still to come
  asked,      \* the pairs of ids that union has joined
  requests,   \* the number of calls of union so far
  counts, roots, offsets, members,    \* the tables of finishAliases
  vulnerabilities, byAlias            \* what finishAliases leaves

forest == <<names, parent>>
walk == <<pc, sought, cur, top, origin, rest>>
history == <<asked, requests>>
tables == <<counts, roots, offsets, members>>
out == <<tables, vulnerabilities, byAlias>>
vars == <<forest, walk, history, out>>

Id == DOMAIN names
Roots == {i \in Id : parent[i] = i}

\* preferred: a CVE before any other name, then the smaller string.
Preferred(a, b) ==
  \/ a \in CVE /\ b \notin CVE
  \/ (a \in CVE <=> b \in CVE) /\ a < b

Init ==
  /\ names = << >> /\ parent = << >>
  /\ pc = "idle" /\ sought = 0 /\ cur = 0 /\ top = 0 /\ origin = 0 /\ rest = << >>
  /\ asked = {} /\ requests = 0
  /\ counts = << >> /\ roots = << >> /\ offsets = << >> /\ members = << >>
  /\ vulnerabilities = << >> /\ byAlias = << >>

\* Mutant: the name is not looked up.
MutantIntern(n) ==
  /\ names' = Append(names, n) /\ parent' = Append(parent, Len(parent) + 1)
  /\ sought' = Len(names) + 1 /\ cur' = sought'

\* internAlias; root's loop starts from the id of n.
Intern(n) ==
  /\ \/ /\ \E id \in Id : names[id] = n /\ sought' = id
        /\ UNCHANGED forest
     \/ /\ \A id \in Id : names[id] # n
        /\ sought' = Len(names) + 1
        /\ names' = Append(names, n) /\ parent' = Append(parent, sought')
  /\ cur' = sought'

\* union with a request: its first name is interned and its root sought.
Union(n, request) ==
  /\ pc = "idle" /\ requests < MaxRequests
  /\ Intern(n)
  /\ origin' = sought' /\ rest' = request /\ pc' = "first"
  /\ requests' = requests + 1
  /\ UNCHANGED <<top, asked, out>>

\* union's loop: the next name is interned and its root sought.
NextAlias ==
  /\ pc = "linked" /\ rest # << >>
  /\ Intern(Head(rest))
  /\ rest' = Tail(rest) /\ pc' = "next"
  /\ UNCHANGED <<top, origin, history, out>>

\* union returns.
UnionEnd ==
  /\ pc = "linked" /\ rest = << >>
  /\ pc' = "idle"
  /\ UNCHANGED <<forest, sought, cur, top, origin, rest, history, out>>

\* A turn of root's loop gives up a parent for a grandparent.
HalveTo(node, grandparent) ==
  /\ pc \in {"first", "next", "flatten"} /\ parent[cur] # cur
  /\ parent' = [parent EXCEPT ![node] = grandparent]
  /\ cur' = parent'[cur]
  /\ UNCHANGED <<names, pc, sought, top, origin, rest, history, out>>

\* Mutant: the node's parent is put under the node.
MutantHalveBelow == HalveTo(parent[cur], cur)

Halve == HalveTo(cur, parent[parent[cur]])

\* root's loop is over.
RootFound(loop) == pc = loop /\ parent[cur] = cur

\* The walk from the first name has found its root.
FoundFirst ==
  /\ RootFound("first")
  /\ top' = cur /\ pc' = "linked"
  /\ UNCHANGED <<forest, sought, cur, origin, rest, history, out>>

\* The walk from another name has found its root: the root that is not
\* preferred goes under the other one, which is a from now on.
LinkRoots(below, above, a) ==
  /\ parent' = [parent EXCEPT ![below] = above]
  /\ top' = a /\ pc' = "linked"
  /\ asked' = asked \cup {<<origin, sought>>}
  /\ UNCHANGED <<names, sought, cur, origin, rest, requests, out>>

\* Mutants: the prefix does not count; the roots change places and a stays.
MutantLinkByName ==
  /\ RootFound("next")
  /\ IF names[cur] < names[top]
     THEN LinkRoots(top, cur, cur)
     ELSE LinkRoots(cur, top, top)

MutantLinkKeepsTop ==
  /\ RootFound("next")
  /\ IF Preferred(names[cur], names[top])
     THEN LinkRoots(top, cur, top)
     ELSE LinkRoots(cur, top, top)

Link ==
  /\ RootFound("next")
  /\ IF Preferred(names[cur], names[top])
     THEN LinkRoots(top, cur, cur)
     ELSE LinkRoots(cur, top, top)

\* finishAliases seeks the root of an id, or has done so for all of them.
Flatten(id) ==
  /\ sought' = id /\ cur' = id
  /\ pc' = IF id \in Id THEN "flatten" ELSE "sort"

Finish ==
  /\ pc = "idle"
  /\ counts' = [id \in Id |-> 0] /\ roots' = << >>
  /\ Flatten(1)
  /\ UNCHANGED <<forest, top, origin, rest, history, offsets, members, vulnerabilities, byAlias>>

\* finishAliases' first loop puts the id right under its root and counts it; a
\* root that is met for the first time is listed.
Flattened ==
  /\ RootFound("flatten")
  /\ parent' = [parent EXCEPT ![sought] = cur]
  /\ roots' = IF counts[cur] = 0 THEN Append(roots, cur) ELSE roots
  /\ counts' = [counts EXCEPT ![cur] = @ + 1]
  /\ Flatten(sought + 1)
  /\ UNCHANGED <<names, top, origin, rest, history, offsets, members, vulnerabilities, byAlias>>

\* What sorting a set by its keys leaves: the k-th has k - 1 before it.
InOrder(set, key) ==
  [k \in 1..Cardinality(set) |->
     CHOOSE x \in set : Cardinality({y \in set : key[y] < key[x]}) = k - 1]

Sorted(set) == InOrder(set, [x \in set |-> x])

\* A loop over the ids begins, and makes its next turn.
Begin(loop) == pc' = loop /\ sought' = 1
Turn(loop) == pc = loop /\ sought \in Id /\ sought' = sought + 1 /\ UNCHANGED pc

\* The roots are sorted by their names.
SortRoots ==
  /\ pc = "sort"
  /\ LET order == InOrder(DOMAIN roots, [k \in DOMAIN roots |-> names[roots[k]]])
     IN roots' = [k \in DOMAIN order |-> roots[order[k]]]
  /\ offsets' = [i \in 1..(Len(names) + 1) |-> 0]
  /\ Begin("sum")
  /\ UNCHANGED <<forest, cur, top, origin, rest, history, counts, members, vulnerabilities, byAlias>>

\* The second loop: the group of the next id begins where that of this one ends,
\* and the count of this one becomes the place of its first member.
SumCount ==
  /\ Turn("sum")
  /\ offsets' = [offsets EXCEPT ![sought + 1] = offsets[sought] + counts[sought]]
  /\ counts' = [counts EXCEPT ![sought] = offsets[sought]]
  /\ UNCHANGED <<forest, cur, top, origin, rest, history, roots, members, vulnerabilities, byAlias>>

SumEnd ==
  /\ pc = "sum" /\ sought \notin Id
  /\ members' = [i \in Id |-> 1]
  /\ Begin("fill")
  /\ UNCHANGED <<forest, cur, top, origin, rest, history, counts, roots, offsets, vulnerabilities, byAlias>>

\* The third loop: the id goes to the place of its root, which moves on by step.
PutMember(step) ==
  /\ Turn("fill")
  /\ LET root == parent[sought]
     IN /\ members' = [members EXCEPT ![counts[root] + 1] = sought]
        /\ counts' = [counts EXCEPT ![root] = @ + step]
  /\ UNCHANGED <<forest, cur, top, origin, rest, history, roots, offsets, vulnerabilities, byAlias>>

\* Mutant: the place does not move.
MutantPutInPlace == PutMember(0)

Put == PutMember(1)

\* The members in the slice of a root, and the vulnerabilities with i in theirs.
Slice(root) == {members[p] : p \in (offsets[root] + 1)..offsets[root + 1]}
Holders(i) == {v \in DOMAIN roots : i \in Slice(roots[v])}

\* The last loop: the vulnerabilities in the order of their names, each with its
\* sorted aliases, and the vulnerability of each id: the last that held it, and the
\* first, the value the table was made with, if none did.
Layout ==
  /\ pc = "fill" /\ sought \notin Id
  /\ vulnerabilities' =
       [v \in DOMAIN roots |->
          [id |-> names[roots[v]],
           aliases |-> Sorted({names[i] : i \in Slice(roots[v]) \ {roots[v]}})]]
  /\ byAlias' =
       [i \in Id |-> CHOOSE v \in Holders(i) \cup {1} : \A w \in Holders(i) : w <= v]
  /\ pc' = "done"
  /\ UNCHANGED <<forest, sought, cur, top, origin, rest, history, tables>>

\* finishAliases after its first loop.
Arrange == SortRoots \/ SumCount \/ SumEnd \/ Put \/ Layout

Stopped == pc = "done" /\ UNCHANGED vars

Next ==
  \/ \E n \in Name, k \in 0..(MaxAliases - 1) :
       \E request \in [1..k -> Name] : Union(n, request)
  \/ NextAlias \/ UnionEnd \/ Halve \/ FoundFirst \/ Link
  \/ Finish \/ Flattened \/ Arrange
  \/ Stopped

Spec == Init /\ [][Next]_vars

\* The calls of union end when the projection of the batch does; the loops
\* inside union and finishAliases run on, as the goroutine does.
FairSpec ==
  /\ Spec
  /\ WF_vars(NextAlias \/ UnionEnd \/ Halve \/ FoundFirst \/ Link \/ Flattened \/ Arrange)

(***************************************************************************)
(* Properties                                                              *)
(***************************************************************************)
\* The forest is one node per name seen, the parents and every id in flight are
\* ids, no name is interned twice (internAlias, store.go:53-63), and the tables of
\* finishAliases have a place for every id.
TypeOK ==
  /\ names \in Seq(Name) /\ Len(parent) = Len(names)
  /\ \A i, j \in Id : names[i] = names[j] => i = j
  /\ \A i \in Id : parent[i] \in Id
  /\ pc \in {"idle", "first", "next", "linked", "flatten", "sort", "sum", "fill", "done"}
  /\ pc \in {"first", "next", "flatten"} => sought \in Id /\ cur \in Id
  /\ pc \in {"first", "next", "linked"} => origin \in Id /\ rest \in Seq(Name)
  /\ pc \in {"next", "linked"} => top \in Roots
  /\ pc \in {"flatten", "sort", "sum", "fill"} => counts \in [Id -> Nat]
  /\ pc \in {"flatten", "sort"} => roots \in Seq(Id)
  /\ pc \in {"sum", "fill"} => offsets \in [1..(Len(names) + 1) -> Nat]
  /\ pc = "fill" => members \in [Id -> Id]
  /\ asked \subseteq Id \X Id
  /\ requests \in 0..MaxRequests

\* A parent is preferred to its children in every state, in the middle of a
\* halving walk as well: the forest has no cycle and the root of a group is the
\* name that the report gives to it (store.go:64-90).
ParentPreferred ==
  \A i \in Id : parent[i] = i \/ Preferred(names[parent[i]], names[i])

\* A set of ids that holds both or neither of the ends of every edge.
ClosedUnder(edges, S) == \A e \in edges : e[1] \in S <=> e[2] \in S
Edges == {<<i, parent[i]>> : i \in Id}

\* The trees of the forest are exactly the components of what union was asked to
\* join: halving, linking and flattening neither split a group nor merge two.
GroupsMatchRequests ==
  \A S \in SUBSET Id : ClosedUnder(Edges, S) <=> ClosedUnder(asked, S)

\* The groups that the requests define, by their names, and their canonical form.
Component(i) ==
  {j \in Id : \A S \in SUBSET Id : ClosedUnder(asked, S) => (i \in S => j \in S)}
BestOf(group) == CHOOSE i \in group : \A j \in group \ {i} : Preferred(names[i], names[j])

\* The vulnerabilities of the report are a function of what was asked, not of
\* the order it was asked in: one per component, under its preferred name,
\* ordered by that name, with the other names sorted; and each alias leads to
\* the vulnerability of its own component (finishAliases, store.go:290-343).
ReportIsCanonical ==
  pc = "done" =>
    LET components == {Component(i) : i \in Id}
        ids == Sorted({names[BestOf(g)] : g \in components})
    IN /\ [v \in DOMAIN vulnerabilities |-> vulnerabilities[v].id] = ids
       /\ \A g \in components :
            \E v \in DOMAIN vulnerabilities :
              /\ vulnerabilities[v].id = names[BestOf(g)]
              /\ vulnerabilities[v].aliases = Sorted({names[i] : i \in g \ {BestOf(g)}})
              /\ \A i \in g : byAlias[i] = v

\* The forest is an index of a partition that only grows by new names and by
\* merging the groups of two names of a request.
RootOf(i) ==
  LET up[j \in Id] == IF parent[j] = j THEN j ELSE up[parent[j]] IN up[i]

Partition ==
  INSTANCE AliasPartition WITH
    groups <- {{names[j] : j \in {k \in Id : RootOf(k) = r}} : r \in Roots}

ImplementsPartition == Partition!Spec

\* Every call of union, and finishAliases, gets out of its loops: a walk along
\* parents that change under it ends (root, store.go:64-71).
UnionReturns == pc # "idle" ~> pc \in {"idle", "done"}
=============================================================================
