-------------------------- MODULE AliasGroupsProofs --------------------------
(***************************************************************************)
(* Theorems about the union-find of AliasGroups, for every set of names    *)
(* and any number of requests: its types, the order of its forest, that    *)
(* its trees are the groups that were asked for, that it keeps a partition *)
(* of the names, and that the report depends on nothing else.              *)
(*                                                                         *)
(* That the trees are the groups is proved for one set of ids at a time:   *)
(* Groups(S) relates what the forest, the requests and the walk in         *)
(* progress say of S, and is preserved without a look at any other set.    *)
(***************************************************************************)
EXTENDS AliasGroups, SequenceTheorems, FiniteSetTheorems, FunctionTheorems,
        WellFoundedInduction, TLAPS

\* preferred is a strict total order of names.
LEMMA PreferredOrder ==
  /\ \A a \in Name : ~Preferred(a, a)
  /\ \A a, b \in Name : a # b => Preferred(a, b) \/ Preferred(b, a)
  /\ \A a, b, c \in Name : Preferred(a, b) /\ Preferred(b, c) => Preferred(a, c)
BY AliasAssumption DEF Preferred

(***************************************************************************)
(* Types                                                                   *)
(***************************************************************************)
Walking == pc \in {"first", "next", "flatten"}

TypeInv ==
  /\ TypeOK
  /\ parent \in Seq(Nat)
  /\ sought \in Nat /\ cur \in Nat
  /\ pc = "first" => origin = sought

LEMMA TypeInit == Init => TypeInv
BY AliasAssumption, EmptySeq DEF Init, TypeInv, TypeOK, Id, Roots

\* The counting sort leaves the forest and what was asked as they are.
LEMMA ArrangeKeeps ==
  ASSUME Arrange
  PROVE  /\ UNCHANGED <<names, parent, cur, top, origin, rest, asked, requests>>
         /\ pc \in {"sort", "sum", "fill"} /\ pc' \in {"sum", "fill", "done"}
BY DEF Arrange, SortRoots, SumCount, SumEnd, Put, PutMember, Layout, Begin, Turn, forest, history

\* Interning a name keeps the forest and gives a node of it.
LEMMA InternTypes ==
  ASSUME TypeInv, NEW n \in Name, Intern(n)
  PROVE  /\ names' \in Seq(Name) /\ parent' \in Seq(Nat) /\ Len(parent') = Len(names')
         /\ Id \subseteq Id' /\ \A i \in Id : names'[i] = names[i] /\ parent'[i] = parent[i]
         /\ \A i \in Id' \ Id : parent'[i] = i /\ i = sought' /\ \A j \in Id : names[j] # names'[i]
         /\ sought' \in Id' /\ cur' = sought' /\ sought' \in Nat
<1>1. names \in Seq(Name) /\ parent \in Seq(Nat) /\ Len(parent) = Len(names) /\ Id = 1..Len(names)
      /\ Len(names) \in Nat
  BY DEF TypeInv, TypeOK, Id
<1>2. CASE /\ \E id \in Id : names[id] = n /\ sought' = id
           /\ UNCHANGED forest
  BY <1>1, <1>2 DEF Intern, forest, Id
<1>3. CASE /\ \A id \in Id : names[id] # n
           /\ sought' = Len(names) + 1
           /\ names' = Append(names, n) /\ parent' = Append(parent, sought')
  <2>1. names' \in Seq(Name) /\ Len(names') = Len(names) + 1 /\ names'[Len(names) + 1] = n
        /\ \A i \in 1..Len(names) : names'[i] = names[i]
    BY <1>1, <1>3, AppendProperties
  <2>2. sought' \in Nat /\ parent' \in Seq(Nat) /\ Len(parent') = Len(parent) + 1
        /\ parent'[Len(parent) + 1] = sought'
        /\ \A i \in 1..Len(parent) : parent'[i] = parent[i]
    BY <1>1, <1>3, AppendProperties
  <2>3. Id' = 1..(Len(names) + 1)
    BY <2>1 DEF Id
  <2> QED BY <1>1, <1>3, <2>1, <2>2, <2>3 DEF Intern
<1> QED BY <1>2, <1>3 DEF Intern

\* So it keeps what TypeOK says of the forest.
LEMMA InternForest ==
  ASSUME TypeInv, NEW n \in Name, Intern(n)
  PROVE  /\ \A i, j \in Id' : names'[i] = names'[j] => i = j
         /\ \A i \in Id' : parent'[i] \in Id'
         /\ Roots \subseteq Roots'
         /\ asked \subseteq Id' \X Id'
<1>1. /\ \A i, j \in Id : names[i] = names[j] => i = j
      /\ \A i \in Id : parent[i] \in Id
      /\ asked \subseteq Id \X Id
  BY DEF TypeInv, TypeOK
<1> QED BY <1>1, InternTypes DEF Roots

\* A new parent for a node that is an id keeps the forest.
LEMMA ReparentTypes ==
  ASSUME TypeInv, NEW i \in Id, NEW p \in Id, parent' = [parent EXCEPT ![i] = p], names' = names
  PROVE  /\ parent' \in Seq(Nat) /\ Len(parent') = Len(names')
         /\ Id' = Id
         /\ \A j \in Id : parent'[j] = (IF j = i THEN p ELSE parent[j])
         /\ \A j \in Id : parent'[j] \in Id
<1>1. parent \in Seq(Nat) /\ Len(parent) = Len(names) /\ Id = 1..Len(names) /\ Len(names) \in Nat
      /\ \A j \in Id : parent[j] \in Id
  BY DEF TypeInv, TypeOK, Id
<1>2. parent' \in Seq(Nat) /\ Len(parent') = Len(parent)
      /\ \A j \in 1..Len(parent) : parent'[j] = (IF j = i THEN p ELSE parent[j])
  BY <1>1, ExceptSeq
<1>3. Id' = Id
  BY DEF Id
<1> QED BY <1>1, <1>2, <1>3

LEMMA TypeStep == TypeInv /\ [Next]_vars => TypeInv'
<1> SUFFICES ASSUME TypeInv, [Next]_vars PROVE TypeInv'
  OBVIOUS
<1>1. /\ names \in Seq(Name) /\ parent \in Seq(Nat) /\ Len(parent) = Len(names)
      /\ \A i, j \in Id : names[i] = names[j] => i = j
      /\ \A i \in Id : parent[i] \in Id
      /\ asked \subseteq Id \X Id /\ requests \in 0..MaxRequests
      /\ sought \in Nat /\ cur \in Nat
      /\ Id = 1..Len(names) /\ Len(names) \in Nat
  BY DEF TypeInv, TypeOK, Id
<1>2. ASSUME NEW n \in Name, NEW k \in 0..(MaxAliases - 1), NEW request \in [1..k -> Name],
             Union(n, request)
      PROVE TypeInv'
  <2>1. Intern(n) /\ pc' = "first" /\ origin' = sought' /\ rest' = request
        /\ requests' = requests + 1 /\ requests < MaxRequests /\ UNCHANGED asked
    BY <1>2 DEF Union, out
  <2>2. request \in Seq(Name)
    BY AliasAssumption, IsASeq
  <2>3. requests' \in 0..MaxRequests
    BY <1>1, <2>1, AliasAssumption
  <2> QED BY <2>1, <2>2, <2>3, InternTypes, InternForest DEF TypeInv, TypeOK
<1>3. CASE NextAlias
  <2>1. pc = "linked" /\ rest # << >> /\ Intern(Head(rest)) /\ rest' = Tail(rest) /\ pc' = "next"
        /\ UNCHANGED <<top, origin, asked, requests>>
    BY <1>3 DEF NextAlias, history
  <2>2. rest \in Seq(Name) /\ origin \in Id /\ top \in Roots
    BY <2>1 DEF TypeInv, TypeOK
  <2>3. Head(rest) \in Name /\ Tail(rest) \in Seq(Name)
    BY <2>1, <2>2, HeadTailProperties
  <2>4. /\ names' \in Seq(Name) /\ parent' \in Seq(Nat) /\ Len(parent') = Len(names')
        /\ Id \subseteq Id' /\ sought' \in Id' /\ cur' = sought' /\ sought' \in Nat
    BY <2>1, <2>3, InternTypes
  <2>5. /\ \A i, j \in Id' : names'[i] = names'[j] => i = j
        /\ \A i \in Id' : parent'[i] \in Id'
        /\ Roots \subseteq Roots'
        /\ asked' \subseteq Id' \X Id'
    BY <2>1, <2>3, InternForest
  <2>6. rest' \in Seq(Name) /\ origin' \in Id' /\ top' \in Roots' /\ requests' \in 0..MaxRequests
    BY <1>1, <2>1, <2>2, <2>3, <2>4, <2>5
  <2> QED BY <2>1, <2>4, <2>5, <2>6 DEF TypeInv, TypeOK
<1>4. CASE UnionEnd
  BY <1>4 DEF UnionEnd, TypeInv, TypeOK, forest, history, Id, Roots
<1>5. CASE Halve
  <2> DEFINE p == parent[parent[cur]]
  <2>1. cur \in Id /\ p \in Id /\ parent[cur] # cur
    BY <1>1, <1>5 DEF Halve, HalveTo, TypeInv, TypeOK
  <2>2. parent' = [parent EXCEPT ![cur] = p] /\ names' = names /\ cur' = parent'[cur]
        /\ UNCHANGED <<pc, sought, top, origin, rest, asked, requests, counts, roots>>
    BY <1>5 DEF Halve, HalveTo, history, out, tables
  <2> HIDE DEF p
  <2>3. Id' = Id /\ parent' \in Seq(Nat) /\ Len(parent') = Len(names')
        /\ (\A j \in Id : parent'[j] = (IF j = cur THEN p ELSE parent[j]))
        /\ \A j \in Id : parent'[j] \in Id
    BY <2>1, <2>2, ReparentTypes
  <2>4. Roots \subseteq Roots'
    BY <2>1, <2>3 DEF Roots
  <2>5. cur' \in Id /\ cur' \in Nat
    BY <1>1, <2>1, <2>2, <2>3
  <2>6. /\ pc \in {"first", "next", "flatten"} /\ pc' = pc
        /\ (pc = "next" => top \in Roots)
        /\ (pc \in {"first", "next"} => origin \in Id /\ rest \in Seq(Name))
        /\ sought \in Id /\ (pc = "first" => origin = sought)
    BY <1>5 DEF Halve, HalveTo, TypeInv, TypeOK
  <2>7. /\ \A i, j \in Id' : names'[i] = names'[j] => i = j
        /\ asked' \subseteq Id' \X Id' /\ requests' \in 0..MaxRequests
        /\ names' \in Seq(Name) /\ sought' \in Nat
    BY <1>1, <2>2, <2>3
  <2>8. /\ pc' \in {"first", "next", "linked"} => origin' \in Id' /\ rest' \in Seq(Name)
        /\ pc' \in {"next", "linked"} => top' \in Roots'
        /\ sought' \in Id' /\ (pc' = "first" => origin' = sought')
    BY <2>2, <2>3, <2>4, <2>6
  <2>9. pc' = "flatten" => counts' \in [Id' -> Nat] /\ roots' \in Seq(Id')
    BY <2>2, <2>3 DEF TypeInv, TypeOK
  <2> QED BY <2>3, <2>5, <2>6, <2>7, <2>8, <2>9 DEF TypeInv, TypeOK
<1>6. CASE FoundFirst
  <2>1. pc = "first" /\ cur \in Roots /\ top' = cur /\ pc' = "linked"
        /\ UNCHANGED <<names, parent, sought, cur, origin, rest, asked, requests>>
    BY <1>6 DEF FoundFirst, RootFound, TypeInv, TypeOK, forest, history, Roots
  <2>2. Id' = Id /\ Roots' = Roots
    BY <2>1 DEF Id, Roots
  <2> QED BY <1>1, <2>1, <2>2 DEF TypeInv, TypeOK
<1>7. CASE Link
  <2>1. PICK below \in Id, above \in Id :
          /\ LinkRoots(below, above, above)
          /\ parent[above] = above /\ parent[below] = below /\ RootFound("next")
    BY <1>1, <1>7 DEF Link, RootFound, TypeInv, TypeOK, Roots
  <2>2. parent' = [parent EXCEPT ![below] = above] /\ names' = names /\ top' = above
        /\ pc' = "linked" /\ asked' = asked \cup {<<origin, sought>>}
        /\ UNCHANGED <<sought, cur, origin, rest, requests>>
    BY <2>1 DEF LinkRoots
  <2>3. origin \in Id /\ sought \in Id /\ rest \in Seq(Name)
    BY <2>1 DEF RootFound, TypeInv, TypeOK
  <2>4. Id' = Id /\ parent' \in Seq(Nat) /\ Len(parent') = Len(names')
        /\ (\A j \in Id : parent'[j] = (IF j = below THEN above ELSE parent[j]))
        /\ \A j \in Id : parent'[j] \in Id
    BY <2>2, ReparentTypes
  <2>5. top' \in Roots'
    BY <2>1, <2>2, <2>4 DEF Roots
  <2> QED BY SMTT(40), <1>1, <2>2, <2>3, <2>4, <2>5 DEF TypeInv, TypeOK
<1>8. CASE Finish
  <2>1. /\ sought' = 1 /\ cur' = 1 /\ pc' = (IF 1 \in Id THEN "flatten" ELSE "sort")
        /\ UNCHANGED <<names, parent, asked, requests>>
        /\ counts' = [id \in Id |-> 0] /\ roots' = << >>
    BY <1>8 DEF Finish, Flatten, forest, history
  <2>2. Id' = Id /\ roots' \in Seq(Id) /\ counts' \in [Id -> Nat]
    BY <2>1, EmptySeq DEF Id
  <2> QED BY <1>1, <2>1, <2>2 DEF TypeInv, TypeOK
<1>9. CASE Flattened
  <2>1. sought \in Id /\ cur \in Id /\ counts \in [Id -> Nat] /\ roots \in Seq(Id)
    BY <1>9 DEF Flattened, RootFound, TypeInv, TypeOK
  <2>2. /\ parent' = [parent EXCEPT ![sought] = cur] /\ names' = names
        /\ sought' = sought + 1 /\ cur' = sought + 1
        /\ pc' = (IF sought + 1 \in Id THEN "flatten" ELSE "sort")
        /\ UNCHANGED <<asked, requests>>
        /\ roots' = (IF counts[cur] = 0 THEN Append(roots, cur) ELSE roots)
        /\ counts' = [counts EXCEPT ![cur] = @ + 1]
    BY <1>9 DEF Flattened, Flatten, history
  <2>3. Id' = Id /\ parent' \in Seq(Nat) /\ Len(parent') = Len(names')
        /\ \A j \in Id : parent'[j] \in Id
    BY <2>1, <2>2, ReparentTypes
  <2>4. sought + 1 \in Nat
    BY <1>1
  <2>5. counts' \in [Id' -> Nat] /\ roots' \in Seq(Id')
    <3>1. Append(roots, cur) \in Seq(Id)
      BY <2>1, AppendProperties
    <3> QED BY <2>1, <2>2, <2>3, <3>1
  <2>6. CASE sought + 1 \in Id
    BY <1>1, <2>2, <2>3, <2>4, <2>5, <2>6 DEF TypeInv, TypeOK
  <2>7. CASE sought + 1 \notin Id
    BY <1>1, <2>2, <2>3, <2>4, <2>5, <2>7 DEF TypeInv, TypeOK
  <2> QED BY <2>6, <2>7
<1>10. CASE Arrange
  <2>1. /\ UNCHANGED <<names, parent, cur, top, origin, rest, asked, requests>>
        /\ pc \in {"sort", "sum", "fill"} /\ pc' \in {"sum", "fill", "done"}
    BY <1>10, ArrangeKeeps
  <2>2. Id' = Id /\ Roots' = Roots
    BY <2>1 DEF Id, Roots
  <2>3. /\ sought' \in Nat
        /\ pc' \in {"sum", "fill"} =>
             counts' \in [Id -> Nat] /\ offsets' \in [1..(Len(names) + 1) -> Nat]
        /\ pc' = "fill" => members' \in [Id -> Id]
    <3>1. CASE SortRoots
      BY <1>1, <3>1 DEF SortRoots, Begin, TypeInv, TypeOK
    <3>2. CASE SumCount
      <4>1. /\ pc = "sum" /\ sought \in Id /\ sought' = sought + 1 /\ pc' = "sum"
            /\ offsets' = [offsets EXCEPT ![sought + 1] = offsets[sought] + counts[sought]]
            /\ counts' = [counts EXCEPT ![sought] = offsets[sought]]
        BY <3>2 DEF SumCount, Turn
      <4>2. counts \in [Id -> Nat] /\ offsets \in [1..(Len(names) + 1) -> Nat]
        BY <4>1 DEF TypeInv, TypeOK
      <4>3. sought \in 1..(Len(names) + 1) /\ offsets[sought] \in Nat /\ counts[sought] \in Nat
        BY <1>1, <4>1, <4>2
      <4> QED BY <1>1, <4>1, <4>2, <4>3
    <3>3. CASE SumEnd
      <4>1. sought' = 1 /\ pc' = "fill" /\ members' = [i \in Id |-> 1] /\ pc = "sum"
            /\ UNCHANGED <<counts, offsets>>
        BY <3>3 DEF SumEnd, Begin
      <4>2. \A i \in Id : 1 \in Id
        BY <1>1
      <4> QED BY <4>1, <4>2 DEF TypeInv, TypeOK
    <3>4. CASE Put
      <4>1. /\ pc = "fill" /\ sought \in Id /\ sought' = sought + 1 /\ pc' = "fill"
            /\ members' = [members EXCEPT ![counts[parent[sought]] + 1] = sought]
            /\ counts' = [counts EXCEPT ![parent[sought]] = @ + 1] /\ offsets' = offsets
        BY <3>4 DEF Put, PutMember, Turn
      <4>2. counts \in [Id -> Nat] /\ offsets \in [1..(Len(names) + 1) -> Nat] /\ members \in [Id -> Id]
        BY <4>1 DEF TypeInv, TypeOK
      <4>3. parent[sought] \in Id
        BY <1>1, <4>1
      <4>4. members' \in [Id -> Id]
        BY <4>1, <4>2
      <4>5. counts' \in [Id -> Nat]
        BY <4>1, <4>2, <4>3
      <4> QED BY <1>1, <4>1, <4>2, <4>4, <4>5
    <3>5. CASE Layout
      BY <1>1, <3>5 DEF Layout
    <3> QED BY <1>10, <3>1, <3>2, <3>3, <3>4, <3>5 DEF Arrange
  <2> QED BY <1>1, <2>1, <2>2, <2>3 DEF TypeInv, TypeOK
<1>11. CASE UNCHANGED vars
  BY <1>11 DEF vars, forest, walk, history, out, tables, TypeInv, TypeOK, Id, Roots
<1> QED
  BY <1>2, <1>3, <1>4, <1>5, <1>6, <1>7, <1>8, <1>9, <1>10, <1>11 DEF Next, Stopped

\* Ids, names and parents stay in their ranges and no name is interned twice
\* (go/store.go 53 to 90, 290 to 302).
THEOREM TypeCorrect == Spec => []TypeOK
<1>1. TypeInv => TypeOK
  BY DEF TypeInv
<1> QED BY <1>1, TypeInit, TypeStep, PTL DEF Spec

(***************************************************************************)
(* The order of the forest                                                 *)
(***************************************************************************)
\* A parent is preferred to its children, and the node a walk has reached to
\* the one it started from.
Ascending ==
  /\ ParentPreferred
  /\ Walking => cur = sought \/ Preferred(names[cur], names[sought])

\* The flat facts that the steps below start from.
LEMMA ForestTypes ==
  ASSUME TypeInv
  PROVE  /\ \A i \in Id : names[i] \in Name /\ parent[i] \in Id
         /\ \A i, j \in Id : names[i] = names[j] => i = j
         /\ Walking => sought \in Id /\ cur \in Id
BY DEF TypeInv, TypeOK, Id, Walking

\* Interning a name adds at most a root of its own.
LEMMA InternAscends ==
  ASSUME TypeInv, ParentPreferred, NEW n \in Name, Intern(n)
  PROVE  ParentPreferred' /\ cur' = sought'
<1>1. ASSUME NEW i \in Id'
      PROVE  parent'[i] = i \/ Preferred(names'[parent'[i]], names'[i])
  <2>1. CASE i \in Id
    <3>1. parent[i] \in Id
      BY <2>1, ForestTypes
    <3>2. parent'[i] = parent[i] /\ names'[i] = names[i] /\ names'[parent[i]] = names[parent[i]]
      BY <2>1, <3>1, InternTypes
    <3>3. parent[i] = i \/ Preferred(names[parent[i]], names[i])
      BY <2>1 DEF ParentPreferred
    <3> QED BY <3>2, <3>3
  <2>2. CASE i \notin Id
    BY <2>2, InternTypes
  <2> QED BY <2>1, <2>2
<1>2. cur' = sought'
  BY InternTypes
<1> QED BY <1>1, <1>2 DEF ParentPreferred

\* A node may go under any node that is preferred to it.
LEMMA ReparentAscends ==
  ASSUME TypeInv, ParentPreferred, NEW i \in Id, NEW p \in Id,
         p = i \/ Preferred(names[p], names[i]),
         parent' = [parent EXCEPT ![i] = p], names' = names
  PROVE  ParentPreferred'
<1>1. Id' = Id /\ \A j \in Id : parent'[j] = (IF j = i THEN p ELSE parent[j])
  BY ReparentTypes
<1> QED BY <1>1 DEF ParentPreferred

LEMMA AscendingStep == TypeInv /\ Ascending /\ [Next]_vars => Ascending'
<1> SUFFICES ASSUME TypeInv, Ascending, [Next]_vars PROVE Ascending'
  OBVIOUS
<1>1. ParentPreferred /\ (Walking => cur = sought \/ Preferred(names[cur], names[sought]))
  BY DEF Ascending
<1>2. ASSUME NEW n \in Name, NEW k \in 0..(MaxAliases - 1), NEW request \in [1..k -> Name],
             Union(n, request)
      PROVE Ascending'
  <2>1. Intern(n)
    BY <1>2 DEF Union
  <2> QED BY <1>1, <2>1, InternAscends DEF Ascending
<1>3. CASE NextAlias
  <2>1. pc = "linked" /\ rest # << >> /\ Intern(Head(rest))
    BY <1>3 DEF NextAlias
  <2>2. rest \in Seq(Name)
    BY <2>1 DEF TypeInv, TypeOK
  <2>3. Head(rest) \in Name
    BY <2>1, <2>2, HeadTailProperties
  <2> QED BY <1>1, <2>1, <2>3, InternAscends DEF Ascending
<1>4. CASE UnionEnd
  BY <1>1, <1>4 DEF UnionEnd, Ascending, ParentPreferred, Walking, forest, Id
<1>5. CASE Halve
  <2> DEFINE up == parent[cur]
             p == parent[up]
  <2>1. Walking /\ cur \in Id /\ up \in Id /\ p \in Id /\ sought \in Id /\ up # cur
    BY <1>5, ForestTypes DEF Halve, HalveTo, Walking
  <2>2. parent' = [parent EXCEPT ![cur] = p] /\ names' = names /\ cur' = parent'[cur]
        /\ UNCHANGED <<pc, sought>>
    BY <1>5 DEF Halve, HalveTo
  <2>3. Preferred(names[up], names[cur]) /\ (p = up \/ Preferred(names[p], names[up]))
    BY <1>1, <2>1 DEF ParentPreferred
  <2>4. names[p] \in Name /\ names[up] \in Name /\ names[cur] \in Name /\ names[sought] \in Name
    BY <2>1, ForestTypes
  <2> HIDE DEF p, up
  <2>5. Preferred(names[p], names[cur])
    BY <2>3, <2>4, PreferredOrder
  <2>6. Preferred(names[p], names[sought])
    BY <1>1, <2>1, <2>4, <2>5, PreferredOrder
  <2>7. cur' = p
    <3>1. \A j \in Id : parent'[j] = (IF j = cur THEN p ELSE parent[j])
      BY <2>1, <2>2, ReparentTypes
    <3> QED BY <2>1, <2>2, <3>1
  <2>8. ParentPreferred'
    BY <1>1, <2>1, <2>2, <2>5, ReparentAscends
  <2> QED BY <2>2, <2>6, <2>7, <2>8 DEF Ascending
<1>6. CASE FoundFirst
  BY <1>1, <1>6 DEF FoundFirst, Ascending, ParentPreferred, Walking, forest, Id
<1>7. CASE Link
  <2>1. cur \in Id /\ top \in Id /\ parent[cur] = cur /\ parent[top] = top
    BY <1>7 DEF Link, RootFound, TypeInv, TypeOK, Roots
  <2>2. names[cur] \in Name /\ names[top] \in Name
    BY <2>1, ForestTypes
  <2>3. names' = names /\ pc' = "linked"
    BY <1>7 DEF Link, LinkRoots
  <2>4. ASSUME NEW below \in Id, NEW above \in Id,
               below = above \/ Preferred(names[above], names[below]),
               parent' = [parent EXCEPT ![below] = above]
        PROVE  Ascending'
    <3>1. ParentPreferred'
      BY <1>1, <2>3, <2>4, ReparentAscends
    <3> QED BY <2>3, <3>1 DEF Ascending, Walking
  <2>5. CASE Preferred(names[cur], names[top])
    BY <1>7, <2>1, <2>4, <2>5 DEF Link, LinkRoots
  <2>6. CASE ~Preferred(names[cur], names[top])
    <3>1. cur = top \/ Preferred(names[top], names[cur])
      BY <2>1, <2>2, <2>6, PreferredOrder, ForestTypes
    <3> QED BY <1>7, <2>1, <2>4, <2>6, <3>1 DEF Link, LinkRoots
  <2> QED BY <2>5, <2>6
<1>8. CASE Finish
  BY <1>1, <1>8 DEF Finish, Flatten, Ascending, ParentPreferred, Walking, forest, Id
<1>9. CASE Flattened
  <2>1. Walking /\ sought \in Id /\ cur \in Id
    BY <1>9, ForestTypes DEF Flattened, RootFound, Walking
  <2>2. parent' = [parent EXCEPT ![sought] = cur] /\ names' = names /\ sought' = cur'
    BY <1>9 DEF Flattened, Flatten
  <2>3. ParentPreferred'
    BY <1>1, <2>1, <2>2, ReparentAscends
  <2> QED BY <2>2, <2>3 DEF Ascending
<1>10. CASE Arrange
  BY <1>1, <1>10, ArrangeKeeps DEF Ascending, ParentPreferred, Walking, Id
<1>11. CASE UNCHANGED vars
  BY <1>1, <1>11 DEF vars, forest, walk, Ascending, ParentPreferred, Walking, Id
<1> QED
  BY <1>2, <1>3, <1>4, <1>5, <1>6, <1>7, <1>8, <1>9, <1>10, <1>11 DEF Next, Stopped

\* A parent is preferred to its children in every reachable state (go/store.go
\* 64 to 90): the forest has no cycle, and a group is named by the best of it.
THEOREM ParentsPreferred == Spec => []ParentPreferred
<1>1. Init => Ascending
  BY DEF Init, Ascending, ParentPreferred, Walking, Id
<1>2. Ascending => ParentPreferred
  BY DEF Ascending
<1> QED BY <1>1, <1>2, TypeInit, TypeStep, AscendingStep, PTL DEF Spec

(***************************************************************************)
(* The groups                                                              *)
(***************************************************************************)
\* The edge of i does not leave S, and no edge does.
Keeps(S, i) == i \in S <=> parent[i] \in S
Respects(S) == \A i \in Id : Keeps(S, i)

\* What the forest, the requests and the walk in progress say of one set of ids:
\* the forest respects the sets that the requests do, a walk has not left the
\* tree it started in, top is the root of the request's first name, and, for
\* flattening, an edge that is about to be overwritten says nothing that the
\* rest of the walk does not say.
Groups(S) ==
  /\ Respects(S) <=> ClosedUnder(asked, S)
  /\ Walking /\ Respects(S) => (sought \in S <=> cur \in S)
  /\ pc \in {"next", "linked"} /\ Respects(S) => (origin \in S <=> top \in S)
  /\ /\ pc = "flatten" /\ cur # sought
     /\ \A i \in Id : i # sought => Keeps(S, i)
     => (parent[sought] \in S <=> cur \in S)

LEMMA RespectsEdges == ASSUME NEW S PROVE ClosedUnder(Edges, S) <=> Respects(S)
<1>1. ASSUME ClosedUnder(Edges, S), NEW i \in Id PROVE Keeps(S, i)
  <2>1. <<i, parent[i]>> \in Edges
    BY DEF Edges
  <2>2. <<i, parent[i]>>[1] \in S <=> <<i, parent[i]>>[2] \in S
    BY <1>1, <2>1 DEF ClosedUnder
  <2> QED BY <2>2 DEF Keeps
<1>2. ASSUME Respects(S), NEW e \in Edges PROVE e[1] \in S <=> e[2] \in S
  BY <1>2 DEF Edges, Respects, Keeps
<1> QED BY <1>1, <1>2 DEF ClosedUnder, Respects

\* A new name is its own parent.
LEMMA InternRespects ==
  ASSUME TypeInv, NEW n \in Name, Intern(n), NEW S
  PROVE  Respects(S)' <=> Respects(S)
<1>1. \A i \in Id : i \in Id' /\ parent'[i] = parent[i]
  BY InternTypes
<1>2. \A i \in Id' \ Id : parent'[i] = i
  BY InternTypes
<1> QED BY <1>1, <1>2 DEF Respects, Keeps

\* A new parent concerns the edge of its node and no other.
LEMMA ReparentRespects ==
  ASSUME TypeInv, NEW i \in Id, NEW p \in Id, parent' = [parent EXCEPT ![i] = p], names' = names,
         NEW S
  PROVE  Respects(S)' <=> (i \in S <=> p \in S) /\ \A j \in Id : j # i => Keeps(S, j)
<1>1. Id' = Id /\ \A j \in Id : parent'[j] = (IF j = i THEN p ELSE parent[j])
  BY ReparentTypes
<1> QED BY <1>1 DEF Respects, Keeps

\* A turn of root's loop: the grandparent is on the side of the parent.
LEMMA HalveGroups ==
  ASSUME TypeInv, Ascending, NEW S, Groups(S), Halve
  PROVE  Groups(S)'
<1> DEFINE up == parent[cur]
           p == parent[up]
<1>1. Walking /\ cur \in Id /\ up \in Id /\ p \in Id /\ sought \in Id /\ up # cur
  BY ForestTypes DEF Halve, HalveTo, Walking
<1>2. parent' = [parent EXCEPT ![cur] = p] /\ names' = names /\ cur' = parent'[cur]
      /\ UNCHANGED <<pc, sought, top, origin, asked>>
  BY DEF Halve, HalveTo, history
<1>3. Keeps(S, cur) <=> (cur \in S <=> up \in S)
  BY DEF Keeps
<1>4. Keeps(S, up) <=> (up \in S <=> p \in S)
  BY DEF Keeps
<1>5. cur # sought => up # sought
  <2>1. Preferred(names[up], names[cur])
    BY <1>1 DEF Ascending, ParentPreferred
  <2>2. cur # sought => Preferred(names[cur], names[sought])
    BY <1>1 DEF Ascending
  <2>3. names[up] \in Name /\ names[cur] \in Name /\ names[sought] \in Name
    BY <1>1, ForestTypes
  <2> HIDE DEF up, p
  <2> QED BY <2>1, <2>2, <2>3, PreferredOrder
<1> HIDE DEF up, p
<1>6. Id' = Id /\ \A j \in Id : parent'[j] = (IF j = cur THEN p ELSE parent[j])
  BY <1>1, <1>2, ReparentTypes
<1>7. Respects(S)' <=> Respects(S)
  <2>1. Respects(S)' <=> (cur \in S <=> p \in S) /\ \A j \in Id : j # cur => Keeps(S, j)
    BY <1>1, <1>2, ReparentRespects
  <2> QED BY <1>1, <1>3, <1>4, <2>1 DEF Respects
<1>8. cur' = p
  BY <1>1, <1>2, <1>6
<1>9. Respects(S) => (cur \in S <=> p \in S)
  BY <1>1, <1>3, <1>4 DEF Respects
<1>10. Respects(S)' <=> ClosedUnder(asked, S)'
  BY <1>2, <1>7 DEF Groups, ClosedUnder
<1>11. Walking' /\ Respects(S)' => (sought' \in S <=> cur' \in S)
  BY <1>1, <1>2, <1>7, <1>8, <1>9 DEF Groups
<1>12. pc' \in {"next", "linked"} /\ Respects(S)' => (origin' \in S <=> top' \in S)
  BY <1>2, <1>7 DEF Groups
<1>13. ASSUME pc' = "flatten", cur' # sought', \A i \in Id' : i # sought' => Keeps(S, i)'
       PROVE  parent'[sought'] \in S <=> cur' \in S
  <2>1. CASE cur = sought
    BY <1>2, <1>6, <1>8, <2>1
  <2>2. CASE cur # sought
    <3>1. \A i \in Id : i # sought => (i \in S <=> (IF i = cur THEN p ELSE parent[i]) \in S)
      BY <1>2, <1>6, <1>13 DEF Keeps
    <3>2. (cur \in S <=> p \in S) /\ (up \in S <=> parent[up] \in S)
      BY <1>1, <1>5, <2>2, <3>1
    <3>3. \A i \in Id : i # sought => Keeps(S, i)
      BY <1>3, <3>1, <3>2 DEF Keeps, p
    <3>4. parent[sought] \in S <=> cur \in S
      BY <1>2, <1>13, <2>2, <3>3 DEF Groups
    <3> QED BY <1>1, <1>2, <1>6, <1>8, <2>2, <3>4, <3>2
  <2> QED BY <2>1, <2>2
<1> QED BY <1>10, <1>11, <1>12, <1>13 DEF Groups

\* Linking two roots joins what the request joins.
LEMMA LinkGroups ==
  ASSUME TypeInv, NEW S, Groups(S), Link
  PROVE  Groups(S)'
<1>1. cur \in Id /\ top \in Id /\ parent[cur] = cur /\ parent[top] = top /\ pc = "next"
  BY DEF Link, RootFound, TypeInv, TypeOK, Roots
<1>2. names' = names /\ pc' = "linked" /\ asked' = asked \cup {<<origin, sought>>}
      /\ UNCHANGED <<sought, cur, origin>>
  BY DEF Link, LinkRoots
<1>3. PICK below \in {cur, top}, above \in {cur, top} :
        /\ parent' = [parent EXCEPT ![below] = above] /\ top' = above
        /\ {below, above} = {cur, top}
  BY DEF Link, LinkRoots
<1>4. below \in Id /\ above \in Id /\ parent[below] = below
      /\ ((below \in S <=> above \in S) <=> (cur \in S <=> top \in S))
      /\ (above = cur \/ above = top)
  BY <1>1, <1>3
<1>5. Respects(S)' <=> (below \in S <=> above \in S) /\ \A j \in Id : j # below => Keeps(S, j)
  BY <1>2, <1>3, <1>4, ReparentRespects
<1>6. Keeps(S, below)
  BY <1>4 DEF Keeps
<1>7. Respects(S)' <=> Respects(S) /\ (cur \in S <=> top \in S)
  BY <1>4, <1>5, <1>6 DEF Respects
<1>8. ClosedUnder(asked, S)' <=> ClosedUnder(asked, S) /\ (origin \in S <=> sought \in S)
  <2> DEFINE new == <<origin, sought>>
  <2>1. new[1] = origin /\ new[2] = sought
    OBVIOUS
  <2>2. \A e \in asked' : e \in asked \/ e = new
    BY <1>2
  <2>3. new \in asked' /\ \A e \in asked : e \in asked'
    BY <1>2
  <2> HIDE DEF new
  <2> QED BY <2>1, <2>2, <2>3 DEF ClosedUnder
<1>9. Respects(S) => (sought \in S <=> cur \in S) /\ (origin \in S <=> top \in S)
  BY <1>1 DEF Groups, Walking
<1>10. Respects(S)' <=> ClosedUnder(asked, S)'
  BY <1>7, <1>8, <1>9 DEF Groups
<1>11. Respects(S)' => (origin' \in S <=> top' \in S)
  BY <1>2, <1>3, <1>4, <1>7, <1>9
<1> QED BY <1>2, <1>10, <1>11 DEF Groups, Walking

\* Putting an id right under its root keeps its tree.
LEMMA FlattenedGroups ==
  ASSUME TypeInv, NEW S, Groups(S), Flattened
  PROVE  Groups(S)'
<1>1. Walking /\ sought \in Id /\ cur \in Id /\ parent[cur] = cur /\ pc = "flatten"
  BY ForestTypes DEF Flattened, RootFound, Walking
<1>2. parent' = [parent EXCEPT ![sought] = cur] /\ names' = names /\ sought' = cur'
      /\ pc' \in {"flatten", "sort"} /\ UNCHANGED asked
  BY DEF Flattened, Flatten, history
<1>3. Respects(S)' <=> (sought \in S <=> cur \in S) /\ \A j \in Id : j # sought => Keeps(S, j)
  BY <1>1, <1>2, ReparentRespects
<1>4. Keeps(S, sought) <=> (sought \in S <=> parent[sought] \in S)
  BY DEF Keeps
<1>5. ASSUME Respects(S) PROVE Respects(S)'
  <2>1. sought \in S <=> cur \in S
    BY <1>1, <1>5 DEF Groups
  <2> QED BY <1>3, <1>5, <2>1 DEF Respects
<1>6. ASSUME Respects(S)' PROVE Respects(S)
  <2>1. \A i \in Id : i # sought => Keeps(S, i)
    BY <1>3, <1>6
  <2>2. sought \in S <=> cur \in S
    BY <1>3, <1>6
  <2>3. parent[sought] \in S <=> cur \in S
    BY <1>1, <2>1, <2>2 DEF Groups
  <2> QED BY <1>4, <2>1, <2>2, <2>3 DEF Respects
<1>7. Respects(S)' <=> ClosedUnder(asked, S)'
  BY <1>2, <1>5, <1>6 DEF Groups, ClosedUnder
<1> QED BY <1>2, <1>7 DEF Groups

LEMMA GroupsStep ==
  ASSUME NEW S
  PROVE  TypeInv /\ Ascending /\ Groups(S) /\ [Next]_vars => Groups(S)'
<1> SUFFICES ASSUME TypeInv, Ascending, Groups(S), [Next]_vars PROVE Groups(S)'
  OBVIOUS
<1>1. ASSUME NEW n \in Name, NEW k \in 0..(MaxAliases - 1), NEW request \in [1..k -> Name],
             Union(n, request)
      PROVE Groups(S)'
  <2>1. Intern(n) /\ pc' = "first" /\ asked' = asked /\ cur' = sought'
    BY <1>1 DEF Union, Intern
  <2>2. Respects(S)' <=> Respects(S)
    BY <2>1, InternRespects
  <2> QED BY <2>1, <2>2 DEF Groups, ClosedUnder
<1>2. CASE NextAlias
  <2>1. pc = "linked" /\ rest # << >> /\ Intern(Head(rest)) /\ cur' = sought' /\ pc' = "next"
        /\ UNCHANGED <<top, origin, asked>>
    BY <1>2 DEF NextAlias, Intern, history
  <2>2. Head(rest) \in Name
    <3>1. rest \in Seq(Name)
      BY <2>1 DEF TypeInv, TypeOK
    <3> QED BY <2>1, <3>1, HeadTailProperties
  <2>3. Respects(S)' <=> Respects(S)
    BY <2>1, <2>2, InternRespects
  <2> QED BY <2>1, <2>3 DEF Groups, ClosedUnder
<1>3. CASE UnionEnd
  <2>1. pc' = "idle" /\ UNCHANGED <<names, parent, asked>>
    BY <1>3 DEF UnionEnd, forest, history
  <2>2. Respects(S)' <=> Respects(S)
    BY <2>1 DEF Respects, Keeps, Id
  <2> QED BY <2>1, <2>2 DEF Groups, ClosedUnder, Walking
<1>4. CASE Halve
  BY <1>4, HalveGroups
<1>5. CASE FoundFirst
  <2>1. pc = "first" /\ top' = cur /\ pc' = "linked" /\ UNCHANGED <<names, parent, origin, asked>>
    BY <1>5 DEF FoundFirst, RootFound, forest, history
  <2>2. Respects(S)' <=> Respects(S)
    BY <2>1 DEF Respects, Keeps, Id
  <2>3. origin = sought
    BY <2>1 DEF TypeInv
  <2>4. Respects(S) => (origin \in S <=> cur \in S)
    BY <2>1, <2>3 DEF Groups, Walking
  <2> QED BY <2>1, <2>2, <2>4 DEF Groups, ClosedUnder, Walking
<1>6. CASE Link
  BY <1>6, LinkGroups
<1>7. CASE Finish
  <2>1. pc' \in {"flatten", "sort"} /\ cur' = sought' /\ UNCHANGED <<names, parent, asked>>
    BY <1>7 DEF Finish, Flatten, forest, history
  <2>2. Respects(S)' <=> Respects(S)
    BY <2>1 DEF Respects, Keeps, Id
  <2> QED BY <2>1, <2>2 DEF Groups, ClosedUnder
<1>8. CASE Flattened
  BY <1>8, FlattenedGroups
<1>9. CASE Arrange
  <2>1. pc' \in {"sum", "fill", "done"} /\ UNCHANGED <<names, parent, asked>>
    BY <1>9, ArrangeKeeps
  <2>2. Respects(S)' <=> Respects(S)
    BY <2>1 DEF Respects, Keeps, Id
  <2> QED BY <2>1, <2>2 DEF Groups, ClosedUnder, Walking
<1>10. CASE UNCHANGED vars
  <2>1. UNCHANGED <<names, parent, pc, sought, cur, top, origin, asked>>
    BY <1>10 DEF vars, forest, walk, history
  <2> QED BY <2>1 DEF Groups, ClosedUnder, Walking, Respects, Keeps, Id
<1> QED
  BY <1>1, <1>2, <1>3, <1>4, <1>5, <1>6, <1>7, <1>8, <1>9, <1>10 DEF Next, Stopped

\* The trees of the forest are the components of what union was asked to join,
\* in every reachable state (go/store.go 64 to 90, 290 to 302): neither halving
\* nor linking nor flattening splits a group or merges two.
THEOREM GroupsCorrect == Spec => []GroupsMatchRequests
<1> DEFINE GroupsInv == \A S : Groups(S)
<1>1. Init => GroupsInv
  BY DEF Init, Groups, Respects, ClosedUnder, Walking, Id
<1>2. TypeInv /\ Ascending /\ GroupsInv /\ [Next]_vars => GroupsInv'
  BY GroupsStep
<1>3. GroupsInv => GroupsMatchRequests
  <2>1. ASSUME NEW S, Groups(S) PROVE ClosedUnder(Edges, S) <=> ClosedUnder(asked, S)
    BY <2>1, RespectsEdges DEF Groups
  <2> QED BY <2>1 DEF GroupsMatchRequests
<1>4. Init => Ascending
  BY DEF Init, Ascending, ParentPreferred, Walking, Id
<1> QED BY <1>1, <1>2, <1>3, <1>4, TypeInit, TypeStep, AscendingStep, PTL DEF Spec

(***************************************************************************)
(* The roots                                                               *)
(*                                                                         *)
(* RootOf climbs from parent to parent; the lemmas below say where it gets *)
(* to without climbing.  The tree of r is the set of the ids from which r  *)
(* is reached, and reaching says that r is in every set of ids that holds  *)
(* the first id and the parents of all that it holds.                      *)
(***************************************************************************)
Climbs(T) == \A i \in T : parent[i] \in T
Reaches(k, r) == \A T \in SUBSET Id : k \in T /\ Climbs(T) => r \in T

\* Every set of numbers that is not empty has a least one.
LEMMA LeastNumber ==
  ASSUME NEW S \in SUBSET Nat, S # {} PROVE \E x \in S : \A y \in S : x <= y
<1>1. IsWellFoundedOn(OpToRel(<, Nat), Nat)
  BY NatLessThanWellFounded
<1>2. PICK x \in S : \A y \in S : ~(<<y, x>> \in OpToRel(<, Nat))
  BY <1>1, WFMin
<1>3. \A y \in S : ~(y < x)
  BY <1>2 DEF OpToRel
<1> QED BY <1>3

\* Every set of ids that is not empty has one that no other is preferred to.
LEMMA BestId ==
  ASSUME TypeInv, NEW B \in SUBSET Id, B # {}
  PROVE  \E b \in B : \A c \in B : ~Preferred(names[c], names[b])
<1>1. \A i \in Id : names[i] \in Name
  BY ForestTypes
<1>2. ASSUME NEW C \in SUBSET B, C # {}
      PROVE  \E b \in C : \A c \in C : names[b] <= names[c]
  <2> DEFINE N == {names[c] : c \in C}
  <2>1. N \in SUBSET Nat /\ N # {}
    BY <1>1, <1>2, AliasAssumption
  <2>2. PICK x \in N : \A y \in N : x <= y
    BY <2>1, LeastNumber
  <2> QED BY <2>2
<1>3. CASE \E b \in B : names[b] \in CVE
  <2>1. PICK b \in {c \in B : names[c] \in CVE} :
               \A c \in {c \in B : names[c] \in CVE} : names[b] <= names[c]
    BY <1>2, <1>3
  <2>2. ASSUME NEW c \in B PROVE ~Preferred(names[c], names[b])
    <3>1. names[b] \in Nat /\ names[c] \in Nat /\ names[b] \in CVE
          /\ (names[c] \in CVE => names[b] <= names[c])
      BY <1>1, <2>1, AliasAssumption
    <3> QED BY <3>1 DEF Preferred
  <2> QED BY <2>1, <2>2
<1>4. CASE \A b \in B : names[b] \notin CVE
  <2>1. PICK b \in B : \A c \in B : names[b] <= names[c]
    BY <1>2
  <2>2. ASSUME NEW c \in B PROVE ~Preferred(names[c], names[b])
    <3>1. names[b] \in Nat /\ names[c] \in Nat /\ names[b] <= names[c]
          /\ names[c] \notin CVE /\ names[b] \notin CVE
      BY <1>1, <1>4, <2>1, AliasAssumption
    <3> QED BY <3>1 DEF Preferred
  <2> QED BY <2>1, <2>2
<1> QED BY <1>3, <1>4

\* The ids that reach a root keep to their tree.
LEMMA TreeRespects ==
  ASSUME TypeInv, NEW r \in Roots
  PROVE  Respects({k \in Id : Reaches(k, r)})
<1>1. \A i \in Id : parent[i] \in Id
  BY ForestTypes
<1>2. ASSUME NEW i \in Id, Reaches(i, r) PROVE Reaches(parent[i], r)
  <2>1. CASE i = r
    BY <1>2, <2>1 DEF Roots
  <2>2. ASSUME i # r, NEW T \in SUBSET Id, parent[i] \in T, Climbs(T) PROVE r \in T
    <3>1. Climbs(T \cup {i}) /\ T \cup {i} \in SUBSET Id
      BY <2>2 DEF Climbs
    <3> QED BY <1>2, <2>2, <3>1 DEF Reaches
  <2> QED BY <2>1, <2>2 DEF Reaches
<1>3. ASSUME NEW i \in Id, Reaches(parent[i], r) PROVE Reaches(i, r)
  <2>1. ASSUME NEW T \in SUBSET Id, i \in T, Climbs(T) PROVE r \in T
    <3>1. parent[i] \in T
      BY <2>1 DEF Climbs
    <3> QED BY <1>3, <2>1, <3>1 DEF Reaches
  <2> QED BY <2>1 DEF Reaches
<1> QED BY <1>1, <1>2, <1>3 DEF Respects, Keeps

\* An id reaches one root and no other.
LEMMA OneRoot ==
  ASSUME TypeInv, ParentPreferred, NEW k \in Id
  PROVE  /\ \E r \in Roots : Reaches(k, r)
         /\ \A r, s \in Roots : Reaches(k, r) /\ Reaches(k, s) => r = s
<1>1. \A i \in Id : parent[i] \in Id
  BY ForestTypes
<1>2. \E r \in Roots : Reaches(k, r)
  <2> DEFINE above == {i \in Id : Reaches(k, i)}
  <2>1. k \in above
    BY DEF Reaches
  <2>2. ASSUME NEW i \in above PROVE parent[i] \in above
    BY <1>1, <2>2 DEF Reaches, Climbs
  <2>3. PICK b \in above : \A c \in above : ~Preferred(names[c], names[b])
    <3> HIDE DEF above
    <3>1. above \in SUBSET Id
      BY DEF above
    <3> QED BY <2>1, <3>1, BestId
  <2>4. parent[b] = b
    BY <2>2, <2>3 DEF ParentPreferred
  <2> QED BY <2>4 DEF Roots
<1>3. ASSUME NEW r \in Roots, NEW s \in Roots, Reaches(k, r), Reaches(k, s) PROVE r = s
  <2> DEFINE tree == {i \in Id : Reaches(i, r)}
  <2>1. Respects(tree)
    BY TreeRespects
  <2>2. Climbs(tree)
    BY <2>1 DEF Climbs, Respects, Keeps
  <2>3. s \in tree
    BY <1>3, <2>2 DEF Reaches
  <2>4. {s} \in SUBSET Id /\ Climbs({s})
    BY DEF Climbs, Roots
  <2> QED BY <2>3, <2>4 DEF Reaches
<1> QED BY <1>2, <1>3

\* RootOf gets to the root that an id reaches.
LEMMA RootReached ==
  ASSUME TypeInv, ParentPreferred, NEW k \in Id
  PROVE  RootOf(k) \in Roots /\ Reaches(k, RootOf(k))
<1> DEFINE Up(f) == f = [j \in Id |-> IF parent[j] = j THEN j ELSE f[parent[j]]]
           best == [j \in Id |-> CHOOSE r \in Roots : Reaches(j, r)]
<1>1. ASSUME NEW j \in Id
      PROVE  /\ best[j] \in Roots /\ Reaches(j, best[j])
             /\ \A r \in Roots : Reaches(j, r) => r = best[j]
  BY OneRoot
<1>2. ASSUME NEW j \in Id
      PROVE  best[j] = IF parent[j] = j THEN j ELSE best[parent[j]]
  <2> HIDE DEF best
  <2>1. parent[j] \in Id
    BY ForestTypes
  <2>2. CASE parent[j] = j
    <3>1. j \in Roots /\ Reaches(j, j)
      BY <2>2 DEF Roots, Reaches
    <3> QED BY <1>1, <2>2, <3>1
  <2>3. CASE parent[j] # j
    <3> DEFINE r == best[parent[j]]
    <3>1. r \in Roots /\ Reaches(parent[j], r)
      BY <1>1, <2>1
    <3> HIDE DEF r
    <3>2. Reaches(j, r)
      BY <2>1, <3>1, TreeRespects DEF Respects, Keeps
    <3>3. r = best[j]
      BY <1>1, <3>1, <3>2
    <3> QED BY <2>3, <3>3 DEF r
  <2> QED BY <2>2, <2>3
<1>3. Up(best)
  <2> DEFINE next == [j \in Id |-> IF parent[j] = j THEN j ELSE best[parent[j]]]
  <2>1. \A j \in Id : best[j] = next[j]
    BY SMTT(40), <1>2
  <2> QED BY <2>1
<1> HIDE DEF best
<1> DEFINE up == CHOOSE f : Up(f)
<1>4. Up(up)
  BY <1>3
<1>5. RootOf(k) = up[k]
  BY DEF RootOf
<1> HIDE DEF up
<1>6. \A j \in Id : up[j] = IF parent[j] = j THEN j ELSE up[parent[j]]
  BY <1>4
<1> HIDE DEF Up
<1>7. ASSUME NEW B, B = {j \in Id : up[j] # best[j]}, B # {} PROVE FALSE
  <2>1. PICK b \in B : \A c \in B : ~Preferred(names[c], names[b])
    BY <1>7, BestId
  <2>2. b \in Id /\ parent[b] \in Id /\ (parent[b] = b \/ Preferred(names[parent[b]], names[b]))
    BY <1>7, <2>1, ForestTypes DEF ParentPreferred
  <2>3. CASE parent[b] = b
    BY <1>2, <1>6, <1>7, <2>2, <2>3
  <2>4. CASE parent[b] # b
    <3>1. up[parent[b]] = best[parent[b]]
      BY <1>7, <2>1, <2>2, <2>4
    <3> QED BY <1>2, <1>6, <1>7, <2>2, <2>4, <3>1
  <2> QED BY <2>2, <2>3, <2>4
<1>8. up[k] = best[k]
  BY <1>7
<1> QED BY <1>1, <1>5, <1>8

\* No set that keeps to the trees tells two ids apart.
Joined(i, j) == \A S : Respects(S) => (i \in S <=> j \in S)

\* The root of an id is the one root that it is joined to.
LEMMA RootJoined ==
  ASSUME TypeInv, ParentPreferred, NEW k \in Id
  PROVE  /\ RootOf(k) \in Roots /\ Joined(k, RootOf(k))
         /\ \A r \in Roots : Joined(k, r) => r = RootOf(k)
<1> DEFINE r == RootOf(k)
<1>1. r \in Roots /\ Reaches(k, r)
  BY RootReached
<1> HIDE DEF r
<1>2. ASSUME NEW S, Respects(S) PROVE k \in S <=> r \in S
  <2>1. \A i \in Id : parent[i] \in Id
    BY ForestTypes
  <2>2. Climbs(S \cap Id) /\ Climbs(Id \ S)
    BY <1>2, <2>1 DEF Climbs, Respects, Keeps
  <2>3. k \in S => r \in S
    BY <1>1, <2>2 DEF Reaches
  <2>4. k \notin S => r \notin S
    BY <1>1, <2>2 DEF Reaches
  <2> QED BY <2>3, <2>4
<1>3. ASSUME NEW s \in Roots, Joined(k, s) PROVE s = r
  <2> DEFINE tree == {i \in Id : Reaches(i, r)}
  <2>1. Respects(tree) /\ k \in tree
    BY <1>1, TreeRespects
  <2>2. s \in tree
    BY <1>3, <2>1 DEF Joined
  <2>3. Reaches(s, s) /\ s \in Id
    BY DEF Reaches, Roots
  <2> QED BY <1>1, <2>2, <2>3, OneRoot
<1> QED BY <1>1, <1>2, <1>3 DEF Joined, r

(***************************************************************************)
(* The partition                                                           *)
(***************************************************************************)
Rooted ==
  \A k \in Id :
    /\ RootOf(k) \in Roots /\ Joined(k, RootOf(k))
    /\ \A r \in Roots : Joined(k, r) => r = RootOf(k)

LEMMA ForestRooted == TypeInv /\ ParentPreferred => Rooted
BY RootJoined DEF Rooted

\* The names in the tree of a root, and those sets of names.
Tree(r) == {names[j] : j \in {k \in Id : RootOf(k) = r}}
Trees == {{names[j] : j \in {k \in Id : RootOf(k) = r}} : r \in Roots}

\* A name is in the tree of its id's root and in no other.
LEMMA TreeOfName ==
  ASSUME TypeInv, Rooted
  PROVE  /\ \A g : g \in Trees <=> \E r \in Roots : g = Tree(r)
         /\ \A i \in Id, r \in Roots : names[i] \in Tree(r) <=> r = RootOf(i)
         /\ \A i \in Id : Partition!GroupOf(names[i]) = Tree(RootOf(i))
         /\ Partition!Seen = {names[i] : i \in Id}
<1>1. \A g : g \in Trees <=> \E r \in Roots : g = Tree(r)
  BY DEF Trees, Tree
<1>2. ASSUME NEW i \in Id, NEW r \in Roots PROVE names[i] \in Tree(r) <=> r = RootOf(i)
  BY ForestTypes DEF Tree
<1>3. ASSUME NEW i \in Id PROVE Partition!GroupOf(names[i]) = Tree(RootOf(i))
  <2>1. RootOf(i) \in Roots
    BY DEF Rooted
  <2>2. \A g \in Trees : names[i] \in g <=> g = Tree(RootOf(i))
    BY <1>1, <1>2, <2>1
  <2>3. Tree(RootOf(i)) \in Trees
    BY <1>1, <2>1
  <2>4. (CHOOSE g \in Trees : names[i] \in g) = Tree(RootOf(i))
    BY <2>2, <2>3
  <2> QED BY <2>4 DEF Partition!GroupOf, Trees
<1>4. Partition!Seen = UNION Trees
  BY DEF Partition!Seen, Trees
<1>5. UNION Trees = {names[i] : i \in Id}
  <2>1. ASSUME NEW i \in Id PROVE names[i] \in UNION Trees
    <3>1. RootOf(i) \in Roots
      BY DEF Rooted
    <3> QED BY <1>1, <1>2, <3>1
  <2>2. ASSUME NEW x \in UNION Trees PROVE x \in {names[i] : i \in Id}
    BY <1>1, <2>2 DEF Tree
  <2> QED BY <2>1, <2>2
<1> QED BY <1>1, <1>2, <1>3, <1>4, <1>5

\* A step that keeps the names, the roots and the trees keeps the partition.
LEMMA SameTrees ==
  ASSUME TypeInv, Rooted, Rooted', names' = names, Roots' = Roots,
         \A S : Respects(S)' <=> Respects(S)
  PROVE  Trees' = Trees
<1>1. \A i, j : Joined(i, j)' <=> Joined(i, j)
  BY DEF Joined
<1>2. Id' = Id
  BY DEF Id
<1>3. ASSUME NEW k \in Id PROVE RootOf(k)' = RootOf(k)
  <2>1. PICK r \in Roots : RootOf(k) = r /\ Joined(k, r)
    BY DEF Rooted
  <2>2. k \in Id' /\ r \in Roots' /\ Joined(k, r)'
    BY <1>1, <1>2, <2>1
  <2>3. r = RootOf(k)'
    BY <2>2 DEF Rooted
  <2> QED BY <2>1, <2>3
<1> QED BY <1>2, <1>3 DEF Trees

\* Interning a name shows a new one or changes nothing.
LEMMA InternSees ==
  ASSUME TypeInv, Rooted, TypeInv', Rooted', NEW name \in Name, Intern(name)
  PROVE  \/ Trees' = Trees
         \/ Trees' = Trees \cup {{name}} /\ name \notin Partition!Seen
<1>1. ASSUME NEW S PROVE Respects(S)' <=> Respects(S)
  BY InternRespects
<1>2. CASE UNCHANGED forest
  <2>1. names' = names /\ Roots' = Roots
    BY <1>2 DEF forest, Roots, Id
  <2> QED BY <1>1, <2>1, SameTrees
<1>3. CASE /\ \A id \in Id : names[id] # name
           /\ sought' = Len(names) + 1
           /\ names' = Append(names, name) /\ parent' = Append(parent, sought')
  <2> DEFINE new == Len(names) + 1
  <2>1. /\ Id' = Id \cup {new} /\ new \notin Id
        /\ names'[new] = name /\ \A i \in Id : names'[i] = names[i]
    <3>1. names \in Seq(Name) /\ Len(names) \in Nat
      BY DEF TypeInv, TypeOK
    <3> QED BY <1>3, <3>1, AppendProperties DEF Id
  <2>2. PICK id : id = new
    OBVIOUS
  <2> HIDE DEF new
  <2>3. parent'[id] = id /\ \A i \in Id : parent'[i] = parent[i]
    BY <2>1, <2>2, <1>3, InternTypes
  <2>4. Roots' = Roots \cup {id} /\ id \in Id' /\ id \notin Id
    BY <2>1, <2>2, <2>3 DEF Roots
  <2>5. RootOf(id)' = id
    <3>1. Joined(id, id)'
      BY DEF Joined
    <3> QED BY <2>4, <3>1 DEF Rooted
  <2>6. ASSUME NEW k \in Id PROVE RootOf(k)' = RootOf(k) /\ RootOf(k) # id
    <3>1. PICK r \in Roots : RootOf(k) = r /\ Joined(k, r)
      BY DEF Rooted
    <3>2. k \in Id' /\ r \in Roots' /\ Joined(k, r)'
      BY <1>1, <2>1, <2>4, <3>1 DEF Joined
    <3>3. r = RootOf(k)'
      BY <3>2 DEF Rooted
    <3> QED BY <2>4, <3>1, <3>3 DEF Roots
  <2>7. ASSUME NEW r \in Roots PROVE Tree(r)' = Tree(r)
    <3>1. r # id
      BY <2>4 DEF Roots
    <3> QED BY <2>1, <2>2, <2>5, <2>6, <3>1 DEF Tree
  <2>8. Tree(id)' = {name}
    BY <2>1, <2>2, <2>5, <2>6 DEF Tree
  <2>9. Trees' = Trees \cup {{name}}
    <3>1. Trees = {Tree(r) : r \in Roots} /\ Trees' = {Tree(r)' : r \in Roots'}
      BY DEF Trees, Tree
    <3> QED BY <2>4, <2>7, <2>8, <3>1
  <2>10. name \notin Partition!Seen
    BY <1>3, TreeOfName
  <2> QED BY <2>9, <2>10
<1> QED BY <1>2, <1>3 DEF Intern

\* Linking two roots merges their trees.
LEMMA LinkMerges ==
  ASSUME TypeInv, Rooted, Rooted', \A S : Groups(S), Link
  PROVE  \/ Trees' = Trees
         \/ \E m, n \in Name :
              /\ m \in Partition!Seen /\ n \in Partition!Seen
              /\ Trees' = (Trees \ {Partition!GroupOf(m), Partition!GroupOf(n)})
                            \cup {Partition!GroupOf(m) \cup Partition!GroupOf(n)}
<1>1. cur \in Id /\ top \in Id /\ parent[cur] = cur /\ parent[top] = top /\ pc = "next"
  BY DEF Link, RootFound, TypeInv, TypeOK, Roots
<1>2. names' = names /\ Id' = Id
  BY DEF Link, LinkRoots, Id
<1>3. PICK below \in Id, above \in Id :
        /\ parent' = [parent EXCEPT ![below] = above]
        /\ {below, above} = {cur, top}
  BY <1>1 DEF Link, LinkRoots
<1>4. parent[below] = below /\ parent[above] = above
  BY <1>1, <1>3
<1>5. \A j \in Id : parent'[j] = (IF j = below THEN above ELSE parent[j])
  BY <1>2, <1>3, ReparentTypes
<1>6. ASSUME NEW S PROVE Respects(S)' <=> Respects(S) /\ (below \in S <=> above \in S)
  <2>1. Respects(S)' <=> (below \in S <=> above \in S) /\ \A j \in Id : j # below => Keeps(S, j)
    BY <1>2, <1>3, ReparentRespects
  <2>2. Keeps(S, below)
    BY <1>4 DEF Keeps
  <2> QED BY <2>1, <2>2 DEF Respects
<1>7. CASE below = above
  <2>1. \A j \in Id : parent'[j] = parent[j]
    BY <1>4, <1>5, <1>7
  <2>2. Roots' = Roots
    BY <1>2, <2>1 DEF Roots
  <2>3. \A S : Respects(S)' <=> Respects(S)
    BY <1>6, <1>7
  <2> QED BY <1>2, <2>2, <2>3, SameTrees
<1>8. CASE below # above
  <2>1. Roots' = Roots \ {below} /\ below \in Roots /\ above \in Roots
    BY <1>2, <1>4, <1>5, <1>8 DEF Roots
  <2>2. \A i, j : Joined(i, j) => Joined(i, j)'
    BY <1>6 DEF Joined
  <2>3. Joined(below, above)'
    BY <1>6 DEF Joined
  <2>4. ASSUME NEW k \in Id
        PROVE  RootOf(k)' = IF RootOf(k) = below THEN above ELSE RootOf(k)
    <3>1. PICK r \in Roots : RootOf(k) = r /\ Joined(k, r)
      BY DEF Rooted
    <3>2. Joined(k, r)'
      BY <2>2, <3>1
    <3>3. CASE r = below
      <4>1. Joined(k, above)'
        BY <2>3, <3>2, <3>3 DEF Joined
      <4>2. above \in Roots' /\ k \in Id'
        BY <1>2, <1>8, <2>1
      <4>3. RootOf(k)' = above
        BY <4>1, <4>2 DEF Rooted
      <4> QED BY <3>1, <3>3, <4>3
    <3>4. CASE r # below
      <4>1. r \in Roots' /\ k \in Id'
        BY <1>2, <2>1, <3>4
      <4>2. RootOf(k)' = r
        BY <3>2, <4>1 DEF Rooted
      <4> QED BY <3>1, <3>4, <4>2
    <3> QED BY <3>3, <3>4
  <2>5. Tree(above)' = Tree(above) \cup Tree(below)
    BY <1>2, <1>8, <2>4 DEF Tree
  <2>6. ASSUME NEW r \in Roots \ {below, above} PROVE Tree(r)' = Tree(r)
    BY <1>2, <2>4 DEF Tree
  <2>7. Trees = {Tree(r) : r \in Roots} /\ Trees' = {Tree(r)' : r \in Roots'}
    BY DEF Trees, Tree
  <2>8. ASSUME NEW r \in Roots, NEW s \in Roots, Tree(r) = Tree(s) PROVE r = s
    <3>1. names[r] \in Tree(r)
      <4>1. Joined(r, r) /\ r \in Id
        BY DEF Joined, Roots
      <4>2. RootOf(r) = r
        BY <4>1 DEF Rooted
      <4> QED BY <4>1, <4>2, TreeOfName
    <3>2. r \in Id
      BY DEF Roots
    <3> QED BY <2>8, <3>1, <3>2, TreeOfName
  <2>9. Trees' = (Trees \ {Tree(below), Tree(above)}) \cup {Tree(below) \cup Tree(above)}
    <3>1. ASSUME NEW g \in Trees'
          PROVE  g \in (Trees \ {Tree(below), Tree(above)}) \cup {Tree(below) \cup Tree(above)}
      <4>1. PICK r \in Roots' : g = Tree(r)'
        BY <2>7
      <4>2. CASE r = above
        BY <2>5, <4>1, <4>2
      <4>3. CASE r # above
        <5>1. r \in Roots \ {below, above}
          BY <2>1, <4>3
        <5>2. g = Tree(r) /\ Tree(r) # Tree(below) /\ Tree(r) # Tree(above)
          BY <2>1, <2>6, <2>8, <4>1, <5>1
        <5> QED BY <2>7, <5>1, <5>2
      <4> QED BY <4>2, <4>3
    <3>2. ASSUME NEW g \in Trees, g # Tree(below), g # Tree(above) PROVE g \in Trees'
      <4>1. PICK r \in Roots : g = Tree(r)
        BY <2>7
      <4>2. r \in Roots \ {below, above} /\ r \in Roots'
        BY <2>1, <3>2, <4>1
      <4> QED BY <2>6, <2>7, <4>1, <4>2
    <3>3. Tree(below) \cup Tree(above) \in Trees'
      <4>1. above \in Roots'
        BY <1>8, <2>1
      <4>2. Tree(above)' \in Trees'
        BY <2>7, <4>1
      <4> QED BY <2>5, <4>2
    <3> QED BY <3>1, <3>2, <3>3
  <2>10. ASSUME NEW r \in Roots
         PROVE  /\ names[r] \in Name /\ names[r] \in Partition!Seen
                /\ Partition!GroupOf(names[r]) = Tree(r)
    <3>1. r \in Id /\ Joined(r, r)
      BY DEF Roots, Joined
    <3>2. RootOf(r) = r
      BY <3>1 DEF Rooted
    <3> QED BY <3>1, <3>2, TreeOfName, ForestTypes
  <2> QED BY <2>1, <2>9, <2>10
<1> QED BY <1>7, <1>8

\* Every step of the union-find is a step of the partition or leaves it as it is.
LEMMA PartitionStep ==
  ASSUME TypeInv, ParentPreferred, Rooted, TypeInv', Rooted',
         \A S : Groups(S), \A S : Groups(S)', [Next]_vars
  PROVE  [Partition!Next]_Trees
<1>1. ASSUME NEW name \in Name, Intern(name) PROVE [Partition!Next]_Trees
  BY <1>1, InternSees DEF Partition!Next, Partition!See, Trees
<1>2. ASSUME names' = names, parent' = parent PROVE Trees' = Trees
  <2>1. Roots' = Roots /\ \A S : Respects(S)' <=> Respects(S)
    BY <1>2 DEF Roots, Id, Respects, Keeps
  <2> QED BY <1>2, <2>1, SameTrees
<1>3. ASSUME names' = names, Roots' = Roots, asked' = asked PROVE Trees' = Trees
  <2>1. \A S : Respects(S)' <=> Respects(S)
    BY <1>3 DEF Groups, ClosedUnder
  <2> QED BY <1>3, <2>1, SameTrees
<1>4. ASSUME NEW n \in Name, NEW k \in 0..(MaxAliases - 1), NEW request \in [1..k -> Name],
             Union(n, request)
      PROVE [Partition!Next]_Trees
  BY <1>1, <1>4 DEF Union
<1>5. CASE NextAlias
  <2>1. pc = "linked" /\ rest # << >> /\ Intern(Head(rest))
    BY <1>5 DEF NextAlias
  <2>2. rest \in Seq(Name)
    BY <2>1 DEF TypeInv, TypeOK
  <2>3. Head(rest) \in Name
    BY <2>1, <2>2, HeadTailProperties
  <2> QED BY <1>1, <2>1, <2>3
<1>6. CASE Halve
  <2> DEFINE up == parent[cur]
             p == parent[up]
  <2>1. cur \in Id /\ up \in Id /\ p \in Id /\ up # cur
    BY <1>6, ForestTypes DEF Halve, HalveTo, Walking
  <2>2. parent' = [parent EXCEPT ![cur] = p] /\ names' = names /\ asked' = asked
    BY <1>6 DEF Halve, HalveTo, history
  <2>3. p # cur
    <3>1. Preferred(names[up], names[cur]) /\ (p = up \/ Preferred(names[p], names[up]))
      BY <2>1 DEF ParentPreferred
    <3>2. names[p] \in Name /\ names[up] \in Name /\ names[cur] \in Name
      BY <2>1, ForestTypes
    <3> HIDE DEF up, p
    <3> QED BY <2>1, <3>1, <3>2, PreferredOrder
  <2>4. cur \notin Roots
    BY <2>1 DEF Roots
  <2> HIDE DEF up, p
  <2>5. Id' = Id /\ \A j \in Id : parent'[j] = (IF j = cur THEN p ELSE parent[j])
    BY <2>1, <2>2, ReparentTypes
  <2>6. Roots' = Roots
    BY <2>3, <2>4, <2>5 DEF Roots
  <2> QED BY <1>3, <2>2, <2>6
<1>7. CASE Link
  BY <1>7, LinkMerges DEF Partition!Next, Partition!Merge, Trees
<1>8. CASE Flattened
  <2>1. Walking /\ sought \in Id /\ cur \in Roots
    BY <1>8, ForestTypes DEF Flattened, RootFound, Walking, Roots
  <2>2. parent' = [parent EXCEPT ![sought] = cur] /\ names' = names /\ asked' = asked
    BY <1>8 DEF Flattened, history
  <2>3. cur \in Id
    BY <2>1 DEF Roots
  <2>4. Id' = Id /\ \A j \in Id : parent'[j] = (IF j = sought THEN cur ELSE parent[j])
    BY <2>1, <2>2, <2>3, ReparentTypes
  <2>5. sought \in Roots => cur = sought
    <3>1. Joined(sought, cur)
      BY <2>1 DEF Joined, Groups
    <3>2. cur = RootOf(sought)
      BY <2>1, <3>1 DEF Rooted
    <3>3. Joined(sought, sought)
      BY DEF Joined
    <3> QED BY <2>1, <3>2, <3>3 DEF Rooted
  <2>6. Roots' = Roots
    BY <2>1, <2>4, <2>5 DEF Roots
  <2> QED BY <1>3, <2>2, <2>6
<1>9. CASE UnionEnd \/ FoundFirst \/ Finish \/ Arrange \/ UNCHANGED vars
  <2>1. names' = names /\ parent' = parent
    BY <1>9, ArrangeKeeps DEF UnionEnd, FoundFirst, Finish, vars, forest
  <2> QED BY <1>2, <2>1
<1> QED BY <1>4, <1>5, <1>6, <1>7, <1>8, <1>9 DEF Next, Stopped

\* The union-find keeps a partition of the names of the batch, which changes only
\* by a new name and by the merge of the groups of two names of a request (go/store.go
\* 53 to 108, 290 to 302).
THEOREM GroupsImplementPartition == Spec => ImplementsPartition
<1> DEFINE GroupsInv == \A S : Groups(S)
<1>1. Init => TypeInv /\ Ascending /\ GroupsInv
  BY TypeInit DEF Init, Ascending, ParentPreferred, Groups, Respects, ClosedUnder, Walking, Id
<1>2. TypeInv /\ Ascending /\ GroupsInv /\ [Next]_vars => TypeInv' /\ Ascending' /\ GroupsInv'
  BY TypeStep, AscendingStep, GroupsStep
<1>3. TypeInv /\ Ascending => ParentPreferred /\ Rooted
  BY ForestRooted DEF Ascending
<1>4. Init => Partition!Init
  BY DEF Init, Partition!Init, Roots, Id
<1>5. /\ TypeInv /\ ParentPreferred /\ Rooted /\ GroupsInv
      /\ TypeInv' /\ Rooted' /\ GroupsInv' /\ [Next]_vars
      => [Partition!Next]_Trees
  BY PartitionStep
<1> QED
  BY <1>1, <1>2, <1>3, <1>4, <1>5, PTL DEF Spec, ImplementsPartition, Partition!Spec, Trees

(***************************************************************************)
(* Sorting and counting                                                    *)
(***************************************************************************)
Before(set, key, x) == {y \in set : key[y] < key[x]}
Rank(set, key, x) == Cardinality(Before(set, key, x))
Keyed(set, key) ==
  /\ IsFiniteSet(set) /\ \A x \in set : key[x] \in Nat
  /\ \A x, y \in set : key[x] = key[y] => x = y

\* A member with a smaller key has a smaller rank, and every rank is taken.
LEMMA Ranks ==
  ASSUME NEW set, NEW key, Keyed(set, key)
  PROVE  /\ Cardinality(set) \in Nat
         /\ \A x \in set : Rank(set, key, x) \in 0..(Cardinality(set) - 1)
         /\ \A x, y \in set : key[x] < key[y] => Rank(set, key, x) < Rank(set, key, y)
         /\ \A x, y \in set : Rank(set, key, x) = Rank(set, key, y) => x = y
         /\ \A k \in 1..Cardinality(set) : \E x \in set : Rank(set, key, x) = k - 1
<1> DEFINE n == Cardinality(set)
<1>1. IsFiniteSet(set) /\ n \in Nat
  BY FS_CardinalityType DEF Keyed
<1>2. \A x \in set : key[x] \in Nat
  BY DEF Keyed
<1>3. ASSUME NEW S \in SUBSET set, NEW T \in SUBSET S, NEW x \in S, x \notin T
      PROVE  Cardinality(S) \in Nat /\ Cardinality(T) \in Nat /\ Cardinality(T) < Cardinality(S)
  <2>1. IsFiniteSet(S) /\ Cardinality(S) \in Nat
    BY <1>1, FS_Subset, FS_CardinalityType
  <2>2. IsFiniteSet(T) /\ Cardinality(T) \in Nat
    BY <2>1, FS_Subset, FS_CardinalityType
  <2>3. Cardinality(T) <= Cardinality(S) /\ Cardinality(T) # Cardinality(S)
    BY <1>3, <2>1, FS_Subset
  <2> QED BY <2>1, <2>2, <2>3
<1>4. ASSUME NEW x \in set PROVE Rank(set, key, x) \in 0..(n - 1)
  <2>1. Before(set, key, x) \in SUBSET set /\ x \notin Before(set, key, x)
    BY <1>2 DEF Before
  <2>2. Cardinality(Before(set, key, x)) \in Nat /\ Cardinality(Before(set, key, x)) < n
    BY <1>3, <2>1
  <2> QED BY <1>1, <2>2 DEF Rank
<1>5. ASSUME NEW x \in set, NEW y \in set, key[x] < key[y]
      PROVE  Rank(set, key, x) < Rank(set, key, y)
  <2>1. Before(set, key, y) \in SUBSET set /\ Before(set, key, x) \in SUBSET Before(set, key, y)
        /\ x \in Before(set, key, y) /\ x \notin Before(set, key, x)
    BY <1>2, <1>5 DEF Before
  <2> QED BY <1>3, <2>1 DEF Rank
<1>6. ASSUME NEW x \in set, NEW y \in set, Rank(set, key, x) = Rank(set, key, y) PROVE x = y
  <2>1. key[x] < key[y] \/ key[y] < key[x] \/ key[x] = key[y]
    BY <1>2
  <2>2. Rank(set, key, x) \in Nat
    BY <1>1, <1>4
  <2> QED BY <1>5, <1>6, <2>1, <2>2 DEF Keyed
<1>7. ASSUME NEW k \in 1..n PROVE \E x \in set : Rank(set, key, x) = k - 1
  <2> DEFINE rank == [x \in set |-> Rank(set, key, x)]
             places == 0..(n - 1)
  <2>1. rank \in Injection(set, places)
    BY <1>4, <1>6 DEF Injection, IsInjective
  <2>2. IsFiniteSet(places) /\ Cardinality(places) = n
    <3> HIDE DEF n
    <3>1. n - 1 \in Int /\ 0 \in Int
      BY <1>1
    <3>2. IsFiniteSet(0..(n - 1)) /\ Cardinality(0..(n - 1)) = IF 0 > n - 1 THEN 0 ELSE n - 1 - 0 + 1
      BY <3>1, FS_Interval
    <3> QED BY <1>1, <3>2
  <2>3. rank \in Surjection(set, places)
    BY <2>1, <2>2, FS_Injection
  <2>4. k - 1 \in places
    BY <1>1
  <2> QED BY <2>3, <2>4 DEF Surjection
<1> QED BY <1>1, <1>4, <1>5, <1>6, <1>7

\* Sorting leaves every member once and in the order of the keys.
LEMMA InOrderSorts ==
  ASSUME NEW set, NEW key, Keyed(set, key)
  PROVE  /\ Cardinality(set) \in Nat /\ DOMAIN InOrder(set, key) = 1..Cardinality(set)
         /\ \A k \in 1..Cardinality(set) :
              InOrder(set, key)[k] \in set /\ Rank(set, key, InOrder(set, key)[k]) = k - 1
         /\ \A x \in set : \E k \in 1..Cardinality(set) : InOrder(set, key)[k] = x
         /\ \A k, l \in 1..Cardinality(set) :
              k < l => key[InOrder(set, key)[k]] < key[InOrder(set, key)[l]]
<1> DEFINE n == Cardinality(set)
           s == InOrder(set, key)
<1>1. /\ n \in Nat
      /\ \A x \in set : Rank(set, key, x) \in 0..(n - 1)
      /\ \A x, y \in set : key[x] < key[y] => Rank(set, key, x) < Rank(set, key, y)
      /\ \A x, y \in set : Rank(set, key, x) = Rank(set, key, y) => x = y
      /\ \A k \in 1..n : \E x \in set : Rank(set, key, x) = k - 1
  BY Ranks
<1>2. s = [k \in 1..n |-> CHOOSE x \in set : Rank(set, key, x) = k - 1]
  BY DEF InOrder, Rank, Before
<1> HIDE DEF n, s
<1>3. \A k \in 1..n : s[k] \in set /\ Rank(set, key, s[k]) = k - 1
  BY <1>1, <1>2
<1>4. ASSUME NEW x \in set PROVE \E k \in 1..n : s[k] = x
  <2> DEFINE k == Rank(set, key, x) + 1
  <2>1. k \in 1..n /\ Rank(set, key, x) = k - 1
    BY <1>1
  <2> HIDE DEF k
  <2>2. s[k] \in set /\ Rank(set, key, s[k]) = Rank(set, key, x)
    BY <1>3, <2>1
  <2> QED BY <1>1, <2>1, <2>2
<1>5. ASSUME NEW k \in 1..n, NEW l \in 1..n, k < l PROVE key[s[k]] < key[s[l]]
  <2>1. s[k] \in set /\ s[l] \in set /\ Rank(set, key, s[k]) < Rank(set, key, s[l])
        /\ Rank(set, key, s[k]) \in Nat /\ Rank(set, key, s[l]) \in Nat
    BY <1>1, <1>3, <1>5
  <2>2. key[s[k]] \in Nat /\ key[s[l]] \in Nat
    BY <2>1 DEF Keyed
  <2>3. ~(key[s[l]] < key[s[k]]) /\ key[s[l]] # key[s[k]]
    BY <1>1, <2>1 DEF Keyed
  <2> QED BY <2>2, <2>3
<1> QED BY <1>1, <1>2, <1>3, <1>4, <1>5 DEF n, s

\* The keys of the members in the order of their keys are the sorted keys.
LEMMA KeysInOrder ==
  ASSUME NEW set, NEW key, Keyed(set, key)
  PROVE  Sorted({key[x] : x \in set}) = [k \in DOMAIN InOrder(set, key) |-> key[InOrder(set, key)[k]]]
<1> DEFINE keys == {key[x] : x \in set}
           same == [m \in keys |-> m]
           n == Cardinality(set)
           s == InOrder(set, key)
           t == InOrder(keys, same)
<1>1. ASSUME NEW S \in SUBSET set
      PROVE  IsFiniteSet({key[x] : x \in S}) /\ Cardinality({key[x] : x \in S}) = Cardinality(S)
  <2> DEFINE f == [x \in S |-> key[x]]
             T == {key[x] : x \in S}
  <2>1. f \in Bijection(S, T)
    BY DEF Keyed, Bijection, Injection, Surjection, IsInjective
  <2>2. IsFiniteSet(S)
    BY FS_Subset DEF Keyed
  <2> HIDE DEF f, T
  <2>3. ExistsBijection(S, T)
    BY <2>1 DEF ExistsBijection
  <2>4. IsFiniteSet(T) /\ Cardinality(T) = Cardinality(S)
    BY <2>2, <2>3, FS_Bijection
  <2> QED BY <2>4 DEF T
<1>2. IsFiniteSet(keys) /\ Cardinality(keys) = n
  BY <1>1
<1>3. ASSUME NEW x \in set PROVE Rank(keys, same, key[x]) = Rank(set, key, x)
  <2> DEFINE S == Before(set, key, x)
  <2>1. {key[y] : y \in S} = Before(keys, same, key[x])
    BY <1>3 DEF Before
  <2>2. S \in SUBSET set
    BY DEF Before
  <2> HIDE DEF S, same, keys
  <2>3. Cardinality({key[y] : y \in S}) = Cardinality(S)
    BY <1>1, <2>2
  <2> QED BY <2>1, <2>3 DEF Rank, S
<1>4. Keyed(keys, same)
  BY <1>2 DEF Keyed
<1> HIDE DEF n, s, t, same
<1>5. n \in Nat /\ DOMAIN s = 1..n /\ \A k \in 1..n : s[k] \in set /\ Rank(set, key, s[k]) = k - 1
  BY InOrderSorts DEF n, s
<1>6. DOMAIN t = 1..n /\ \A k \in 1..n : t[k] \in keys /\ Rank(keys, same, t[k]) = k - 1
  <2> HIDE DEF keys
  <2> QED BY <1>2, <1>4, InOrderSorts DEF t, n
<1>7. \A x, y \in keys : Rank(keys, same, x) = Rank(keys, same, y) => x = y
  <2> HIDE DEF keys
  <2> QED BY <1>4, Ranks
<1>8. \A k \in 1..n : t[k] = key[s[k]]
  <2> SUFFICES ASSUME NEW k \in 1..n PROVE t[k] = key[s[k]]
    OBVIOUS
  <2>1. s[k] \in set /\ Rank(keys, same, key[s[k]]) = k - 1
    BY <1>3, <1>5
  <2>2. key[s[k]] \in keys
    BY <2>1
  <2> HIDE DEF keys
  <2> QED BY <1>6, <1>7, <2>1, <2>2
<1>9. t = [k \in 1..n |-> t[k]]
  <2> HIDE DEF keys
  <2>1. t = [k \in 1..Cardinality(keys) |-> CHOOSE x \in keys : Rank(keys, same, x) = k - 1]
    BY DEF t, InOrder, Rank, Before
  <2> QED BY <1>2, <2>1
<1>10. Sorted(keys) = t
  BY DEF Sorted, t, same
<1>11. Sorted(keys) = [k \in DOMAIN s |-> key[s[k]]]
  <2> HIDE DEF keys
  <2> QED BY <1>5, <1>8, <1>9, <1>10
<1> QED BY <1>11 DEF s

\* Where the group of a root begins among the ids ordered by root and then by id,
\* and the place of an id among them.
Offset(root) == Cardinality({i \in Id : parent[i] < root})
Position(id) == Offset(parent[id]) + Cardinality({i \in 1..id : parent[i] = parent[id]})

\* The group of a root among the ids, and those of the roots below it.
Group(r) == {i \in Id : parent[i] = r}
Lower(r) == {i \in Id : parent[i] < r}
UpTo(i) == {j \in 1..i : parent[j] = parent[i]}

LEMMA Ids ==
  ASSUME TypeInv
  PROVE  /\ Len(names) \in Nat /\ Id = 1..Len(names) /\ IsFiniteSet(Id) /\ Cardinality(Id) = Len(names)
         /\ \A i \in Id : i \in Nat /\ parent[i] \in Id /\ parent[i] \in Nat
<1> DEFINE n == Len(names)
<1>1. n \in Nat /\ Id = 1..n
  BY DEF TypeInv, TypeOK, Id
<1> HIDE DEF n
<1>2. IsFiniteSet(1..n) /\ Cardinality(1..n) = IF 1 > n THEN 0 ELSE n - 1 + 1
  BY <1>1, FS_Interval
<1>3. Cardinality(1..n) = n
  BY <1>1, <1>2
<1>4. \A i \in Id : parent[i] \in Id
  BY ForestTypes
<1> QED BY <1>1, <1>2, <1>3, <1>4 DEF n

\* Each group has its own slice of the places, as long as the group.
LEMMA Slices ==
  ASSUME TypeInv
  PROVE  /\ \A r \in Id : /\ Offset(r) \in Nat /\ Offset(r + 1) \in Nat /\ Cardinality(Group(r)) \in Nat
                          /\ Offset(r + 1) = Offset(r) + Cardinality(Group(r))
                          /\ Offset(r + 1) <= Len(names)
         /\ \A r, q \in Id : r < q => Offset(r + 1) <= Offset(q)
<1>1. ASSUME NEW S \in SUBSET Id PROVE IsFiniteSet(S) /\ Cardinality(S) \in Nat /\ Cardinality(S) <= Len(names)
  BY Ids, FS_Subset, FS_CardinalityType
<1>2. \A r : Offset(r) = Cardinality(Lower(r)) /\ Lower(r) \in SUBSET Id /\ Group(r) \in SUBSET Id
  BY DEF Offset, Lower, Group
<1>3. ASSUME NEW r \in Id
      PROVE  /\ Offset(r) \in Nat /\ Offset(r + 1) \in Nat /\ Cardinality(Group(r)) \in Nat
             /\ Offset(r + 1) = Offset(r) + Cardinality(Group(r))
             /\ Offset(r + 1) <= Len(names)
  <2>1. Lower(r + 1) = Lower(r) \cup Group(r) /\ Lower(r) \cap Group(r) = {}
    BY Ids DEF Lower, Group
  <2>2. Cardinality(Lower(r) \cup Group(r)) =
          Cardinality(Lower(r)) + Cardinality(Group(r)) - Cardinality(Lower(r) \cap Group(r))
    BY <1>1, <1>2, FS_Union
  <2>3. Cardinality(Lower(r) \cap Group(r)) = 0
    BY <2>1, FS_EmptySet
  <2>4. /\ Cardinality(Lower(r)) \in Nat /\ Cardinality(Group(r)) \in Nat
        /\ Cardinality(Lower(r + 1)) \in Nat /\ Cardinality(Lower(r + 1)) <= Len(names)
    BY <1>1, <1>2
  <2>5. Cardinality(Lower(r + 1)) = Cardinality(Lower(r)) + Cardinality(Group(r))
    <3> DEFINE a == Cardinality(Lower(r))
               b == Cardinality(Group(r))
               c == Cardinality(Lower(r) \cap Group(r))
    <3>1. Cardinality(Lower(r + 1)) = Cardinality(Lower(r) \cup Group(r))
      BY <2>1
    <3>2. Cardinality(Lower(r + 1)) = a + b - c
      BY <3>1, <2>2
    <3>3. a \in Nat /\ b \in Nat /\ c = 0
      BY <2>3, <2>4
    <3> HIDE DEF a, b, c
    <3>4. Cardinality(Lower(r + 1)) = a + b
      BY <3>2, <3>3
    <3> QED BY <3>4 DEF a, b
  <2> QED BY <1>2, <2>4, <2>5
<1>4. ASSUME NEW r \in Id, NEW q \in Id, r < q PROVE Offset(r + 1) <= Offset(q)
  <2>1. Lower(r + 1) \in SUBSET Lower(q)
    BY <1>4, Ids DEF Lower
  <2> QED BY <1>1, <1>2, <2>1, FS_Subset
<1> QED BY <1>3, <1>4

\* An id has a place in the slice of its root, and no other id has it.
LEMMA Places ==
  ASSUME TypeInv
  PROVE  /\ \A i \in Id : /\ Position(i) \in 1..Len(names)
                          /\ Position(i) \in (Offset(parent[i]) + 1)..Offset(parent[i] + 1)
         /\ \A i, j \in Id : Position(i) = Position(j) => i = j
         /\ \A k \in 1..Len(names) : \E i \in Id : Position(i) = k
<1> DEFINE n == Len(names)
<1>1. \A i \in Id : Position(i) = Offset(parent[i]) + Cardinality(UpTo(i))
  BY DEF Position, UpTo
<1>2. ASSUME NEW i \in Id
      PROVE  /\ UpTo(i) \in SUBSET Group(parent[i]) /\ i \in UpTo(i) /\ IsFiniteSet(UpTo(i))
             /\ Cardinality(UpTo(i)) \in Nat /\ Cardinality(UpTo(i)) >= 1
             /\ Cardinality(UpTo(i)) <= Cardinality(Group(parent[i]))
  <2>1. UpTo(i) \in SUBSET Group(parent[i]) /\ i \in UpTo(i)
    BY Ids DEF UpTo, Group
  <2>2. IsFiniteSet(Group(parent[i]))
    <3>1. Group(parent[i]) \in SUBSET Id
      BY DEF Group
    <3> QED BY <3>1, Ids, FS_Subset
  <2>3. IsFiniteSet(UpTo(i)) /\ Cardinality(UpTo(i)) <= Cardinality(Group(parent[i]))
    BY <2>1, <2>2, FS_Subset
  <2>4. Cardinality(UpTo(i)) \in Nat /\ Cardinality(UpTo(i)) # 0
    BY <2>1, <2>3, FS_CardinalityType, FS_EmptySet
  <2> QED BY <2>1, <2>3, <2>4
<1>3. ASSUME NEW i \in Id
      PROVE  /\ Position(i) \in 1..n
             /\ Position(i) \in (Offset(parent[i]) + 1)..Offset(parent[i] + 1)
  <2> DEFINE u == Cardinality(UpTo(i))
             g == Cardinality(Group(parent[i]))
             low == Offset(parent[i])
             high == Offset(parent[i] + 1)
  <2>1. u \in Nat /\ u >= 1 /\ u <= g /\ Position(i) = low + u
    BY <1>1, <1>2
  <2>2. low \in Nat /\ high \in Nat /\ g \in Nat /\ high = low + g /\ high <= n /\ n \in Nat
    BY Ids, Slices
  <2> HIDE DEF u, g, low, high, n
  <2>3. Position(i) \in 1..n /\ Position(i) \in (low + 1)..high
    BY <2>1, <2>2
  <2> QED BY <2>3 DEF low, high, n
<1>4. ASSUME NEW i \in Id, NEW j \in Id, parent[i] = parent[j], i < j
      PROVE  Position(i) # Position(j)
  <2>1. UpTo(i) \in SUBSET UpTo(j) /\ j \in UpTo(j) /\ j \notin UpTo(i)
    BY <1>4, Ids DEF UpTo
  <2>2. Cardinality(UpTo(i)) # Cardinality(UpTo(j))
    BY <1>2, <2>1, FS_Subset
  <2>3. Cardinality(UpTo(i)) \in Nat /\ Cardinality(UpTo(j)) \in Nat /\ Offset(parent[j]) \in Nat
    BY <1>2, Ids, Slices
  <2> QED BY <1>1, <1>4, <2>2, <2>3
<1>5. ASSUME NEW i \in Id, NEW j \in Id, parent[i] < parent[j]
      PROVE  Position(i) # Position(j)
  <2>1. /\ Offset(parent[i] + 1) \in Nat /\ Offset(parent[j]) \in Nat
        /\ Offset(parent[i] + 1) <= Offset(parent[j])
    BY <1>5, Ids, Slices
  <2>2. Position(i) \in Nat /\ Position(j) \in Nat /\ Position(i) <= Offset(parent[i] + 1)
        /\ Offset(parent[j]) + 1 <= Position(j)
    BY <1>3, Ids
  <2> QED BY <2>1, <2>2
<1>6. ASSUME NEW i \in Id, NEW j \in Id, Position(i) = Position(j) PROVE i = j
  <2>1. i \in Nat /\ j \in Nat /\ parent[i] \in Nat /\ parent[j] \in Nat
    BY Ids
  <2> QED BY <1>4, <1>5, <1>6, <2>1
<1>7. ASSUME NEW k \in 1..n PROVE \E i \in Id : Position(i) = k
  <2> DEFINE place == [i \in Id |-> Position(i)]
  <2>1. place \in Injection(Id, 1..n)
    BY <1>3, <1>6 DEF Injection, IsInjective
  <2>2. Id = 1..n /\ IsFiniteSet(1..n)
    BY Ids
  <2>3. place \in Surjection(Id, 1..n)
    BY <2>1, <2>2, FS_Injection
  <2> QED BY <2>3 DEF Surjection
<1> QED BY <1>3, <1>6, <1>7

(***************************************************************************)
(* The flat forest                                                         *)
(***************************************************************************)
\* finishAliases has put the ids before the one it is at right below their roots,
\* and a walk that begins at a root ends there.
Flat ==
  /\ pc = "flatten" => \A i \in Id : i < sought => parent[i] \in Roots
  /\ pc \in {"sort", "sum", "fill"} => \A i \in Id : parent[i] \in Roots
  /\ pc = "flatten" /\ sought \in Roots => cur = sought

LEMMA HalveFlat == TypeInv /\ Ascending /\ Flat /\ Halve => Flat'
<1> SUFFICES ASSUME TypeInv, Ascending, Flat, Halve PROVE Flat'
  OBVIOUS
<1> DEFINE up == parent[cur]
           p == parent[up]
<1>1. Walking /\ cur \in Id /\ up \in Id /\ p \in Id /\ sought \in Id /\ up # cur
  BY ForestTypes DEF Halve, HalveTo, Walking
<1>2. parent' = [parent EXCEPT ![cur] = p] /\ names' = names /\ UNCHANGED <<pc, sought>>
      /\ cur' = parent'[cur]
  BY DEF Halve, HalveTo
<1>3. p # cur
  <2>1. Preferred(names[up], names[cur]) /\ (p = up \/ Preferred(names[p], names[up]))
    BY <1>1 DEF Ascending, ParentPreferred
  <2>2. names[up] \in Name /\ names[cur] \in Name /\ names[p] \in Name
    BY <1>1, ForestTypes
  <2> HIDE DEF up, p
  <2> QED BY <1>1, <2>1, <2>2, PreferredOrder
<1>4. Id' = Id /\ \A i \in Id : parent'[i] = (IF i = cur THEN p ELSE parent[i])
  BY <1>1, <1>2, ReparentTypes
<1>5. up \in Roots => p = up
  BY DEF Roots
<1> HIDE DEF p
<1>6. Roots' = Roots
  BY <1>1, <1>3, <1>4 DEF Roots
<1>7. \A i \in Id : parent[i] \in Roots => parent'[i] \in Roots'
  BY <1>4, <1>5, <1>6
<1>8. pc = "flatten" => sought \notin Roots
  BY <1>1 DEF Flat, Roots
<1> QED BY <1>2, <1>4, <1>6, <1>7, <1>8 DEF Flat

LEMMA FlattenedFlat == TypeInv /\ Flat /\ Flattened => Flat'
<1> SUFFICES ASSUME TypeInv, Flat, Flattened PROVE Flat'
  OBVIOUS
<1>1. pc = "flatten" /\ sought \in Id /\ cur \in Id /\ parent[cur] = cur /\ cur \in Roots
  BY ForestTypes DEF Flattened, RootFound, Walking, Roots
<1>2. parent' = [parent EXCEPT ![sought] = cur] /\ names' = names /\ sought' = sought + 1
      /\ cur' = sought' /\ pc' = IF sought + 1 \in Id THEN "flatten" ELSE "sort"
  BY DEF Flattened, Flatten
<1>3. Id' = Id /\ \A i \in Id : parent'[i] = (IF i = sought THEN cur ELSE parent[i])
  BY <1>1, <1>2, ReparentTypes
<1>4. Roots' = Roots
  BY <1>1, <1>3 DEF Flat, Roots
<1>5. \A i \in Id : i <= sought => parent'[i] \in Roots'
  BY <1>1, <1>3, <1>4, Ids DEF Flat
<1>6. \A i \in Id : i < sought + 1 => i <= sought
  BY <1>1, Ids
<1>7. sought + 1 \notin Id => \A i \in Id : i <= sought
  BY <1>1, Ids
<1> QED BY <1>2, <1>3, <1>5, <1>6, <1>7 DEF Flat

LEMMA FlatStep == TypeInv /\ Ascending /\ Flat /\ [Next]_vars => Flat'
<1> SUFFICES ASSUME TypeInv, Ascending, Flat, [Next]_vars PROVE Flat'
  OBVIOUS
<1>1. CASE Halve
  BY <1>1, HalveFlat
<1>2. CASE Flattened
  BY <1>2, FlattenedFlat
<1>3. CASE Finish
  <2>1. sought' = 1 /\ cur' = 1 /\ names' = names /\ parent' = parent
        /\ pc' = IF 1 \in Id THEN "flatten" ELSE "sort"
    BY <1>3 DEF Finish, Flatten, forest
  <2>2. Id' = Id
    BY <2>1 DEF Id
  <2>3. \A i \in Id : ~(i < 1) /\ 1 \in Id
    BY Ids
  <2> QED BY <2>1, <2>2, <2>3 DEF Flat
<1>4. CASE UNCHANGED vars
  BY <1>4 DEF Flat, Roots, Id, vars, forest, walk
<1>5. CASE \E n \in Name, k \in 0..(MaxAliases - 1) : \E request \in [1..k -> Name] : Union(n, request)
  BY <1>5 DEF Union, Flat
<1>6. CASE NextAlias \/ UnionEnd \/ FoundFirst \/ Link
  <2>1. pc' \in {"next", "idle", "linked"}
    BY <1>6 DEF NextAlias, UnionEnd, FoundFirst, Link, LinkRoots
  <2> QED BY <2>1 DEF Flat
<1>7. CASE Arrange
  <2>1. /\ names' = names /\ parent' = parent
        /\ pc \in {"sort", "sum", "fill"} /\ pc' \in {"sum", "fill", "done"}
    BY <1>7, ArrangeKeeps
  <2> QED BY <2>1 DEF Flat, Roots, Id
<1> QED BY <1>1, <1>2, <1>3, <1>4, <1>5, <1>6, <1>7 DEF Next, Stopped

(***************************************************************************)
(* The counting sort                                                       *)
(***************************************************************************)
\* The ids of the group of r that a loop has passed.
Passed(r) == {i \in Id : i < sought /\ parent[i] = r}

\* A sequence that holds each member of S once.
Enumerates(s, S) ==
  /\ s \in Seq(S)
  /\ \A k, l \in DOMAIN s : s[k] = s[l] => k = l
  /\ \A r \in S : \E k \in DOMAIN s : s[k] = r

\* What the loops of finishAliases have left in the tables so far: the first has
\* counted the ids it has passed and listed their roots; the second has turned
\* the counts that it has passed into the places where the groups begin; a count
\* is the place of the next id of its group in the third, and an id that has been
\* passed is in its place.
Counted ==
  /\ pc \in {"flatten", "sort"} =>
       /\ \A r \in Id : counts[r] = Cardinality(Passed(r))
       /\ Enumerates(roots, {r \in Id : Passed(r) # {}})
  /\ pc = "sort" => \A i \in Id : i < sought
  /\ pc \in {"sum", "fill"} =>
       /\ Enumerates(roots, Roots)
       /\ Sorted({names[r] : r \in Roots}) = [k \in DOMAIN roots |-> names[roots[k]]]
       /\ sought \in 1..(Len(names) + 1)
  /\ pc = "sum" =>
       /\ \A i \in 1..sought : offsets[i] = Offset(i)
       /\ \A i \in Id : counts[i] = IF i < sought THEN Offset(i) ELSE Cardinality(Group(i))
  /\ pc = "fill" =>
       /\ \A i \in 1..(Len(names) + 1) : offsets[i] = Offset(i)
       /\ \A r \in Id : counts[r] = Offset(r) + Cardinality(Passed(r))
       /\ \A i \in Id : i < sought => members[Position(i)] = i

LEMMA SamePlaces ==
  ASSUME names' = names, parent' = parent
  PROVE  /\ Id' = Id /\ Roots' = Roots
         /\ \A r : Offset(r)' = Offset(r) /\ Group(r)' = Group(r)
         /\ \A i : Position(i)' = Position(i)
<1>1. Id' = Id
  BY DEF Id
<1>2. Roots' = Roots
  BY <1>1 DEF Roots
<1>3. \A r : Offset(r)' = Offset(r) /\ Group(r)' = Group(r)
  BY <1>1 DEF Offset, Group
<1>4. \A i : Position(i)' = Position(i)
  BY <1>3 DEF Position
<1> QED BY <1>1, <1>2, <1>3, <1>4

LEMMA PassedFinite ==
  ASSUME TypeInv
  PROVE  \A r : /\ IsFiniteSet(Passed(r)) /\ Cardinality(Passed(r)) \in Nat
                /\ Cardinality(Passed(r)) = 0 <=> Passed(r) = {}
<1> SUFFICES ASSUME NEW r
             PROVE  /\ IsFiniteSet(Passed(r)) /\ Cardinality(Passed(r)) \in Nat
                    /\ Cardinality(Passed(r)) = 0 <=> Passed(r) = {}
  OBVIOUS
<1>1. Passed(r) \in SUBSET Id
  BY DEF Passed
<1> QED BY <1>1, Ids, FS_Subset, FS_CardinalityType, FS_EmptySet

\* One more id adds one to the count of its group.
LEMMA OneMore ==
  ASSUME TypeInv, sought \in Id, NEW r
  PROVE  Cardinality(Passed(r) \cup {sought}) = Cardinality(Passed(r)) + 1
<1>1. sought \notin Passed(r)
  BY Ids DEF Passed
<1> QED BY <1>1, PassedFinite, FS_AddElement

LEMMA FinishCounted == TypeInv /\ Finish => Counted'
<1> SUFFICES ASSUME TypeInv, Finish PROVE Counted'
  OBVIOUS
<1>1. /\ names' = names /\ parent' = parent /\ sought' = 1
      /\ pc' = (IF 1 \in Id THEN "flatten" ELSE "sort")
      /\ counts' = [id \in Id |-> 0] /\ roots' = << >>
  BY DEF Finish, Flatten, forest
<1>2. Id' = Id
  BY <1>1, SamePlaces
<1>3. \A r : Passed(r)' = {}
  BY <1>1, <1>2, Ids DEF Passed
<1>4. \A r \in Id : counts'[r] = Cardinality(Passed(r)')
  BY <1>1, <1>3, FS_EmptySet
<1>5. Enumerates(roots', {r \in Id : Passed(r)' # {}})
  BY <1>1, <1>3, EmptySeq DEF Enumerates
<1>6. 1 \notin Id => \A i \in Id : i < 1
  BY Ids
<1> QED BY <1>1, <1>2, <1>4, <1>5, <1>6 DEF Counted

\* Path halving does not touch an id that flattening has passed.
LEMMA HalveCounted == TypeInv /\ Flat /\ Counted /\ Halve => Counted'
<1> SUFFICES ASSUME TypeInv, Flat, Counted, Halve PROVE Counted'
  OBVIOUS
<1> DEFINE up == parent[cur]
           p == parent[up]
<1>1. Walking /\ cur \in Id /\ p \in Id
  BY ForestTypes DEF Halve, HalveTo, Walking
<1>2. parent' = [parent EXCEPT ![cur] = p] /\ names' = names /\ UNCHANGED <<pc, sought, counts, roots>>
  BY DEF Halve, HalveTo, out, tables
<1>3. Id' = Id /\ \A i \in Id : parent'[i] = (IF i = cur THEN p ELSE parent[i])
  BY <1>1, <1>2, ReparentTypes
<1>4. up \in Roots => p = up
  BY DEF Roots
<1> HIDE DEF p
<1>5. pc = "flatten" => \A i \in Id : i < sought => parent'[i] = parent[i]
  BY <1>3, <1>4 DEF Flat
<1>6. pc = "flatten" => \A r : Passed(r)' = Passed(r)
  BY <1>2, <1>3, <1>5 DEF Passed
<1> HIDE DEF up
<1>7. CASE pc = "flatten"
  <2>1. \A r \in Id' : counts'[r] = Cardinality(Passed(r)')
    BY <1>2, <1>3, <1>6, <1>7 DEF Counted
  <2>2. {r \in Id' : Passed(r)' # {}} = {r \in Id : Passed(r) # {}}
    BY <1>3, <1>6, <1>7
  <2>3. Enumerates(roots', {r \in Id' : Passed(r)' # {}})
    BY <1>2, <1>7, <2>2 DEF Counted
  <2> QED BY <1>2, <1>7, <2>1, <2>3 DEF Counted
<1>8. CASE pc # "flatten"
  BY <1>1, <1>2, <1>8 DEF Counted, Walking
<1> QED BY <1>7, <1>8

LEMMA FlattenedCounted == TypeInv /\ Counted /\ Flattened => Counted'
<1> SUFFICES ASSUME TypeInv, Counted, Flattened PROVE Counted'
  OBVIOUS
<1> DEFINE Met == {r \in Id : Passed(r) # {}}
<1>1. pc = "flatten" /\ sought \in Id /\ cur \in Id
  BY ForestTypes DEF Flattened, RootFound, Walking
<1>2. /\ parent' = [parent EXCEPT ![sought] = cur] /\ names' = names /\ sought' = sought + 1
      /\ pc' = (IF sought + 1 \in Id THEN "flatten" ELSE "sort")
      /\ roots' = (IF counts[cur] = 0 THEN Append(roots, cur) ELSE roots)
      /\ counts' = [counts EXCEPT ![cur] = @ + 1]
  BY DEF Flattened, Flatten
<1>3. Id' = Id /\ \A i \in Id : parent'[i] = (IF i = sought THEN cur ELSE parent[i])
  BY <1>1, <1>2, ReparentTypes
<1>4. \A i \in Id : i < sought + 1 <=> i < sought \/ i = sought
  BY <1>1, Ids
<1>5. \A i \in Id : i < sought => i # sought
  BY <1>1, Ids
<1>6. ASSUME NEW r PROVE Passed(r)' = (IF r = cur THEN Passed(r) \cup {sought} ELSE Passed(r))
  BY <1>1, <1>2, <1>3, <1>4, <1>5 DEF Passed
<1>7. counts \in [Id -> Nat] /\ Enumerates(roots, Met) /\ \A r \in Id : counts[r] = Cardinality(Passed(r))
  BY <1>1 DEF Counted, TypeInv, TypeOK
<1>8. \A r \in Id : counts'[r] = Cardinality(Passed(r)')
  BY <1>1, <1>2, <1>6, <1>7, OneMore
<1>9. {r \in Id : Passed(r)' # {}} = Met \cup {cur}
  BY <1>1, <1>6
<1>10. counts[cur] = 0 <=> cur \notin Met
  BY <1>1, <1>7, PassedFinite
<1> HIDE DEF Met
<1>11. Enumerates(roots', Met \cup {cur})
  <2>1. CASE cur \in Met
    <3>1. Met \cup {cur} = Met /\ roots' = roots
      BY <1>2, <1>10, <2>1
    <3> QED BY <1>7, <3>1
  <2>2. CASE cur \notin Met
    <3>1. roots' = Append(roots, cur) /\ roots \in Seq(Met \cup {cur})
      BY <1>2, <1>7, <1>10, <2>2 DEF Enumerates
    <3>2. /\ roots' \in Seq(Met \cup {cur}) /\ Len(roots) \in Nat /\ DOMAIN roots = 1..Len(roots)
          /\ DOMAIN roots' = 1..(Len(roots) + 1) /\ roots'[Len(roots) + 1] = cur
          /\ \A k \in 1..Len(roots) : roots'[k] = roots[k]
      BY <3>1, AppendProperties
    <3>3. \A k \in 1..Len(roots) : roots[k] \in Met
      BY <1>7, <3>2 DEF Enumerates
    <3>4. \A k, l \in DOMAIN roots' : roots'[k] = roots'[l] => k = l
      BY <1>7, <2>2, <3>2, <3>3 DEF Enumerates
    <3>5. \A r \in Met \cup {cur} : \E k \in DOMAIN roots' : roots'[k] = r
      BY <1>7, <3>2 DEF Enumerates
    <3> QED BY <3>2, <3>4, <3>5 DEF Enumerates
  <2> QED BY <2>1, <2>2
<1>12. sought + 1 \notin Id => \A i \in Id : i < sought + 1
  BY <1>1, Ids
<1> QED BY <1>2, <1>3, <1>8, <1>9, <1>11, <1>12 DEF Counted

LEMMA SortRootsCounted == TypeInv /\ Flat /\ Counted /\ SortRoots => Counted'
<1> SUFFICES ASSUME TypeInv, Flat, Counted, SortRoots PROVE Counted'
  OBVIOUS
<1> DEFINE key == [k \in DOMAIN roots |-> names[roots[k]]]
           order == InOrder(DOMAIN roots, key)
           n == Cardinality(DOMAIN roots)
<1>1. /\ pc = "sort" /\ pc' = "sum" /\ sought' = 1 /\ names' = names /\ parent' = parent
      /\ counts' = counts /\ roots' = [k \in DOMAIN order |-> roots[order[k]]]
      /\ offsets' = [i \in 1..(Len(names) + 1) |-> 0]
  BY DEF SortRoots, Begin, forest
<1>2. \A r : Passed(r) = Group(r)
  BY <1>1 DEF Counted, Passed, Group
<1>3. {r \in Id : Passed(r) # {}} = Roots
  BY <1>1, <1>2 DEF Flat, Group, Roots
<1>4. Enumerates(roots, Roots) /\ \A r \in Id : counts[r] = Cardinality(Group(r))
  BY <1>1, <1>2, <1>3 DEF Counted
<1>5. DOMAIN roots = 1..Len(roots) /\ Len(roots) \in Nat /\ \A k \in DOMAIN roots : roots[k] \in Roots
  BY <1>4 DEF Enumerates
<1>6. \A r \in Roots : names[r] \in Nat /\ \A q \in Roots : names[r] = names[q] => r = q
  BY ForestTypes, AliasAssumption DEF Roots
<1>7. Keyed(DOMAIN roots, key)
  <2>1. IsFiniteSet(1..Len(roots))
    BY <1>5, FS_Interval
  <2>2. \A k, l \in DOMAIN roots : roots[k] = roots[l] => k = l
    BY <1>4 DEF Enumerates
  <2> QED BY <1>5, <1>6, <2>1, <2>2 DEF Keyed
<1>8. /\ n \in Nat /\ DOMAIN order = 1..n
      /\ \A k \in 1..n : order[k] \in DOMAIN roots
      /\ \A x \in DOMAIN roots : \E k \in 1..n : order[k] = x
      /\ \A k, l \in 1..n : k < l => key[order[k]] < key[order[l]]
  <2> HIDE DEF key
  <2> QED BY <1>7, InOrderSorts
<1>9. Sorted({key[k] : k \in DOMAIN roots}) = [k \in DOMAIN order |-> key[order[k]]]
  <2> HIDE DEF key
  <2> QED BY <1>7, KeysInOrder
<1>10. \A x \in DOMAIN roots : key[x] = names[roots[x]] /\ key[x] \in Nat
  BY <1>5, <1>6
<1>11. {key[k] : k \in DOMAIN roots} = {names[r] : r \in Roots}
  BY <1>4, <1>5 DEF Enumerates
<1> HIDE DEF order, n, key
<1>12. DOMAIN roots' = 1..n /\ \A k \in 1..n : roots'[k] = roots[order[k]] /\ roots'[k] \in Roots
  BY <1>1, <1>5, <1>8
<1>13. Sorted({names[r] : r \in Roots}) = [k \in DOMAIN roots' |-> names[roots'[k]]]
  <2>1. \A k \in 1..n : key[order[k]] = names[roots'[k]]
    BY <1>8, <1>10, <1>12
  <2>2. [k \in DOMAIN order |-> key[order[k]]] = [k \in DOMAIN roots' |-> names[roots'[k]]]
    BY <1>8, <1>12, <2>1
  <2> QED BY <1>9, <1>11, <2>2
<1>14. Enumerates(roots', Roots)
  <2>1. roots' \in Seq(Roots)
    <3>1. roots' = [k \in 1..n |-> roots[order[k]]]
      BY <1>1, <1>8
    <3> QED BY <1>5, <1>8, <3>1, IsASeq
  <2>2. ASSUME NEW k \in 1..n, NEW l \in 1..n, roots'[k] = roots'[l] PROVE k = l
    <3>1. order[k] = order[l]
      BY <1>4, <1>8, <1>12, <2>2 DEF Enumerates
    <3>2. key[order[k]] \in Nat
      BY <1>8, <1>10
    <3> QED BY <1>8, <3>1, <3>2
  <2>3. \A r \in Roots : \E k \in 1..n : roots'[k] = r
    BY <1>4, <1>8, <1>12 DEF Enumerates
  <2> QED BY <1>12, <2>1, <2>2, <2>3 DEF Enumerates
<1>15. /\ Id' = Id /\ Roots' = Roots
       /\ \A r : Offset(r)' = Offset(r) /\ Group(r)' = Group(r)
  BY <1>1, SamePlaces
<1>16. Offset(1) = 0
  <2>1. {i \in Id : parent[i] < 1} = {}
    BY Ids
  <2> QED BY <2>1, FS_EmptySet DEF Offset
<1>17. \A i \in 1..sought' : offsets'[i] = Offset(i)'
  BY <1>1, <1>15, <1>16, Ids
<1>18. \A i \in Id : ~(i < 1)
  BY Ids
<1>19. 1 \in 1..(Len(names) + 1)
  BY Ids
<1> QED BY <1>1, <1>4, <1>13, <1>14, <1>15, <1>17, <1>18, <1>19 DEF Counted

LEMMA SumCountCounted == TypeInv /\ Counted /\ SumCount => Counted'
<1> SUFFICES ASSUME TypeInv, Counted, SumCount PROVE Counted'
  OBVIOUS
<1>1. /\ pc = "sum" /\ pc' = "sum" /\ sought \in Id /\ sought' = sought + 1
      /\ UNCHANGED <<names, parent, roots>>
      /\ offsets' = [offsets EXCEPT ![sought + 1] = offsets[sought] + counts[sought]]
      /\ counts' = [counts EXCEPT ![sought] = offsets[sought]]
  BY DEF SumCount, Turn, forest
<1>2. /\ Id' = Id /\ Roots' = Roots
      /\ \A r : Offset(r)' = Offset(r) /\ Group(r)' = Group(r)
  BY <1>1, SamePlaces
<1>3. /\ counts \in [Id -> Nat] /\ offsets \in [1..(Len(names) + 1) -> Nat]
      /\ \A i \in 1..sought : offsets[i] = Offset(i)
      /\ \A i \in Id : counts[i] = IF i < sought THEN Offset(i) ELSE Cardinality(Group(i))
  BY <1>1 DEF Counted, TypeInv, TypeOK
<1>4. Len(names) \in Nat /\ Id = 1..Len(names)
  BY Ids
<1>5. offsets[sought] = Offset(sought) /\ counts[sought] = Cardinality(Group(sought))
  BY <1>1, <1>3, <1>4
<1>6. Offset(sought + 1) = Offset(sought) + Cardinality(Group(sought))
  BY <1>1, Slices
<1>7. \A i \in 1..sought' : offsets'[i] = Offset(i)
  BY <1>1, <1>3, <1>4, <1>5, <1>6
<1>8. \A i \in Id : counts'[i] = IF i < sought' THEN Offset(i) ELSE Cardinality(Group(i))
  BY <1>1, <1>3, <1>4, <1>5
<1>9. sought' \in 1..(Len(names) + 1)
  BY <1>1, <1>4
<1> QED BY <1>1, <1>2, <1>7, <1>8, <1>9 DEF Counted

LEMMA SumEndCounted == TypeInv /\ Counted /\ SumEnd => Counted'
<1> SUFFICES ASSUME TypeInv, Counted, SumEnd PROVE Counted'
  OBVIOUS
<1>1. /\ pc = "sum" /\ pc' = "fill" /\ sought \notin Id /\ sought' = 1
      /\ UNCHANGED <<names, parent, roots, counts, offsets>>
  BY DEF SumEnd, Begin, forest
<1>2. /\ Id' = Id /\ Roots' = Roots
      /\ \A r : Offset(r)' = Offset(r) /\ Group(r)' = Group(r)
  BY <1>1, SamePlaces
<1>3. Len(names) \in Nat /\ Id = 1..Len(names) /\ sought \in 1..(Len(names) + 1)
  BY <1>1, Ids DEF Counted
<1>4. sought = Len(names) + 1
  BY <1>1, <1>3
<1>5. \A i \in 1..(Len(names) + 1) : offsets[i] = Offset(i)
  BY <1>1, <1>4 DEF Counted
<1>6. ASSUME NEW r \in Id PROVE counts[r] = Offset(r) + Cardinality(Passed(r)')
  <2>1. Passed(r)' = {}
    BY <1>1, <1>2, <1>3 DEF Passed
  <2>2. r < sought
    BY <1>3, <1>4
  <2>3. counts[r] = Offset(r) /\ Offset(r) \in Nat
    BY <1>1, <2>2, Slices DEF Counted
  <2>4. Cardinality(Passed(r)') = 0
    BY <2>1, FS_EmptySet
  <2> QED BY <2>3, <2>4
<1>7. (\A i \in Id : ~(i < 1)) /\ 1 \in 1..(Len(names) + 1)
  BY <1>3
<1> QED BY <1>1, <1>2, <1>5, <1>6, <1>7 DEF Counted

LEMMA PutCounted == TypeInv /\ Counted /\ Put => Counted'
<1> SUFFICES ASSUME TypeInv, Counted, Put PROVE Counted'
  OBVIOUS
<1> DEFINE root == parent[sought]
<1>1. /\ pc = "fill" /\ pc' = "fill" /\ sought \in Id /\ sought' = sought + 1
      /\ UNCHANGED <<names, parent, roots, offsets>>
      /\ members' = [members EXCEPT ![counts[root] + 1] = sought]
      /\ counts' = [counts EXCEPT ![root] = @ + 1]
  BY DEF Put, PutMember, Turn, forest
<1>2. /\ Id' = Id /\ Roots' = Roots
      /\ \A r : Offset(r)' = Offset(r) /\ Group(r)' = Group(r)
      /\ \A i : Position(i)' = Position(i)
  BY <1>1, SamePlaces
<1>3. Len(names) \in Nat /\ Id = 1..Len(names) /\ root \in Id
  BY <1>1, Ids
<1>4. /\ counts \in [Id -> Nat] /\ members \in [Id -> Id]
      /\ \A r \in Id : counts[r] = Offset(r) + Cardinality(Passed(r))
      /\ \A i \in Id : i < sought => members[Position(i)] = i
  BY <1>1 DEF Counted, TypeInv, TypeOK
<1>5. ASSUME NEW r PROVE Passed(r)' = (IF r = root THEN Passed(r) \cup {sought} ELSE Passed(r))
  <2>1. \A i \in Id : i < sought + 1 <=> i < sought \/ i = sought
    BY <1>1, <1>3
  <2> QED BY <1>1, <1>2, <2>1 DEF Passed
<1>6. UpTo(sought) = Passed(root) \cup {sought}
  BY <1>1, <1>3 DEF UpTo, Passed
<1>7. \A r \in Id : Offset(r) \in Nat /\ Cardinality(Passed(r)) \in Nat
  BY Slices, PassedFinite
<1> HIDE DEF root
<1>8. Cardinality(Passed(root) \cup {sought}) = Cardinality(Passed(root)) + 1
  BY <1>1, OneMore
<1>9. Position(sought) = counts[root] + 1
  <2>1. Position(sought) = Offset(root) + Cardinality(UpTo(sought))
    BY DEF Position, UpTo, root
  <2> QED BY <1>3, <1>4, <1>6, <1>7, <1>8, <2>1
<1>10. \A r \in Id : counts'[r] = Offset(r) + Cardinality(Passed(r)')
  <2> SUFFICES ASSUME NEW r \in Id PROVE counts'[r] = Offset(r) + Cardinality(Passed(r)')
    OBVIOUS
  <2>1. CASE r = root
    <3>1. counts'[root] = counts[root] + 1 /\ counts[root] = Offset(root) + Cardinality(Passed(root))
      BY <1>1, <1>3, <1>4
    <3>2. Cardinality(Passed(r)') = Cardinality(Passed(root)) + 1
      BY <1>5, <1>8, <2>1
    <3> QED BY <1>3, <1>7, <2>1, <3>1, <3>2
  <2>2. CASE r # root
    BY <1>1, <1>4, <1>5, <2>2
  <2> QED BY <2>1, <2>2
<1>11. ASSUME NEW i \in Id, i < sought' PROVE members'[Position(i)] = i
  <2>1. Position(i) \in Id /\ (Position(i) = Position(sought) => i = sought)
    BY <1>1, <1>3, Places
  <2>2. CASE i = sought
    BY <1>1, <1>4, <1>9, <2>1, <2>2
  <2>3. CASE i # sought
    <3>1. i < sought
      BY <1>1, <1>3, <1>11, <2>3
    <3> QED BY <1>1, <1>4, <1>9, <2>1, <2>3, <3>1
  <2> QED BY <2>2, <2>3
<1>12. sought' \in 1..(Len(names) + 1)
  BY <1>1, <1>3
<1> QED BY <1>1, <1>2, <1>10, <1>11, <1>12 DEF Counted

LEMMA CountedStep == TypeInv /\ Flat /\ Counted /\ [Next]_vars => Counted'
<1> SUFFICES ASSUME TypeInv, Flat, Counted, [Next]_vars PROVE Counted'
  OBVIOUS
<1>1. CASE Finish
  BY <1>1, FinishCounted
<1>2. CASE Halve
  BY <1>2, HalveCounted
<1>3. CASE Flattened
  BY <1>3, FlattenedCounted
<1>4. CASE Arrange
  <2>1. CASE Layout
    BY <2>1 DEF Layout, Counted
  <2> QED BY <1>4, <2>1, SortRootsCounted, SumCountCounted, SumEndCounted, PutCounted DEF Arrange
<1>5. CASE \E n \in Name, k \in 0..(MaxAliases - 1) : \E request \in [1..k -> Name] : Union(n, request)
  BY <1>5 DEF Union, Counted
<1>6. CASE NextAlias \/ UnionEnd \/ FoundFirst \/ Link
  <2>1. pc' \in {"next", "idle", "linked"}
    BY <1>6 DEF NextAlias, UnionEnd, FoundFirst, Link, LinkRoots
  <2> QED BY <2>1 DEF Counted
<1>7. CASE UNCHANGED vars
  <2>1. UNCHANGED <<names, parent, pc, sought, counts, roots, offsets, members>>
    BY <1>7 DEF vars, forest, walk, out, tables
  <2>2. /\ Id' = Id /\ Roots' = Roots
        /\ \A r : Offset(r)' = Offset(r) /\ Group(r)' = Group(r)
        /\ \A i : Position(i)' = Position(i)
    BY <2>1, SamePlaces
  <2>3. \A r : Passed(r)' = Passed(r)
    BY <2>1, <2>2 DEF Passed
  <2>4. CASE pc \in {"flatten", "sort"}
    <3>1. {r \in Id' : Passed(r)' # {}} = {r \in Id : Passed(r) # {}}
      BY <2>2, <2>3
    <3> QED BY <2>1, <2>2, <2>3, <2>4, <3>1 DEF Counted
  <2>5. CASE pc = "sum"
    BY <2>1, <2>2, <2>5 DEF Counted
  <2>6. CASE pc = "fill"
    BY <2>1, <2>2, <2>3, <2>6 DEF Counted
  <2> QED BY <2>1, <2>4, <2>5, <2>6 DEF Counted
<1> QED BY <1>1, <1>2, <1>3, <1>4, <1>5, <1>6, <1>7 DEF Next, Stopped

\* When the last loop begins, the slice of an id holds the ids right below it.
LEMMA CountingSort ==
  ASSUME TypeInv, Counted, pc = "fill", sought \notin Id, NEW r \in Id
  PROVE  Slice(r) = Group(r)
<1> DEFINE slice == (Offset(r) + 1)..Offset(r + 1)
<1>1. Len(names) \in Nat /\ Id = 1..Len(names) /\ sought \in 1..(Len(names) + 1)
  BY Ids DEF Counted
<1>2. \A i \in Id : members[Position(i)] = i
  BY <1>1 DEF Counted
<1>3. Slice(r) = {members[p] : p \in slice}
  <2>1. r \in 1..(Len(names) + 1) /\ r + 1 \in 1..(Len(names) + 1)
    BY <1>1
  <2>2. offsets[r] = Offset(r) /\ offsets[r + 1] = Offset(r + 1)
    BY <2>1 DEF Counted
  <2> QED BY <2>2 DEF Slice
<1>4. ASSUME NEW p \in Id PROVE members[p] \in Id /\ Position(members[p]) = p
  <2>1. PICK i \in Id : Position(i) = p
    BY <1>1, Places
  <2> QED BY <1>2, <2>1
<1>5. slice \in SUBSET Id
  <2>1. Offset(r) \in Nat /\ Offset(r + 1) \in Nat /\ Offset(r + 1) <= Len(names) /\ Len(names) \in Nat
    BY Ids, Slices
  <2> QED BY <2>1, Ids
<1>6. ASSUME NEW i \in Id, parent[i] = r PROVE \E p \in slice : members[p] = i
  <2>1. Position(i) \in slice
    BY <1>6, Places
  <2> QED BY <1>2, <2>1
<1>7. ASSUME NEW p \in slice PROVE members[p] \in Id /\ parent[members[p]] = r
  <2> DEFINE i == members[p]
             q == parent[i]
  <2>1. i \in Id /\ Position(i) = p
    BY <1>4, <1>5
  <2> HIDE DEF i
  <2>2. q \in Id /\ q \in Nat /\ r \in Nat
    BY <2>1, Ids
  <2>3. p \in (Offset(q) + 1)..Offset(q + 1)
    BY <2>1, Places
  <2> HIDE DEF q
  <2>4. /\ Offset(q) \in Nat /\ Offset(q + 1) \in Nat /\ Offset(r) \in Nat /\ Offset(r + 1) \in Nat
        /\ q < r => Offset(q + 1) <= Offset(r)
        /\ r < q => Offset(r + 1) <= Offset(q)
    BY <2>2, Slices
  <2>5. q = r
    BY <2>2, <2>3, <2>4
  <2> QED BY <2>1, <2>5 DEF i, q
<1> QED BY <1>3, <1>6, <1>7 DEF Group

(***************************************************************************)
(* The report                                                              *)
(***************************************************************************)
\* The groups of a flat forest are the components of what was asked, and the root
\* of each is the best of it.
LEMMA FlatGroups ==
  ASSUME TypeInv, ParentPreferred, \A S : Groups(S), \A i \in Id : parent[i] \in Roots
  PROVE  /\ \A i \in Id : Component(i) = Group(parent[i])
         /\ \A r \in Roots : BestOf(Group(r)) = r
<1>1. \A i \in Id : parent[i] \in Id
  BY ForestTypes
<1>2. ASSUME NEW S PROVE ClosedUnder(asked, S) <=> Respects(S)
  BY DEF Groups
<1>3. ASSUME NEW i \in Id PROVE Component(i) = Group(parent[i])
  <2> DEFINE g == Group(parent[i])
  <2>1. Respects(g) /\ g \in SUBSET Id /\ i \in g
    BY <1>1 DEF Respects, Keeps, Group, Roots
  <2>2. ASSUME NEW j \in g, NEW S \in SUBSET Id, Respects(S), i \in S PROVE j \in S
    BY <2>2 DEF Respects, Keeps, Group
  <2> HIDE DEF g
  <2>3. Component(i) \in SUBSET g
    BY <1>2, <2>1 DEF Component
  <2>4. g \in SUBSET Component(i)
    BY <1>2, <2>1, <2>2 DEF Component
  <2> QED BY <2>3, <2>4 DEF g
<1>4. ASSUME NEW r \in Roots PROVE BestOf(Group(r)) = r
  <2> DEFINE Best(i) == \A j \in Group(r) \ {i} : Preferred(names[i], names[j])
  <2>1. r \in Group(r) /\ Group(r) \in SUBSET Id
    BY DEF Group, Roots
  <2>2. Best(r)
    BY DEF Group, ParentPreferred
  <2>3. ASSUME NEW i \in Group(r), Best(i) PROVE i = r
    <3>1. i # r => Preferred(names[i], names[r]) /\ Preferred(names[r], names[i])
      BY <2>1, <2>2, <2>3
    <3>2. names[i] \in Name /\ names[r] \in Name
      BY <2>1, ForestTypes
    <3> HIDE DEF Best
    <3> QED BY <3>1, <3>2, PreferredOrder
  <2>4. BestOf(Group(r)) = CHOOSE i \in Group(r) : Best(i)
    BY DEF BestOf
  <2> HIDE DEF Best
  <2> QED BY <2>1, <2>2, <2>3, <2>4
<1> QED BY <1>3, <1>4

\* What ReportIsCanonical says of a report.
Components == {Component(i) : i \in Id}
Ordered == Sorted({names[BestOf(g)] : g \in Components})
Tells(vulnerability, g) ==
  /\ vulnerability.id = names[BestOf(g)]
  /\ vulnerability.aliases = Sorted({names[i] : i \in g \ {BestOf(g)}})
Canonical(vs, bs) ==
  /\ [v \in DOMAIN vs |-> vs[v].id] = Ordered
  /\ \A g \in Components : \E v \in DOMAIN vs : Tells(vs[v], g) /\ \A i \in g : bs[i] = v

LEMMA LayoutCanonical ==
  ASSUME TypeInv, ParentPreferred, \A S : Groups(S), Flat, Counted, Layout
  PROVE  Canonical(vulnerabilities', byAlias')
<1> DEFINE n == Len(roots)
<1>1. pc = "fill" /\ sought \notin Id /\ \A i \in Id : parent[i] \in Roots
  BY DEF Layout, Flat
<1>2. /\ \A i \in Id : Component(i) = Group(parent[i])
      /\ \A r \in Roots : BestOf(Group(r)) = r
  BY <1>1, FlatGroups
<1>3. \A r \in Id : Slice(r) = Group(r)
  BY <1>1, CountingSort
<1>4. Enumerates(roots, Roots)
  BY <1>1 DEF Counted
<1>5. /\ vulnerabilities' =
           [v \in DOMAIN roots |->
              [id |-> names[roots[v]],
               aliases |-> Sorted({names[i] : i \in Slice(roots[v]) \ {roots[v]}})]]
      /\ byAlias' = [i \in Id |-> CHOOSE v \in Holders(i) \cup {1} : \A w \in Holders(i) : w <= v]
  BY DEF Layout
<1>7. /\ n \in Nat /\ DOMAIN roots = 1..n
      /\ \A k \in 1..n : roots[k] \in Roots
      /\ \A r \in Roots : \E k \in 1..n : roots[k] = r
  BY <1>4 DEF Enumerates
<1>8. Sorted({names[r] : r \in Roots}) = [k \in DOMAIN roots |-> names[roots[k]]]
  BY <1>1 DEF Counted
<1>9. \A k, l \in 1..n : roots[k] = roots[l] => k = l
  BY <1>4, <1>7 DEF Enumerates
<1> HIDE DEF n
<1>10. \A g : g \in Components <=> \E r \in Roots : g = Group(r)
  BY <1>1, <1>2 DEF Roots, Components
<1>11. {names[BestOf(g)] : g \in Components} = {names[r] : r \in Roots}
  BY <1>2, <1>10
<1>12. [v \in DOMAIN vulnerabilities' |-> vulnerabilities'[v].id] = Ordered
  BY <1>5, <1>8, <1>11 DEF Ordered
<1>13. ASSUME NEW g \in Components
       PROVE  \E v \in DOMAIN vulnerabilities' :
                Tells(vulnerabilities'[v], g) /\ \A i \in g : byAlias'[i] = v
  <2>1. PICK r \in Roots : g = Group(r)
    BY <1>10
  <2>2. PICK v \in 1..n : roots[v] = r
    BY <1>7
  <2>3. r \in Id /\ BestOf(g) = r /\ Slice(roots[v]) = g
    BY <1>2, <1>3, <2>1, <2>2 DEF Roots
  <2>4. vulnerabilities'[v] = [id |-> names[r], aliases |-> Sorted({names[i] : i \in g \ {r}})]
    BY <1>5, <1>7, <2>2, <2>3
  <2>5. v \in DOMAIN vulnerabilities'
    BY <1>5, <1>7
  <2>6. ASSUME NEW i \in g PROVE byAlias'[i] = v
    <3>1. i \in Id /\ parent[i] = r
      BY <2>1 DEF Group
    <3>2. ASSUME NEW w \in 1..n PROVE i \in Slice(roots[w]) <=> w = v
      <4>1. roots[w] \in Roots /\ roots[w] \in Id
        BY <1>7 DEF Roots
      <4>2. i \in Slice(roots[w]) <=> roots[w] = r
        BY <1>3, <3>1, <4>1 DEF Group
      <4> QED BY <1>9, <2>2, <4>2
    <3>3. Holders(i) = {v}
      BY <1>7, <3>2 DEF Holders
    <3>4. byAlias'[i] = CHOOSE w \in {v, 1} : v <= w
      <4>1. byAlias'[i] = CHOOSE w \in Holders(i) \cup {1} : \A x \in Holders(i) : x <= w
        BY <1>5, <3>1
      <4>2. Holders(i) \cup {1} = {v, 1} /\ \A w : (\A x \in Holders(i) : x <= w) <=> v <= w
        BY <3>3
      <4> QED BY <4>1, <4>2
    <3>5. \A w \in {v, 1} : v <= w <=> w = v
      BY <1>7
    <3> QED BY <3>4, <3>5
  <2>7. Tells(vulnerabilities'[v], g)
    BY <2>3, <2>4 DEF Tells
  <2> QED BY <2>5, <2>6, <2>7
<1> QED BY <1>12, <1>13 DEF Canonical

LEMMA SameReport ==
  ASSUME NEW vs, NEW bs, names' = names, asked' = asked
  PROVE  Canonical(vs, bs)' <=> Canonical(vs, bs)
<1>1. Id' = Id
  BY DEF Id
<1>2. \A i : Component(i)' = Component(i)
  BY <1>1 DEF Component, ClosedUnder
<1>3. \A g : BestOf(g)' = BestOf(g)
  BY DEF BestOf
<1>4. Components' = Components
  BY <1>1, <1>2 DEF Components
<1>5. Ordered' = Ordered
  BY <1>3, <1>4 DEF Ordered
<1>6. \A vulnerability, g : Tells(vulnerability, g)' <=> Tells(vulnerability, g)
  BY <1>3 DEF Tells
<1> QED BY <1>4, <1>5, <1>6 DEF Canonical

\* The vulnerabilities of the report are a function of what was asked and not of the
\* order it was asked in, and each alias leads to that of its own group (go/store.go
\* 290 to 343).
THEOREM ReportsAreCanonical == Spec => []ReportIsCanonical
<1> DEFINE GroupsInv == \A S : Groups(S)
<1>1. Init => TypeInv /\ Ascending /\ GroupsInv /\ Flat /\ Counted /\ ReportIsCanonical
  BY TypeInit DEF Init, Ascending, ParentPreferred, Groups, Respects, ClosedUnder, Walking, Id,
                  Flat, Counted, ReportIsCanonical
<1>2. TypeInv /\ Ascending /\ GroupsInv /\ Flat /\ Counted /\ [Next]_vars
      => TypeInv' /\ Ascending' /\ GroupsInv' /\ Flat' /\ Counted'
  BY TypeStep, AscendingStep, GroupsStep, FlatStep, CountedStep
<1>3. TypeInv /\ Ascending /\ GroupsInv /\ Flat /\ Counted /\ ReportIsCanonical /\ [Next]_vars
      => ReportIsCanonical'
  <2> SUFFICES ASSUME TypeInv, Ascending, GroupsInv, Flat, Counted, ReportIsCanonical, [Next]_vars, pc' = "done"
               PROVE  Canonical(vulnerabilities, byAlias)'
    BY DEF ReportIsCanonical, Canonical, Tells, Ordered, Components
  <2>1. CASE Layout
    <3>1. Canonical(vulnerabilities', byAlias')
      BY <2>1, LayoutCanonical DEF Ascending
    <3>2. names' = names /\ asked' = asked
      BY <2>1 DEF Layout, forest, history
    <3> QED BY <3>1, <3>2, SameReport
  <2>2. CASE UNCHANGED vars
    <3>1. names' = names /\ asked' = asked /\ pc = "done"
          /\ vulnerabilities' = vulnerabilities /\ byAlias' = byAlias
      BY <2>2 DEF vars, forest, walk, history, out
    <3>2. Canonical(vulnerabilities, byAlias)
      BY <3>1 DEF ReportIsCanonical, Canonical, Tells, Ordered, Components
    <3> QED BY <3>1, <3>2, SameReport
  <2>3. CASE Next /\ ~Layout /\ ~Stopped
    <3>1. pc' # "done"
      BY <2>3 DEF Next, Arrange, SortRoots, SumCount, SumEnd, Put, PutMember, Begin, Turn, Union,
                  NextAlias, UnionEnd, Halve, HalveTo, FoundFirst, RootFound, Link, LinkRoots, Finish, Flatten, Flattened
    <3> QED BY <3>1
  <2> QED BY <2>1, <2>2, <2>3 DEF Stopped
<1> QED BY <1>1, <1>2, <1>3, PTL DEF Spec
=============================================================================
