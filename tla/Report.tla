------------------------------- MODULE Report -------------------------------
(***************************************************************************)
(* How the results of a batch's scans, in input order, become the tables   *)
(* of one report: the licence filter after a scan (go/bridge.go), the      *)
(* projection of a response and the builder (go/store.go), the canonical   *)
(* forms of lists (go/report.go).  The facts of a response reach the       *)
(* builder in one of two ways: straight from the projection (add), or      *)
(* recorded in a pending image when the response came early, and replayed  *)
(* later with all unions first (merge).                                    *)
(*                                                                         *)
(* A text is a number that stands for its place in the order of strings; 0 *)
(* is the empty one.  Rows are counted from 1.  Fixes are modelled in      *)
(* FixEvidence, here they depend on whether the advisory has an entry for  *)
(* the package.  The union-find is that of AliasGroups, here only the      *)
(* names that were joined.                                                 *)
(***************************************************************************)
EXTENDS Naturals, Sequences, FiniteSets, SequencesExt

CONSTANTS
  Result,      \* what the scans of images may end with
  NoPolicy,    \* the request has no licence allowlist
  Allowlist,   \* the allowlists of requests; an empty one allows nothing
  MaxImages,   \* bound: the images of the batch
  CVE          \* the names with the prefix "CVE-"

\* What osv-scanner says of an image: packages with the groups of advisories that it
\* made for them.  A package is known by what identifies it; signals says that its
\* inventory has exploitability signals.  The diagnostics about the whole response and
\* about its sources are given with it.
Group == [ids : Seq(Nat), aliases : Seq(Nat), analysed : SUBSET Nat, called : SUBSET Nat,
          severity : Nat]
Advisory == [id : Nat, aliases : Seq(Nat), severities : Seq(Nat), references : Seq(Nat),
             affects : SUBSET STRING]
Package == [package : STRING, licenses : Seq(Nat), violations : Seq(Nat), groups : Seq(Group),
            advisories : Seq(Advisory), source : Nat, location : Nat, layer : Nat,
            depGroups : Seq(Nat), deprecated : BOOLEAN, signals : BOOLEAN]
Scan == [failed : {FALSE}, packages : Seq(Package), metadata : BOOLEAN, layers : Seq(Nat),
         unsupported : Seq(STRING)]

ASSUME ReportAssumption ==
  /\ MaxImages \in Nat /\ CVE \subseteq Nat
  /\ Result \subseteq [failed : {TRUE}] \cup Scan

VARIABLES
  options,     \* the request's allPackages and its allowlist
  pc,          \* idle, project (inside add or merge), finished, panic
  todo,        \* the calls of the sink that add or merge has yet to make
  current,     \* the image row that is appended at the end of add or merge
  addresses,   \* b.imageAdvisories: the advisory row of an advisory in memory
  images, packages, contexts, licenses,            \* b.report's tables of values
  advisories, fixes, assessments,
  occurrences, findings,                           \* and of rows that refer to them
  joined,      \* the names that each call of union joined
  vulnerabilities, vulnerabilityOf,   \* the names of the vulnerabilities, and
                                      \* b.report.AdvisoryVulnerabilities
  results      \* the results of the images so far

values == <<packages, contexts, licenses, advisories, fixes, assessments>>
tables == <<values, occurrences, findings>>
aliases == <<joined, vulnerabilities, vulnerabilityOf>>
vars == <<options, pc, todo, current, addresses, images, tables, aliases, results>>

Policy == options.allowed # NoPolicy

\* The members of a set of numbers in order: the k-th has k - 1 below it.
Sorted(set) ==
  [k \in 1..Cardinality(set) |-> CHOOSE x \in set : Cardinality({y \in set : y < x}) = k - 1]

\* The elements of a sequence at some places, and each value where it comes first.
Keep(s, places) == LET at == Sorted(places) IN [k \in DOMAIN at |-> s[at[k]]]
Firsts(s) == Keep(s, {i \in DOMAIN s : \A j \in 1..(i - 1) : s[j] # s[i]})

(***************************************************************************)
(* executeContext, after the scan                                          *)
(***************************************************************************)
\* Under an allowlist the scanner reports the licences it does not hold; with an
\* empty one every licence is a violation.
Violations(p) ==
  IF ~Policy THEN << >>
  ELSE IF options.allowed = {} THEN p.licenses
  ELSE Keep(p.licenses, {i \in DOMAIN p.licenses : p.licenses[i] \notin options.allowed})

Evaluated(p) == [p EXCEPT !.violations = Violations(p)]

\* Mutant: a package without licences is deleted, too.
MutantDeleted(p) ==
  Policy /\ ~options.allPackages /\ p.advisories = << >> /\ p.violations = << >>

Deleted(p) ==
  /\ Policy /\ ~options.allPackages
  /\ p.advisories = << >> /\ p.violations = << >> /\ p.licenses # << >>

Response(r) ==
  IF r.failed THEN r
  ELSE LET found == [i \in DOMAIN r.packages |-> Evaluated(r.packages[i])]
       IN [r EXCEPT !.packages = Keep(found, {i \in DOMAIN found : ~Deleted(found[i])})]

(***************************************************************************)
(* projectImage                                                            *)
(***************************************************************************)
Selected(p) ==
  \/ options.allPackages
  \/ p.advisories # << >>
  \/ p.violations # << >>
  \/ Policy /\ p.licenses = << >>

\* unique, canonicalSeverities: sorted, and each value once.
Unique(s) == Sorted(Range(s))

LicenseRow(p) ==
  [status |-> IF ~Policy THEN "not_evaluated"
              ELSE IF p.licenses = << >> THEN "unknown"
              ELSE IF p.violations # << >> THEN "noncompliant" ELSE "compliant",
   licenses |-> Unique(p.licenses), violations |-> Unique(p.violations)]

\* The layer of a package, if the image has one for its index.
HasLayer(r, p) == p.layer \in DOMAIN r.layers
ContextRow(r, p) ==
  [path  |-> IF p.location # 0 THEN p.location ELSE p.source,
   layer |-> IF HasLayer(r, p) THEN r.layers[p.layer] ELSE 0,
   groups |-> Unique(p.depGroups)]

ProjectAdvisory(a) ==
  [id |-> a.id, aliases |-> Unique(a.aliases), severities |-> Unique(a.severities),
   references |-> Unique(a.references)]

FixRow(p, a) ==
  IF p.package \in a.affects
  THEN [status |-> "reported", versions |-> <<a.id>>, severities |-> Unique(a.severities)]
  ELSE [status |-> "unknown", versions |-> << >>, severities |-> << >>]

\* groupsByID: the groups that name an advisory, one more time for each repetition.
Linked(p, a) ==
  LET Times(g) == Cardinality({i \in DOMAIN g.ids : g.ids[i] = a.id})
  IN FlattenSeq([g \in DOMAIN p.groups |-> [i \in 1..Times(p.groups[g]) |-> g]])

AssessmentRow(p, a, g) ==
  [called   |-> IF a.id \notin p.groups[g].analysed THEN "missing"
                ELSE IF a.id \in p.groups[g].called THEN "true" ELSE "false",
   severity |-> p.groups[g].severity]
NoAssessment == [called |-> "missing", severity |-> 0]

\* The calls that one advisory of a package makes: a union of its names and a
\* finding for each group that names it, or one without a group.
AdvisoryCalls(p, a, address) ==
  LET linked == Linked(p, a)
      Call(assessment) == [op |-> "finding", address |-> address, advisory |-> ProjectAdvisory(a),
                           fix |-> FixRow(p, a), assessment |-> assessment]
  IN <<[op |-> "union", names |-> <<a.id>> \o a.aliases]>>
       \o IF linked = << >> THEN <<Call(NoAssessment)>>
          ELSE [i \in DOMAIN linked |-> Call(AssessmentRow(p, a, linked[i]))]

\* The advisories of a response in the order they are met; an advisory lies at one
\* address during the projection, and the addresses are used again by the next.
Met(r) == FlattenSeq([i \in DOMAIN r.packages |-> r.packages[i].advisories])
AddressOf(r, a) == SelectInSeq(Met(r), LAMBDA x : x = a)

PackageCalls(r, p) ==
  IF ~Selected(p) THEN << >>
  ELSE <<[op |-> "occurrence", package |-> p.package, context |-> ContextRow(r, p),
          license |-> LicenseRow(p)]>>
       \o [g \in DOMAIN p.groups |->
             [op |-> "union", names |-> p.groups[g].ids \o p.groups[g].aliases]]
       \o FlattenSeq([i \in DOMAIN p.advisories |->
                        LET a == p.advisories[i]
                        IN IF a.id = 0 THEN << >> ELSE AdvisoryCalls(p, a, AddressOf(r, a))])

Calls(r) ==
  IF r.failed THEN << >>
  ELSE FlattenSeq([i \in DOMAIN r.packages |-> PackageCalls(r, r.packages[i])])

\* The codes of the diagnostics, each of them once, in the order they come up.
When(code, holds) == IF holds THEN <<code>> ELSE << >>
PackageDiagnostics(r, p) ==
  When("unsupported_deprecation", p.deprecated)
    \o IF ~Selected(p) THEN << >>
       ELSE When("unsupported_assessment", p.signals)
              \o When("unknown_layer", r.metadata /\ p.layer # 0 /\ ~HasLayer(r, p))
              \o When("unknown_license", LicenseRow(p).status = "unknown")
              \o FlattenSeq([i \in DOMAIN p.advisories |->
                               LET a == p.advisories[i]
                               IN IF a.id = 0 THEN <<"unsupported_advisory">>
                                  ELSE When("missing_assessment", Linked(p, a) = << >>)])

ImageRow(r) ==
  IF r.failed THEN [status |-> "failed", diagnostics |-> <<"error">>]
  ELSE [status |-> "complete",
        diagnostics |-> Firsts(r.unsupported
                                 \o FlattenSeq([i \in DOMAIN r.packages |->
                                                  PackageDiagnostics(r, r.packages[i])]))]

(***************************************************************************)
(* The builder                                                             *)
(***************************************************************************)
\* table.intern, as the table afterwards and the row of a value in it.
Interned(table, value) == IF Contains(table, value) THEN table ELSE Append(table, value)
RowOf(table, value) == SelectInSeq(table, LAMBDA v : v = value)

Init ==
  /\ options \in [allPackages : BOOLEAN, allowed : Allowlist \cup {NoPolicy}]
  /\ pc = "idle" /\ todo = << >> /\ addresses = << >>
  /\ current = [status |-> "none", diagnostics |-> << >>]
  /\ images = << >> /\ packages = << >> /\ contexts = << >> /\ licenses = << >>
  /\ advisories = << >> /\ fixes = << >> /\ assessments = << >>
  /\ occurrences = << >> /\ findings = << >>
  /\ joined = << >> /\ vulnerabilities = << >> /\ vulnerabilityOf = << >>
  /\ results = << >>

\* add and merge start with an empty memory of advisories.
BeginImage(r) ==
  /\ pc = "idle" /\ Len(images) < MaxImages
  /\ pc' = "project" /\ current' = ImageRow(Response(r)) /\ addresses' = << >>
  /\ results' = Append(results, r)
  /\ UNCHANGED <<options, images, tables, aliases>>

\* add: the projection calls the builder.
Add(r) == BeginImage(r) /\ todo' = Calls(Response(r))

Recorded(r, ops) ==
  LET calls == Calls(Response(r)) IN Keep(calls, {k \in DOMAIN calls : calls[k].op \in ops})

\* Mutant: the findings are replayed after all the occurrences.
MutantMerge(r) ==
  /\ BeginImage(r)
  /\ todo' = Recorded(r, {"union"}) \o Recorded(r, {"occurrence"}) \o Recorded(r, {"finding"})

\* merge: the recorded unions come first, then the occurrences with their findings.
Merge(r) ==
  /\ BeginImage(r)
  /\ todo' = Recorded(r, {"union"}) \o Recorded(r, {"occurrence", "finding"})

Call(op) == pc = "project" /\ todo # << >> /\ Head(todo).op = op /\ todo' = Tail(todo)

\* occurrence: the row of the image is the one that comes next.
Occurrence ==
  /\ Call("occurrence")
  /\ LET call == Head(todo)
     IN /\ packages' = Interned(packages, call.package)
        /\ contexts' = Interned(contexts, call.context)
        /\ licenses' = Interned(licenses, call.license)
        /\ occurrences' =
             Append(occurrences, [image   |-> Len(images) + 1,
                                  package |-> RowOf(packages', call.package),
                                  context |-> RowOf(contexts', call.context),
                                  license |-> RowOf(licenses', call.license)])
  /\ UNCHANGED <<options, pc, current, addresses, images, advisories, fixes, assessments, findings,
                 aliases, results>>

\* finding: the row of the advisory is remembered by its address in this image.
Finding ==
  /\ Call("finding")
  /\ LET call == Head(todo)
         known == call.address \in DOMAIN addresses
     IN /\ IF known THEN UNCHANGED <<advisories, addresses>>
           ELSE /\ advisories' = Interned(advisories, call.advisory)
                /\ addresses' = [x \in DOMAIN addresses \cup {call.address} |->
                                   IF x = call.address THEN RowOf(advisories', call.advisory)
                                                       ELSE addresses[x]]
        /\ fixes' = Interned(fixes, call.fix)
        /\ assessments' = Interned(assessments, call.assessment)
        /\ findings' =
             Append(findings, [occurrence |-> Len(occurrences),
                               advisory   |-> addresses'[call.address],
                               fix        |-> RowOf(fixes', call.fix),
                               assessment |-> RowOf(assessments', call.assessment)])
  /\ UNCHANGED <<options, pc, current, images, packages, contexts, licenses, occurrences, aliases,
                 results>>

\* union, as a join of names; nothing happens without names.
UnionNames ==
  /\ Call("union")
  /\ joined' = IF Head(todo).names = << >> THEN joined ELSE Append(joined, Head(todo).names)
  /\ UNCHANGED <<options, pc, current, addresses, images, tables, vulnerabilities, vulnerabilityOf,
                 results>>

\* add and merge append the row of the image and forget the addresses.
EndImage ==
  /\ pc = "project" /\ todo = << >>
  /\ images' = Append(images, current)
  /\ addresses' = << >> /\ pc' = "idle"
  /\ UNCHANGED <<options, todo, current, tables, aliases, results>>

\* checkContext: the operation was cancelled, and the builder is dropped.
Canceled ==
  /\ pc = "project" /\ todo # << >>
  /\ pc' = "panic"
  /\ UNCHANGED <<options, todo, current, addresses, images, tables, aliases, results>>

\* finishAliases: the groups of joined names, by their preferred names.
Preferred(a, b) == (a \in CVE /\ b \notin CVE) \/ ((a \in CVE <=> b \in CVE) /\ a < b)

Seen == UNION {Range(names) : names \in Range(joined)}
GroupOf(n) ==
  {m \in Seen : \A S \in SUBSET Seen :
     (\A names \in Range(joined) : Range(names) \subseteq S \/ Range(names) \cap S = {})
       => (n \in S => m \in S)}
Best(group) == CHOOSE n \in group : \A m \in group \ {n} : Preferred(n, m)

\* finish; an advisory that was never joined would get the first vulnerability.
Finish ==
  /\ pc = "idle" /\ images # << >>
  /\ LET names == Sorted({Best(GroupOf(n)) : n \in Seen})
     IN /\ vulnerabilities' =
             [v \in DOMAIN names |->
                [id |-> names[v], aliases |-> Sorted(GroupOf(names[v]) \ {names[v]})]]
        /\ vulnerabilityOf' =
             [a \in DOMAIN advisories |->
                IF advisories[a].id \in Seen
                THEN RowOf(names, Best(GroupOf(advisories[a].id))) ELSE 1]
  /\ pc' = "finished"
  /\ UNCHANGED <<options, todo, current, addresses, images, tables, joined, results>>

Stopped == pc \in {"finished", "panic"} /\ UNCHANGED vars

Next ==
  \/ \E r \in Result : Add(r) \/ Merge(r)
  \/ Occurrence \/ Finding \/ UnionNames \/ EndImage
  \/ Canceled \/ Finish \/ Stopped

Spec == Init /\ [][Next]_vars

(***************************************************************************)
(* Properties                                                              *)
(***************************************************************************)
\* The occurrences and findings that the projections call for, in input order, each
\* with the image it is of.
Tagged(calls, image) == [k \in DOMAIN calls |-> [image |-> image, call |-> calls[k]]]
Facts ==
  FlattenSeq([i \in DOMAIN results |-> Tagged(Recorded(results[i], {"occurrence", "finding"}), i)])

\* The rows that a sequence of facts leaves behind: each value in the place where it
\* was first met, and each finding with the last occurrence before it.
Places(facts, op) == {k \in DOMAIN facts : facts[k].call.op = op}
Shows(facts) ==
  LET o == Keep(facts, Places(facts, "occurrence"))
      f == Keep(facts, Places(facts, "finding"))
      Before(k) == {j \in Places(facts, "occurrence") : j < Sorted(Places(facts, "finding"))[k]}
  IN /\ packages = Firsts([k \in DOMAIN o |-> o[k].call.package])
     /\ contexts = Firsts([k \in DOMAIN o |-> o[k].call.context])
     /\ licenses = Firsts([k \in DOMAIN o |-> o[k].call.license])
     /\ advisories = Firsts([k \in DOMAIN f |-> f[k].call.advisory])
     /\ fixes = Firsts([k \in DOMAIN f |-> f[k].call.fix])
     /\ assessments = Firsts([k \in DOMAIN f |-> f[k].call.assessment])
     /\ occurrences =
          [k \in DOMAIN o |->
             [image   |-> o[k].image,
              package |-> RowOf(packages, o[k].call.package),
              context |-> RowOf(contexts, o[k].call.context),
              license |-> RowOf(licenses, o[k].call.license)]]
     /\ findings =
          [k \in DOMAIN f |->
             [occurrence |-> Cardinality(Before(k)),
              advisory   |-> RowOf(advisories, f[k].call.advisory),
              fix        |-> RowOf(fixes, f[k].call.fix),
              assessment |-> RowOf(assessments, f[k].call.assessment)]]

\* The order in which responses came does not show in the report: its rows are those
\* that the calls of the projections give in input order, each value in the place
\* where it was first met, and each finding belongs to the occurrence it was made
\* for, whichever images were added and whichever merged.  Advisories that differ in
\* nothing but the order and the repetitions of their lists share a row; and every
\* advisory belongs to the vulnerability that its own name is an alias of, never to
\* the first one for want of a group (store.go:91-213, 270-289, 334-341;
\* report.go:99-119, 130-145).
ReportIsDetermined ==
  pc \in {"idle", "finished"} =>
    /\ images = [i \in DOMAIN results |-> ImageRow(Response(results[i]))]
    /\ Shows(Facts)
    /\ \A a, b \in DOMAIN advisories :
         (\A field \in DOMAIN advisories[a] \ {"id"} :
            Range(advisories[a][field]) = Range(advisories[b][field]))
           => a = b \/ advisories[a].id # advisories[b].id
    /\ pc = "finished" =>
         \A a \in DOMAIN advisories :
           /\ vulnerabilityOf[a] \in DOMAIN vulnerabilities
           /\ vulnerabilities[vulnerabilityOf[a]].id \in GroupOf(advisories[a].id)

\* The filter of executeContext and the selection of projectImage agree on packages
\* under a licence policy: no package is deleted that the report would have shown,
\* its licence unknown or its advisories without identifiers, and none is kept for
\* nothing (bridge.go:132-136, store.go:125).
FiltersAgree ==
  Policy =>
    \A i \in DOMAIN results :
      ~results[i].failed =>
        \A p \in Range(results[i].packages) : Deleted(Evaluated(p)) <=> ~Selected(Evaluated(p))
=============================================================================
