---------------------------- MODULE ReportViews ----------------------------
(***************************************************************************)
(* The views of a frozen report.  buildIndexes (go/indexes.go) derives     *)
(* sixteen indexes from the rows, in slots with fixed numbers; value       *)
(* (go/abi.go) answers a property of a view, which it knows by the number  *)
(* of its kind and of the field, from the rows and those slots; and the    *)
(* classes of src/osvpy/_native.pyx read their properties by such numbers. *)
(* An index is the one that FrozenIndex builds: the sorted distinct values *)
(* of a key, or a range of rows.  Texts are left out.                      *)
(***************************************************************************)
EXTENDS Report

(***************************************************************************)
(* buildIndexes                                                            *)
(***************************************************************************)
ImageOf(f) == occurrences[findings[f].occurrence].image
PackageOf(f) == occurrences[findings[f].occurrence].package
VulnerabilityOf(f) == vulnerabilityOf[findings[f].advisory]

\* What the visit of a row knows.
OccurrenceEdge(o) ==
  [image |-> occurrences[o].image, package |-> occurrences[o].package, occurrence |-> o]
FindingEdge(f) ==
  [image |-> ImageOf(f), package |-> PackageOf(f), occurrence |-> findings[f].occurrence,
   finding |-> f, vulnerability |-> VulnerabilityOf(f), advisory |-> findings[f].advisory]

\* The rows that are visited for an index, and what its keys and values are.
Slot(visited, key, value) == [visited |-> visited, key |-> key, value |-> value]
Slots ==
  << Slot({"occurrence"}, "image", "occurrence"),
     Slot({"finding"}, "image", "finding"),
     Slot({"finding"}, "occurrence", "finding"),
     Slot({"occurrence"}, "image", "package"),
     Slot({"finding"}, "image", "package"),
     Slot({"noncompliant"}, "image", "package"),
     Slot({"finding"}, "image", "vulnerability"),
     Slot({"occurrence"}, "package", "image"),
     Slot({"finding"}, "package", "image"),
     Slot({"noncompliant"}, "package", "image"),
     Slot({"noncompliant", "finding"}, "package", "image"),
     Slot({"finding"}, "vulnerability", "image"),
     Slot({"finding"}, "advisory", "image"),
     Slot({"finding"}, "vulnerability", "finding"),
     Slot({"finding"}, "advisory", "finding"),
     Slot({"finding"}, "package", "finding") >>

Noncompliant(o) == licenses[occurrences[o].license].status = "noncompliant"
Visited(rows) ==
  CASE rows = "occurrence" -> {OccurrenceEdge(o) : o \in DOMAIN occurrences}
    [] rows = "noncompliant" ->
         {OccurrenceEdge(o) : o \in {o \in DOMAIN occurrences : Noncompliant(o)}}
    [] rows = "finding" -> {FindingEdge(f) : f \in DOMAIN findings}

\* The edges of the index in a slot, slots being counted from 0.
Edges(slot) ==
  LET index == Slots[slot + 1]
  IN UNION {{<<e[index.key], e[index.value]>> : e \in Visited(rows)} : rows \in index.visited}

\* A contiguous index keeps where the range of a key starts and ends, as the counts
\* of the edges of the keys below give it, and answers with the rows between.
Contiguous == {0, 1, 2}
IndexValue(slot, row) ==
  LET edges == Edges(slot)
      start == Cardinality({e \in edges : e[1] < row})
      count == Cardinality({e \in edges : e[1] = row})
  IN IF slot \in Contiguous
     THEN [i \in 1..count |-> start + i]
     ELSE Sorted({e[2] : e \in {e \in edges : e[1] = row}})

(***************************************************************************)
(* value: what is answered for a kind of view and a field                  *)
(***************************************************************************)
\* A view is a kind, a row and, for an element of a list of the row, its place there.
View(kind, row, sub) == [kind |-> kind, row |-> row, sub |-> sub]
Batch == View(1, 0, 0)

\* view: the class for a kind.
Class ==
  <<"BatchResult", "ImageResult", "Package", "Vulnerability", "AdvisorySource", "Occurrence",
    "Finding", "ReportContext", "ReportAssessment", "ReportLicense", "ReportFix", "invalid",
    "NativeError", "ReportSeverity", "ReportReference", "ReportSeverity">>

\* A field: one value or many, of which type, and where views come from: the rows of a
\* table, the members of an index, the elements of a list or a column of the row.
Field(many, type, from, key, kind) ==
  [many |-> many, of |-> type, from |-> from, key |-> key, kind |-> kind]
One(type) == Field(FALSE, type, "text", "", 0)
Text == One("str")
Optional == One("optional")
Texts == Field(TRUE, "str", "text", "", 0)
Ref(kind, column) == Field(FALSE, Class[kind], "column", column, kind)
Rows(kind) == Field(TRUE, Class[kind], "table", "", kind)
Related(slot, kind) == Field(TRUE, Class[kind], "index", slot, kind)
Elements(kind, list) == Field(TRUE, Class[kind], "list", list, kind)

BatchFields == <<Rows(2), Rows(3), Rows(4), Rows(5), Rows(7)>>

ImageFields ==
  <<Text, Optional, Text, One("invalid"), Elements(13, "diagnostics"), Related(0, 6),
    Related(1, 7), Related(3, 3), Related(4, 3), Related(5, 3), Related(6, 4)>>

PackageSlots(noncompliant) ==
  <<Text, Text, Text, Text, Text, Text,
    Related(7, 2), Related(8, 2), Related(noncompliant, 2), Related(10, 2), Related(15, 7)>>

\* Mutant: the noncompliant images are those of the slot of the affected ones.
MutantPackageFields == PackageSlots(10)

PackageFields == PackageSlots(9)

VulnerabilityFields == <<Text, Texts, Related(11, 2), Related(13, 7)>>

AdvisoryFields ==
  <<Text, Texts, Text, Optional, Optional, Optional, Optional,
    Elements(14, "severities"), Elements(15, "references"), Related(12, 2), Related(14, 7)>>

OccurrenceFields ==
  <<Ref(2, "image"), Ref(3, "package"), Ref(8, "context"), Ref(10, "license"), Related(2, 7)>>

\* Mutant: the fields of the fix and of the assessment change places.
MutantFindingFields ==
  <<Ref(6, "occurrence"), Ref(5, "advisory"), Ref(9, "assessment"), Ref(11, "fix"),
    Ref(4, "vulnerability")>>

FindingFields ==
  <<Ref(6, "occurrence"), Ref(5, "advisory"), Ref(11, "fix"), Ref(9, "assessment"),
    Ref(4, "vulnerability")>>

\* The fields of each kind, from 1; a record of a list has one for each of its words.
Fields ==
  <<BatchFields, ImageFields, PackageFields, VulnerabilityFields, AdvisoryFields,
    OccurrenceFields, FindingFields,
    <<Text, Text, Optional, Texts>>,
    <<Optional, Optional, Text>>,
    <<Texts, Optional, Texts, Text>>,
    <<Texts, Text, Elements(16, "severities"), Texts>>,
    << >>,
    <<Text, Text>>, <<Text, Text, Text>>, <<Text, Text>>, <<Text, Text, Text>>>>

\* The table of a kind, and the list of a row that its elements come from.
Table(kind) ==
  <<{0}, images, packages, vulnerabilities, advisories, occurrences, findings, contexts,
    assessments, licenses, fixes, << >>, images, advisories, advisories, fixes>>[kind]
ListOf ==
  [kind \in 13..16 |-> <<"diagnostics", "severities", "references", "severities">>[kind - 12]]

IsThere(v) ==
  \/ v.kind = 1
  \/ /\ v.row \in DOMAIN Table(v.kind)
     /\ v.kind \in DOMAIN ListOf => v.sub \in DOMAIN Table(v.kind)[v.row][ListOf[v.kind]]

\* The views that a field of a view answers with.
Views(field, v) ==
  CASE field.from = "text" -> << >>
    [] field.from = "table" -> [i \in DOMAIN Table(field.kind) |-> View(field.kind, i, 0)]
    [] field.from = "index" ->
         LET members == IndexValue(field.key, v.row)
         IN [i \in DOMAIN members |-> View(field.kind, members[i], 0)]
    [] field.from = "list" ->
         [i \in DOMAIN Table(v.kind)[v.row][field.key] |-> View(field.kind, v.row, i)]
    [] field.from = "column" ->
         <<View(field.kind, IF field.key = "vulnerability" THEN VulnerabilityOf(v.row)
                            ELSE Table(v.kind)[v.row][field.key], 0)>>

\* The answers for the fields of a view; anything else panics.
Value(v) ==
  IF IsThere(v)
  THEN [f \in DOMAIN Fields[v.kind] |->
          [many |-> Fields[v.kind][f].many, of |-> Fields[v.kind][f].of,
           views |-> Views(Fields[v.kind][f], v)]]
  ELSE << >>

(***************************************************************************)
(* The classes and their properties                                        *)
(***************************************************************************)
\* The properties of each class with the type that _native.pyi declares, in the order
\* of the fields that _native.pyx reads for them; no property reads field 4 of images.
Is(name, type) == [name |-> name, many |-> FALSE, of |-> type]
Has(name, type) == [name |-> name, many |-> TRUE, of |-> type]
NoProperty == Is("none", "invalid")

BatchProperties ==
  <<Has("images", "ImageResult"), Has("packages", "Package"),
    Has("vulnerabilities", "Vulnerability"), Has("advisory_sources", "AdvisorySource"),
    Has("findings", "Finding")>>

ImageProperties ==
  <<Is("requested", "str"), Is("os", "optional"), Is("status", "str"), NoProperty,
    Has("diagnostics", "NativeError"), Has("occurrences", "Occurrence"),
    Has("findings", "Finding"), Has("packages", "Package"),
    Has("vulnerable_packages", "Package"), Has("noncompliant_packages", "Package"),
    Has("vulnerabilities", "Vulnerability")>>

PackageProperties ==
  <<Is("name", "str"), Is("version", "str"), Is("ecosystem", "str"), Is("commit", "str"),
    Is("os_package_name", "str"), Is("purl", "str"),
    Has("present_images", "ImageResult"), Has("vulnerable_images", "ImageResult"),
    Has("noncompliant_images", "ImageResult"), Has("affected_images", "ImageResult"),
    Has("findings", "Finding")>>

VulnerabilityProperties ==
  <<Is("id", "str"), Has("aliases", "str"), Has("affected_images", "ImageResult"),
    Has("findings", "Finding")>>

AdvisoryProperties ==
  <<Is("id", "str"), Has("aliases", "str"), Is("summary", "str"), Is("modified", "optional"),
    Is("published", "optional"), Is("withdrawn", "optional"),
    Is("database_severity", "optional"), Has("severities", "ReportSeverity"),
    Has("references", "ReportReference"), Has("affected_images", "ImageResult"),
    Has("findings", "Finding")>>

OccurrenceProperties ==
  <<Is("image", "ImageResult"), Is("package", "Package"), Is("context", "ReportContext"),
    Is("license_assessment", "ReportLicense"), Has("findings", "Finding")>>

FindingProperties ==
  <<Is("occurrence", "Occurrence"), Is("advisory_source", "AdvisorySource"),
    Is("fix_evidence", "ReportFix"), Is("assessment", "ReportAssessment"),
    Is("vulnerability", "Vulnerability")>>

Properties ==
  [BatchResult |-> BatchProperties,
   ImageResult |-> ImageProperties,
   Package |-> PackageProperties,
   Vulnerability |-> VulnerabilityProperties,
   AdvisorySource |-> AdvisoryProperties,
   Occurrence |-> OccurrenceProperties,
   Finding |-> FindingProperties,
   ReportContext |->
     <<Is("path", "str"), Is("source_type", "str"), Is("layer", "optional"),
       Has("dependency_groups", "str")>>,
   ReportAssessment |->
     <<Is("called", "optional"), Is("unimportant", "optional"), Is("max_severity", "str")>>,
   ReportLicense |->
     <<Has("licenses", "str"), Is("policy", "optional"), Has("violations", "str"),
       Is("status", "str")>>,
   ReportFix |->
     <<Has("versions", "str"), Is("status", "str"), Has("severities", "ReportSeverity"),
       Has("urgencies", "str")>>,
   NativeError |-> <<Is("code", "str"), Is("message", "str")>>,
   ReportSeverity |-> <<Is("type", "str"), Is("source", "str"), Is("vector", "str")>>,
   ReportReference |-> <<Is("type", "str"), Is("url", "str")>>]

(***************************************************************************)
(* Properties                                                              *)
(***************************************************************************)
\* The batch, the rows of the tables and the elements of the lists of rows.
RowViews(kind) == {View(kind, row, 0) : row \in DOMAIN Table(kind)}
ElementViews(kind) ==
  UNION {{View(kind, row, i) : i \in DOMAIN Table(kind)[row][ListOf[kind]]} :
           row \in DOMAIN Table(kind)}
Present ==
  {Batch} \cup (UNION {RowViews(kind) : kind \in 2..11})
          \cup (UNION {ElementViews(kind) : kind \in DOMAIN ListOf})

\* Every view answers every property of its class with a value of the declared type,
\* and every view among the answers is of a row and an element that are there.  So
\* following properties from the batch never panics, whatever numbers the sources use
\* for kinds, fields, slots and record widths (abi.go:169-420, _native.pyx:142-177 and
\* 219-540, _native.pyi).
ViewsResolve ==
  pc = "finished" =>
    \A v \in Present :
      LET answers == Value(v)
          declared == Properties[Class[v.kind]]
      IN /\ DOMAIN answers = DOMAIN declared
         /\ \A field \in DOMAIN answers :
              /\ answers[field].many = declared[field].many
              /\ answers[field].of = declared[field].of
              /\ Range(answers[field].views) \subseteq Present

\* The rows of the views that a property of a row gives.
Get(kind, row, name) ==
  LET declared == Properties[Class[kind]]
      field == CHOOSE field \in DOMAIN declared : declared[field].name = name
  IN {v.row : v \in Range(Value(View(kind, row, 0))[field].views)}

\* Two properties are inverse; and the findings of a row are those that lead back to it.
Converse(kind, name, kind2, name2) ==
  \A x \in DOMAIN Table(kind), y \in DOMAIN Table(kind2) :
    y \in Get(kind, x, name) <=> x \in Get(kind2, y, name2)
Back(kind, rowOf) ==
  \A x \in DOMAIN Table(kind) :
    Get(kind, x, "findings") = {f \in DOMAIN findings : rowOf[f] = x}

\* Relationships that are answered from different slots agree: the two directions of
\* each of them are inverse, the images that a package affects are those where it is
\* vulnerable or noncompliant, and the findings of an image, a package, an advisory
\* and a vulnerability are those whose own row leads back to it.
ViewsAgree ==
  pc = "finished" =>
    /\ Converse(2, "packages", 3, "present_images")
    /\ Converse(2, "vulnerable_packages", 3, "vulnerable_images")
    /\ Converse(2, "noncompliant_packages", 3, "noncompliant_images")
    /\ Converse(2, "vulnerabilities", 4, "affected_images")
    /\ \A p \in DOMAIN packages :
         Get(3, p, "affected_images")
           = Get(3, p, "vulnerable_images") \cup Get(3, p, "noncompliant_images")
    /\ \A v \in DOMAIN vulnerabilities :
         Get(4, v, "affected_images")
           = UNION {Get(5, a, "affected_images") :
                      a \in {a \in DOMAIN advisories : vulnerabilityOf[a] = v}}
    /\ Back(2, [f \in DOMAIN findings |-> ImageOf(f)])
    /\ Back(3, [f \in DOMAIN findings |-> PackageOf(f)])
    /\ Back(4, [f \in DOMAIN findings |-> VulnerabilityOf(f)])
    /\ Back(5, [f \in DOMAIN findings |-> findings[f].advisory])
    /\ Back(6, [f \in DOMAIN findings |-> findings[f].occurrence])
    /\ \A i \in DOMAIN images :
         Get(2, i, "occurrences") = {o \in DOMAIN occurrences : occurrences[o].image = i}
=============================================================================
