----------------------------- MODULE FixEvidence -----------------------------
(***************************************************************************)
(* go/report.go: packageFixes collects, from the affected entries of an    *)
(* advisory, what is evidence for one installed package: the fixed         *)
(* versions, the severities and the urgencies; and it says how far the     *)
(* versions can be trusted.                                                *)
(*                                                                         *)
(* A version is a number if the ecosystem's ordering knows it; the others  *)
(* are in Odd, and 0 is the empty string.  The entries, ranges and events  *)
(* of the advisory are chosen as the loops come to them, in any number and *)
(* order.  The lists of the result are sets: they are sorted and their     *)
(* repetitions removed before the result is returned (unique and           *)
(* canonicalSeverities, modelled in Report).                               *)
(***************************************************************************)
EXTENDS Naturals

CONSTANTS
  Version,      \* the versions that the ordering of the ecosystem knows
  Odd,          \* the other ones
  FixPackage,   \* the packages: an ecosystem, a name and the name in the system's
                \* package manager
  Entry,        \* the affected entries: an ecosystem, a name, severities and urgencies
  Unnamed       \* the empty name

ASSUME FixAssumption ==
  /\ Version \cup Odd \subseteq Nat \ {0} /\ Version \cap Odd = {}
  /\ \A x \in FixPackage \cup Entry :     \* an ecosystem is these parts and no more
       x.ecosystem = [system |-> x.ecosystem.system, release |-> x.ecosystem.release,
                      channels |-> x.ecosystem.channels]

VARIABLES
  package, installed,                  \* the package and its version
  loop,                                \* affected, ranges, events (the loops), done
  type,                                \* the type of the range that is visited
  matched, unknown, versions, severities, urgencies, status,
                                       \* the locals and the result
  entries, types, seenFixes            \* what has been visited: the entries, and the
                                       \* ranges and fixes of those that match
input == <<package, installed>>
found == <<matched, unknown, versions, severities, urgencies, status>>
history == <<entries, types, seenFixes>>
fixVars == <<input, loop, type, found, history>>

Fix == Version \cup Odd \cup {0}
RangeType == {"ECOSYSTEM", "SEMVER", "GIT", "UNSPECIFIED"}
Ordered == {"ECOSYSTEM", "SEMVER"}

FixInit ==
  /\ package \in FixPackage /\ installed \in Version \cup Odd
  /\ loop = "affected" /\ type = "GIT"
  /\ matched = FALSE /\ unknown = FALSE /\ status = "no_reported_fix"
  /\ versions = {} /\ severities = {} /\ urgencies = {}
  /\ entries = {} /\ types = {} /\ seenFixes = {}

\* ecosystem: for Ubuntu, without the channels that its name carries.
ecosystem(e) == IF e.system = "Ubuntu" THEN [e EXCEPT !.channels = {}] ELSE e

Matches(e) ==
  /\ ecosystem(e.ecosystem) = ecosystem(package.ecosystem)
  /\ e.name = package.name \/ (package.osName # Unnamed /\ e.name = package.osName)

\* An affected entry; one that is not about the package is passed over.
Affected(e) ==
  /\ loop = "affected"
  /\ entries' = entries \cup {e}
  /\ IF Matches(e)
     THEN /\ matched' = TRUE /\ loop' = "ranges"
          /\ severities' = severities \cup e.severities
          /\ urgencies' = urgencies \cup e.urgencies
     ELSE UNCHANGED <<matched, loop, severities, urgencies>>
  /\ UNCHANGED <<input, type, unknown, versions, status, types, seenFixes>>

\* A range of commits gives no versions; one of another odd type gives versions of
\* which nothing is certain.
RangeUnless(t, certain) ==
  /\ loop = "ranges"
  /\ unknown' = (unknown \/ t \notin certain)
  /\ type' = t /\ types' = types \cup {t}
  /\ loop' = IF t = "GIT" THEN "ranges" ELSE "events"
  /\ UNCHANGED <<input, matched, versions, severities, urgencies, status, entries, seenFixes>>

\* Mutant: a range of commits is only passed over.
MutantRange(t) == RangeUnless(t, Ordered \cup {"GIT"})

VersionRange(t) == RangeUnless(t, Ordered)

EndRanges ==
  /\ loop = "ranges"
  /\ loop' = "affected"
  /\ UNCHANGED <<input, type, found, history>>

Comparable(fix) == installed \in Version /\ fix \in Version

\* An event is evidence unless it has no fix, or a fix that is surely not newer.
Event(fix) ==
  /\ loop = "events"
  /\ IF fix = 0 \/ (Comparable(fix) /\ installed >= fix)
     THEN UNCHANGED <<unknown, versions>>
     ELSE versions' = versions \cup {fix} /\ unknown' = (unknown \/ ~Comparable(fix))
  /\ seenFixes' = seenFixes \cup {fix}
  /\ UNCHANGED <<input, loop, type, matched, severities, urgencies, status, entries, types>>

EndEvents ==
  /\ loop = "events"
  /\ loop' = "ranges"
  /\ UNCHANGED <<input, type, found, history>>

Status ==
  /\ loop = "affected"
  /\ status' = IF ~matched \/ unknown THEN "unknown"
               ELSE IF versions # {} THEN "reported" ELSE status
  /\ loop' = "done"
  /\ UNCHANGED <<input, type, matched, unknown, versions, severities, urgencies, history>>

FixStopped == loop = "done" /\ UNCHANGED fixVars

FixNext ==
  \/ \E e \in Entry : Affected(e)
  \/ \E t \in RangeType : VersionRange(t)
  \/ \E fix \in Fix : Event(fix)
  \/ EndRanges \/ EndEvents \/ Status \/ FixStopped

FixSpec == FixInit /\ [][FixNext]_fixVars

(***************************************************************************)
(* Properties                                                              *)
(***************************************************************************)
\* Whatever entries, ranges and events an advisory has, and in whatever order:
\* - the listed versions are all the fixes that are not surely too old, so nothing that
\*   could be a fix is lost;
\* - fixes are only claimed where every range could be ordered and each listed version
\*   is newer than the installed one: fixes in an unsupported ordering are kept as
\*   unknown (the comment in report.go:163-164);
\* - the absence of fixes is only claimed for a package that the advisory is about,
\*   when there is none and every range was looked at;
\* - severities and urgencies are those of the entries about the package: of its
\*   system and release, on Ubuntu of any channel, under one of the names it has.
EvidenceIsExact ==
  loop = "done" =>
    LET SameRelease(a, b) ==
          /\ a.system = b.system /\ a.release = b.release
          /\ a.system = "Ubuntu" \/ a.channels = b.channels
        names == {package.name} \cup ({package.osName} \ {Unnamed})
        about == {e \in entries : e.name \in names /\ SameRelease(e.ecosystem, package.ecosystem)}
    IN /\ versions = {fix \in seenFixes \ {0} : {installed, fix} \subseteq Version => fix > installed}
       /\ severities = UNION {e.severities : e \in about}
       /\ urgencies = UNION {e.urgencies : e \in about}
       /\ status = "reported" =>
            /\ about # {} /\ types \subseteq Ordered
            /\ versions # {} /\ installed \in Version
            /\ \A fix \in versions : fix \in Version /\ fix > installed
       /\ status = "no_reported_fix" => about # {} /\ versions = {} /\ types \subseteq Ordered
=============================================================================
