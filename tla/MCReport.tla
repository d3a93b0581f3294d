------------------------------ MODULE MCReport ------------------------------
(***************************************************************************)
(* ReportViews with a handful of results that overlap: packages that come  *)
(* back in other images and twice in one, advisories that share names or   *)
(* an id or are equal but for the order of their lists, advisories in two  *)
(* groups or in none or without an id, packages with allowed, forbidden    *)
(* and unknown licences, and with a layer that is there or not.            *)
(***************************************************************************)
EXTENDS ReportViews

FoundAdvisory(id, names, severities, affects) ==
  [id |-> id, aliases |-> names, severities |-> severities, references |-> <<2, 1, 2>>,
   affects |-> affects]
FoundGroup(ids, names, analysed, called) ==
  [ids |-> ids, aliases |-> names, analysed |-> analysed, called |-> called, severity |-> 1]

A1 == FoundAdvisory(1, <<2, 4>>, <<2, 1>>, {"p"})
A2 == FoundAdvisory(3, << >>, << >>, {"q"})
A3 == FoundAdvisory(1, <<4, 2, 4>>, <<1, 2, 2>>, {"p"})
A4 == FoundAdvisory(0, << >>, << >>, { })

FoundPackage(p, found, groups, met, layer) ==
  [package |-> p, licenses |-> found, violations |-> << >>, groups |-> groups,
   advisories |-> met, source |-> 1, location |-> IF p = "q" THEN 2 ELSE 0, layer |-> layer,
   depGroups |-> <<2, 1>>, deprecated |-> p = "r", signals |-> p = "q"]

P1 == FoundPackage("p", <<1, 1>>, <<FoundGroup(<<1>>, <<2>>, {1}, {1})>>, <<A1>>, 1)
P2 == FoundPackage("q", <<2, 1>>,
                   <<FoundGroup(<<1, 3>>, << >>, {1}, { }), FoundGroup(<<3>>, << >>, { }, { })>>,
                   <<A2, A1>>, 2)
P3 == FoundPackage("p", << >>, << >>, <<A3, A4>>, 0)
P4 == FoundPackage("q", <<2>>, <<FoundGroup(<< >>, << >>, { }, { })>>, << >>, 0)
P5 == FoundPackage("r", <<1>>, << >>, << >>, 1)
P6 == FoundPackage("r", << >>, << >>, << >>, 0)

Scanned(found) ==
  [failed |-> FALSE, packages |-> found, metadata |-> TRUE, layers |-> <<1>>, unsupported |-> << >>]

MCResult ==
  {[failed |-> TRUE],
   Scanned(<<P1, P4, P1>>),
   Scanned(<<P5, P2>>),
   [Scanned(<<P3, P5>>) EXCEPT !.metadata = FALSE, !.layers = << >>,
                               !.unsupported = <<"unsupported_findings">>],
   Scanned(<<P4, P2, P6>>),
   Scanned(<<P3, P2, P1>>)}

MCAllowlist == {{ }, {1}}
=============================================================================
