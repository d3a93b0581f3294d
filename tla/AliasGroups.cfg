\* Two requests of up to three of five names, two of which are CVEs.
SPECIFICATION FairSpec
CONSTANTS
  Name = {1, 2, 3, 4, 5}
  CVE = {2, 4}
  MaxRequests = 2
  MaxAliases = 3
INVARIANTS TypeOK ParentPreferred GroupsMatchRequests ReportIsCanonical
PROPERTIES ImplementsPartition UnionReturns
