SPECIFICATION Spec
CONSTANTS
  Result <- MCResult
  NoPolicy = NoPolicy
  Allowlist <- MCAllowlist
  MaxImages = 3
  CVE = {2}
INVARIANTS ReportIsDetermined FiltersAgree ViewsResolve ViewsAgree
