\* The root and two domains, each launched up to twice, so that a copy of the
\* registry outlives a restart.
SPECIFICATION FairDegradationSpec
CONSTANTS
  Ids <- MCIds
  Root = 0
  Domains <- MCDomains
  Reported = {"ready", "failed"}
  None = None
  MaxLaunches = 2
INVARIANTS
  DegradationTypeOK
PROPERTIES
  LostToLeftoverOnly
  PolicyCatchesUp
