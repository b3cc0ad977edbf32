\* The root and two domains with every status a kernel can report, walked in
\* any order.
SPECIFICATION FairSpec
CONSTANTS
  Ids <- MCIds
  Root = 0
  Domains <- MCDomains
  Reported = {"ready", "degraded", "failed", "draining", "stopped", "unset"}
  None = None
  MaxLaunches = 2
INVARIANTS
  TypeOK
  WorstSoFar
PROPERTIES
  CacheFollows
