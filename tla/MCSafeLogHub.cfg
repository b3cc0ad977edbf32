\* Two publishers, five records, a limit of two in a window, a queue of one.
SPECIFICATION FairSpec
CONSTANTS
  Publishers = {p1, p2}
  RateMax = 2
  Buf = 1
  MaxTotal = 5
INVARIANTS
  TypeOK
  Accounted
  RateRespected
  StatsHideNoLoss
PROPERTIES
  LoopServesAll
