\* Two worker objects under two names, so also both under one name one after
\* the other, and one started during or after the shutdown.
SPECIFICATION FairSpec
CONSTANTS
  Workers = {w1, w2}
  Names = {n1, n2}
  NoWorker = NoWorker
  MaxAttempts = 2
INVARIANTS
  TypeOK
  WaitGroupCountsLive
  NoWorkAfterShutdown
PROPERTIES
  NameFreedByItsWorker
  ShutdownCompletes
  PermanentRunsAgain
\* After the shutdown the system really stops.
CHECK_DEADLOCK FALSE
