\* Stop(name) on a worker that is not Temporary.
SPECIFICATION FairSpec
CONSTANTS
  Workers = {w1}
  Names = {n1}
  NoWorker = NoWorker
  MaxAttempts = 2
PROPERTIES
  StopEndsWorker
\* After the shutdown the system really stops.
CHECK_DEADLOCK FALSE
