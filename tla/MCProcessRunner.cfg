\* Two lines per pipe, READY at either of them or never; one place in a pipe and two
\* in the log channel, so that readers and process wait for room.
SPECIFICATION FairSpec
CONSTANTS
  HealthURL = TRUE
  PipeCap = 1
  LogCap = 2
  MaxLines = 2
INVARIANTS
  TypeOK
  LogsInOrder
PROPERTIES
  EndsOrCrashes
  ReadySeen
\* The process ends and nothing is left to do.
CHECK_DEADLOCK FALSE
