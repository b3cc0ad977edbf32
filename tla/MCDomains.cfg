\* Two domains, two edits, two signals; any hook but those of the workers'
\* configuration may fail.  Six instances are all that the boot and two reloads
\* can launch.
SPECIFICATION FairSpec
CONSTANTS
  a = a
  b = b
  bad = bad
  Ids = {a, b}
  Files <- MCFiles
  Unreadable = bad
  Factories = {"site"}
  FailingHooks = {"init", "start", "drain", "stop"}
  MaxInstances = 6
  MaxEdits = 2
  MaxSignals = 2
INVARIANTS
  TypeOK
  IdleRunsApplied
PROPERTIES
  OnlyKnownLosses
  ReloadCorrects
  UnchangedKeepsRunning
  ObeysLifecycle
  SignalApplied
\* The edits and the signals are bounded.
CHECK_DEADLOCK FALSE
