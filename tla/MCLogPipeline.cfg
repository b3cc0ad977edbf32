\* One record of a domain (or of the root), two subscriptions of the
\* forwarder, an SSE client of all records.
SPECIFICATION FairSpec
CONSTANTS
  NoScope = NoScope
  Scopes = {"domain", "root"}
  FwdTopics = {"all", "domain"}
  SseScope = NoScope
  ChanCap = 1
  InCap = 1
  WireCap = 1
  MaxLogs = 1
  MaxShown = 3
INVARIANTS
  TypeOK
  CopiesBounded
PROPERTIES
  BusNeverHeldUp
  ForwarderEnds
  SendingResumes
CHECK_DEADLOCK FALSE
