\* A domain in the root's process.
SPECIFICATION Spec
CONSTANTS
  NoScope = NoScope
  Scopes = {"domain"}
  FwdTopics = {"all"}
  SseScope = NoScope
  ChanCap = 1
  InCap = 1
  WireCap = 1
  MaxLogs = 1
  MaxShown = 3
INVARIANT
  NoLoop
CHECK_DEADLOCK FALSE
