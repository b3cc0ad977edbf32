\* Each of the three servers, two clients, an address that may be taken; hello is
\* restarted twice.
SPECIFICATION FairSpec
CONSTANTS
  Clients = {c1, c2}
  MaxRestarts = 2
INVARIANTS
  TypeOK
  PortReleased
PROPERTIES
  ShutsDown
\* A server that has stopped stays stopped.
CHECK_DEADLOCK FALSE
