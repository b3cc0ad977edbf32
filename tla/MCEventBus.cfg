\* Two subscriptions, two publishers with two messages each, one place per channel.
\* Readers may stop reading.
SPECIFICATION FairSpec
CONSTANTS
  Subs = {s1, s2}
  Pubs = {p1, p2}
  Topics = {t}
  Capacity = 1
  MaxMsgs = 2
INVARIANTS
  TypeOK
PROPERTIES
  ImplementsBus
  PublishReturns
\* The messages and the subscriptions are bounded.
CHECK_DEADLOCK FALSE
