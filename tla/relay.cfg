SPECIFICATION Spec
CONSTANTS
  q1 = q1
  q2 = q2
  q3 = q3
  NumEvents = 4
  Queues = {q1, q2, q3}
  Routes <- MCRoutes
  BatchSize = 2
  MaxPublishRetries = 4
  MaxFaults = 3
  NoEvent = NoEvent
INVARIANTS
  TypeOK
  PublishedIsQueuedEverywhere
PROPERTIES
  FanOutSpec
