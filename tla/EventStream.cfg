\* Two sessions, a queue of one or two frames and a broadcast of three events; one connection is lost.
\* The system may stop: events, losses and calls are bounded.
CONSTANTS
  Topics = {s, t}
  Firehose = Firehose
  Capacities = {1, 2}
  Broadcast = 3
  MaxEvents = 4
  MaxDrops = 1
  MaxChanges = 1
SPECIFICATION Spec
CHECK_DEADLOCK FALSE
INVARIANTS
  SubscriptionsAgree
  QuietClientIsCurrent
  ArrivesInOrder
SYMMETRY SameTopics
VIEW WithoutOldEvents
