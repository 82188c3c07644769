\* Two HTTP calls and a pairing call over three dials of the desktop, with one cut or hibernation.
\* The system may stop: the dials are bounded and phones owe nothing.
CONSTANTS
  HttpRequests = {h, i}
  PairRequests = {p}
  Legs = {}
  MaxSockets = 3
  MaxMessages = 0
  MaxFaults = 1
  MaxInflight = 1
  None = None
SPECIFICATION FairSpec
CHECK_DEADLOCK FALSE
INVARIANTS
  TypeOK
  PendingAreUnanswered
  AnswersTellTheTruth
PROPERTIES
  EveryCallAnswered
