\* A phone's WebSocket over three dials of the desktop, with a cut and a hibernation.
\* The system may stop: the dials are bounded and phones owe nothing.
CONSTANTS
  HttpRequests = {}
  PairRequests = {}
  Legs = {w}
  MaxSockets = 3
  MaxMessages = 2
  MaxFaults = 1
  MaxInflight = 1
  None = None
SPECIFICATION FairSpec
CHECK_DEADLOCK FALSE
INVARIANTS
  PhoneSeesEngineOrder
  EngineSeesPhoneOrder
  OpenPhonesAreKnown
PROPERTIES
  BrokenSessionsRedial
  NoZombiePhone
