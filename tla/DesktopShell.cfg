\* Three engines and two hooks. The system may stop: engines are bounded, and setup may abort or hang.
CONSTANTS
  MaxEngines = 3
  Hooks = {g, h}
SPECIFICATION FairSpec
CHECK_DEADLOCK FALSE
INVARIANTS
  OneEngine
  RestartIsFollowed
PROPERTY GateOpens
