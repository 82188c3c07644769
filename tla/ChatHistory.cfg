\* One provider that tells its id first, and two that tell it last, one of them not listed.
\* The system may stop: turns, crashes and ids are bounded.
CONSTANTS
  Providers = {claude, agy, kimi}
  Listed = {claude, agy}
  Late = {agy, kimi}
  Ids = {i, j, k}
  Legacy = Legacy
  None = None
  Absent = Absent
  MaxTurns = 3
  MaxCrashes = 1
SPECIFICATION Spec
CHECK_DEADLOCK FALSE
INVARIANTS
  TypeOK
  HistoryShowsRows
  RestartAgrees
  RefusedStaysRefused
  TranscriptIsWhole
SYMMETRY NewIds
