\* One routine that suppresses silent runs, two requests that edit it, two runs, a history of one.
CONSTANTS
  Ids = {a}
  Runs = {x1, x2}
  Schedules = {s1, bad}
  Valid = {s1}
  Quiet = {a}
  MaxRuns = 1
  Edits = {e1, e2}
  Missing = Missing
  NoJob = NoJob
  NoRun = NoRun
SPECIFICATION Spec
INVARIANTS
  TypeOK
  FolderIsGuarded
  RunsTellTheirOutcome
  HistoryKeepsNewest
  JobsFollowRoutines
  CardsAreSurfacedRuns
SYMMETRY Symmetric
