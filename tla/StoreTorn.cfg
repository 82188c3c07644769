\* A turn that sets a card's status, the deletion of a mission and the creation of one.
CONSTANTS
  old = old
  other = other
  turn = turn
  delete = delete
  create = create
  Requests = {turn, delete, create}
  Job <- Jobs
  Present <- TwoMissions
  None = None
  End = End
SPECIFICATION Spec
CHECK_DEADLOCK FALSE
INVARIANT FileIsWhole
