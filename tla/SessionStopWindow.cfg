\* A stop while the CLI is being started.
CONSTANTS
  t1 = t1  t2 = t2  t3 = t3
  i1 = i1  i2 = i2  i3 = i3
  k1 = k1  k2 = k2  k3 = k3
  d1 = d1
  c1 = c1  c2 = c2
  NoProcess = NoProcess
  Dirs = {d1}
  DirOf <- AllInD1
  Keys = {k1, k2, k3}
  KeyOf <- AllKeys
  Identities = {i1, i2, i3}
  Turns = {t1}
  Stops = {c1}
  IdentityOf <- SameConversation
  TargetOf <- StopsForI1
  Resumable = {}
  NewMissions = {}
SPECIFICATION Spec
INVARIANT StopLeavesNoProcess
CHECK_DEADLOCK FALSE
