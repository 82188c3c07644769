\* Two messages of one conversation that can be resumed, and a stop of it: the queue it implements, and what must happen.
CONSTANTS
  t1 = t1  t2 = t2  t3 = t3
  i1 = i1  i2 = i2  i3 = i3
  k1 = k1  k2 = k2  k3 = k3
  d1 = d1
  c1 = c1  c2 = c2
  NoProcess = NoProcess
  Dirs = {d1}
  DirOf <- AllInD1
  Keys = {k1, k2, k3}
  KeyOf <- AllKeys
  Identities = {i1, i2, i3}
  Turns = {t1, t2}
  Stops = {c1}
  IdentityOf <- SameConversation
  TargetOf <- StopsForI1
  Resumable = {i1}
  NewMissions = {}
SPECIFICATION FairSpec
PROPERTIES
  ImplementsTurnQueue
  EveryTurnEnds
  EveryStopAnswers
CHECK_DEADLOCK FALSE
