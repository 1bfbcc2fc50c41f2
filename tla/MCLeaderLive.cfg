CONSTANTS
  l1 = l1
  l2 = l2
  t1 = t1
  t2 = t2
  k1 = k1
  k2 = k2
  p1 = p1
  p2 = p2
  n1 = n1
  s1 = s1
  Leaders = {l1}
  Tasks = {t1,t2}
  Cancels = {k1}
  Foreign = {}
  Prompts = {p1}
  Notes = {n1}
  Target <- MCTarget
  Slot <- MCSlot
  None = None
  User = User
  SlotCapacity = 1
  MaxToolCalls = 0
  MaxFaults = 0
  MaxCrashes = 0
  MaxUserTurns = 0
SPECIFICATION FairSpec
CHECK_DEADLOCK FALSE
PROPERTY TaskAnswered
