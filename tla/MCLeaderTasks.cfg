CONSTANTS
  l1 = l1
  l2 = l2
  t1 = t1
  t2 = t2
  k1 = k1
  k2 = k2
  p1 = p1
  p2 = p2
  n1 = n1
  s1 = s1
  Leaders = {l1,l2}
  Tasks = {t1}
  Cancels = {k1,k2}
  Foreign = {k2}
  Prompts = {}
  Notes = {}
  Target <- MCTarget
  Slot <- MCSlot
  None = None
  User = User
  SlotCapacity = 1
  MaxToolCalls = 1
  MaxFaults = 1
  MaxCrashes = 1
  MaxUserTurns = 0
SPECIFICATION Spec
CHECK_DEADLOCK FALSE
INVARIANT AckedTaskAnswered
INVARIANT EntryProgresses
