CONSTANTS
  a = a
  b = b
  c = c
  Nodes = {a, b, c}
  Sources = {a}
  Damageable = {b}
  Allowing = {a, b}
  ChunkCount = 2
  MaxFetches = 2
  MaxFaults = 2
SPECIFICATION FairSpec
INVARIANT Inv
INVARIANT FetchMatches
INVARIANT CopySurvives
INVARIANT FailsWithReason
PROPERTY DeletionJustified
PROPERTY FetchEnds
CHECK_DEADLOCK FALSE
