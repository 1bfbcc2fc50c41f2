CONSTANTS
  r1 = r1
  r2 = r2
  Runs = {r1, r2}
  Sends <- MCSends
  Limit = 1
  MaxAnswers = 1
  MaxFaults = 1
  Named = {r1}
  Fickle = {r1}
  None = None
SPECIFICATION FairSpec
INVARIANT Inv
INVARIANT LeftIsCancelled
INVARIANT CancelFollowsTask
PROPERTY ImplementsRuns
PROPERTY SendsAnswered
PROPERTY RunsEnd
CHECK_DEADLOCK FALSE
