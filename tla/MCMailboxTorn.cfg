CONSTANTS
  Ids <- MCIds
  NoId = NoId
  Limit = 1
  Filters <- MCFilters
  Taken <- MCTaken
SPECIFICATION Spec
INVARIANT AckedIsDurable
