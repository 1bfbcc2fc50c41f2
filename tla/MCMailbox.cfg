CONSTANTS
  Ids <- MCIds
  NoId = NoId
  Limit = 1
  Filters <- MCFilters
  Taken <- MCTaken
SPECIFICATION FairSpec
INVARIANT Inv
PROPERTY ImplementsDurableInbox
PROPERTY EventuallySeen
