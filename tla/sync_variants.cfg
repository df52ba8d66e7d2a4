\* What README.md says of failed requests, violated with two variants of a region.
SPECIFICATION Spec
CONSTANTS
  Region = {r1}
  Item = {i1, i2}
  NumQueries = 2
  PageSize = 1
  MaxPages = 3
  Workers = 1
  MaxSyncs = 2
  MaxChanges = 0
  None = None
INVARIANT ErrorsKeepRows
CHECK_DEADLOCK FALSE
