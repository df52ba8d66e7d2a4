\* Two regions that list the same items at first, two queries of up to three and two
\* items, one per page, and a limit of two pages, so that a list can be cut off; a change
\* while they are read; two synchronisations of any of the regions, one goroutine so
\* that the pool is a limit.  The model ends after its bounded synchronisations.
SPECIFICATION MCSpec
CONSTANTS
  Region = {r1, r2}
  Item = {i1, i2, i3}
  NumQueries = 2
  PageSize = 1
  MaxPages = 2
  Workers = 1
  MaxSyncs = 2
  MaxChanges = 1
  None = None
SYMMETRY Symmetry
CONSTRAINT SecondIsShort
INVARIANTS SteadyItemsKept FailedKeepsRows RecordsAgree
CHECK_DEADLOCK FALSE
