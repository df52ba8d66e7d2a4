\* Two queue workers and one other refresh, two logins, one change and back.
SPECIFICATION Spec
CONSTANTS
  Worker = {w1, w2}
  Refresh = {h1}
  Login = {l1, l2}
  MaxChanges = 2
  None = None
INVARIANTS IInv SessionInUseStays RefreshedOnce CurrentLogin
PROPERTY RefreshEnds
