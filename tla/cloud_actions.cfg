\* Two requests, two servers that may have one name, the row of one may
\* have lost its id, one action of every family.
\* The system may stop for good when every request is over.
SPECIFICATION MCSpec
CONSTANTS
  Server = {s1, s2}
  Name = {n1, n2}
  Req = {q1, q2}
  Asks <- AllFamilies
  Alternatives = 2
  Polls = 2
  None = None
SYMMETRY Symmetry
INVARIANTS TypeOK TargetOnly RuleReplaced RuleKept ConfirmedHolds
CHECK_DEADLOCK FALSE
