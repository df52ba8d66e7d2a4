\* One account and resource, one job of three named actions, a sync request next to
\* both loops, one restart or failed write.  The system may stop for good when every
\* account is deleted and every request is over.
SPECIFICATION Spec
CONSTANTS
  Account = {a1}
  Res = {r1}
  Job = {j1}
  Handler = {h1}
  Action = {"delete", "start", "create"}
  MaxAttempts = 2
  BatchLimit = 1
  MaxFaults = 1
  None = None
INVARIANTS
  IInv
  ConfirmedByEvidence
  AttemptsBounded SyncExclusive
PROPERTIES
  PromiseKept
  FinalForever
  JobsSettle
CHECK_DEADLOCK FALSE
