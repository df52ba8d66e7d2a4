\* One action and its task among the synchronisations of two handlers, a restart.
\* The system stops for good when every request is over and nothing synchronises.
SPECIFICATION Spec
CONSTANTS
  Res = {r1}
  Thread = {h1, h2}
  Task = {t1}
  Verb = {"start", "delete", "change_private_ip"}
  Ip = {"old", "new"}
  Executors = 1
  MaxRestarts = 1
  None = None
SYMMETRY Symmetry
INVARIANTS OwnSyncIsEvidence ConfirmedIpShown
CHECK_DEADLOCK FALSE
