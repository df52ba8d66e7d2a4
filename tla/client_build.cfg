\* Two jobs for one repository, the dictionary keeps one of them; a save
\* may fail, the server may restart once.  It may stop when all is done.
SPECIFICATION Spec
CONSTANTS
  Target = {"linux", "appimage", "ios"}
  Form <- Forms
  MaxJobs = 2
  Keep = 1
  Stamp = {"minute1"}
  MaxFaults = 1
  MaxRestarts = 1
INVARIANTS TypeOK SuccessHonest OperationsAgree
PROPERTIES HistoryKept BuildsEnd
CHECK_DEADLOCK FALSE
