\* Tables that two or three requests fill.
CONSTANTS
  MaxSvcs = 6
  MaxChrs = 6
  MaxDscs = 6
  Requests <- MCRequests
  EvtNumbers = 8
  MaxOps = 6
  ResetMayFail = TRUE
SPECIFICATION Spec
INVARIANTS
  TypeOK
  AssertsHold
  WalksStayInside
  HostDefsUntouched
  CommitListsWhatWasAdded
  TerminatorsAreNull
  NumbersIdentify
CHECK_DEADLOCK FALSE
