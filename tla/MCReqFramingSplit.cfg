\* A read may end between the two bytes of a header.
CONSTANTS
  Base = 4
  MaxMsgSz = 11
  Lens = {5}
  MaxMsgs = 2
  MaxEmpties = 0
  MaxFails = 0
  SplitHeaders = TRUE
SPECIFICATION Spec
INVARIANT RequestsAreMessages
CHECK_DEADLOCK FALSE
