\* Four byte values: a length of 5 needs both bytes of a header.
CONSTANTS
  Base = 4
  MaxMsgSz = 11
  Lens = {1, 2, 5}
  MaxMsgs = 3
  MaxEmpties = 1
  MaxFails = 1
  SplitHeaders = FALSE
SPECIFICATION FairSpec
INVARIANTS
  RequestsAreMessages
  NothingWholeLeft
  RequestsHaveEvent
PROPERTIES
  ImplementsChannel
  AllHandled
CHECK_DEADLOCK FALSE
