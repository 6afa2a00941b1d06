\* Two accesses, three access_status requests; the histories end at the bounds.
CONSTANTS
  MaxAccesses = 2
  MaxAnswers = 3
  AttStatuses <- MCAttStatuses
  MaxLen = 1
SPECIFICATION Spec
INVARIANTS
  TypeOK
  TokensFollowStatuses
  ReadReturnsValueOfItsStatus
  PoliteClientIsHeard
PROPERTIES
  ImplementsMailbox
CHECK_DEADLOCK FALSE
