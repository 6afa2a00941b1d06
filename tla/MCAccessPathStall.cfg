\* Two accesses and nothing else.
CONSTANTS
  MaxAccesses = 2
  MaxOther = 0
  Room = 2
SPECIFICATION FairSpec
INVARIANTS
  PromptClientIsWaitedFor
CHECK_DEADLOCK FALSE
