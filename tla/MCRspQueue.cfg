\* Tasks may be preempted between any two steps.
CONSTANTS
  MaxMsgs = 6
  MaxDrops = 1
  Room = 2
  Preemptive = TRUE
SPECIFICATION Spec
INVARIANTS
  TypeOK
  ExactlyOnce
PROPERTIES
  ImplementsChannel
CHECK_DEADLOCK FALSE
