\* Tasks run until they wait (MCU_NATIVE_USE_SIGNALS: 0).
CONSTANTS
  MaxMsgs = 6
  MaxDrops = 1
  Room = 2
  Preemptive = FALSE
SPECIFICATION FairSpec
INVARIANTS
  WakeupComing
PROPERTIES
  ImplementsChannel
  AllSent
CHECK_DEADLOCK FALSE
