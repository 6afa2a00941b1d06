\* Three accesses: one that times out, the one its late answer goes to, one more;
\* a socket of two messages, and two other requests or events.
CONSTANTS
  MaxAccesses = 3
  MaxOther = 2
  Room = 2
SPECIFICATION FairSpec
INVARIANTS
  OnlyUnheardTimesOut
  HeardUntilTimeout
PROPERTIES
  EveryAccessAnnounced
CHECK_DEADLOCK FALSE
