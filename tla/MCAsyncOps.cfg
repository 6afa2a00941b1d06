\* A connection, a procedure on it and a third request at once.
CONSTANTS
  Seqs = {0, 1, 2}
  EvtSeq = 9
  NoSeq = NoSeq
  MaxInbox = 1
SPECIFICATION Spec
INVARIANTS
  TypeOK
  OneOwner
  HeapMatches
PROPERTIES
  ImplementsSession
CHECK_DEADLOCK FALSE
