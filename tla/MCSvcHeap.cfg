\* Every tree of at most two elements per array; commits of up to three services.
CONSTANTS
  Trees <- MCTrees
  MaxCommit = 3
SPECIFICATION Spec
INVARIANTS
  HeapIsRespected
  OnlyKnownLeaks
  ReadsWhatWasDecoded
CHECK_DEADLOCK FALSE
