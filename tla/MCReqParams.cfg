\* Up to two parameters of a request are missing, invalid or unusual.
CONSTANT MaxOdd = 2
SPECIFICATION Spec
INVARIANTS
  HostCalledIffRight
  HostGetsWhatWasAsked
  AnswerMatches
PROPERTIES
  Answered
CHECK_DEADLOCK FALSE
