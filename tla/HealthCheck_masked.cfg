CONSTANTS
  Setups <- MCSetups
  MaxWords = 2
  MinWords = 3
  MaxNesting = 5
SPECIFICATION Spec
INVARIANT ConnectedMeansUsableData
CHECK_DEADLOCK FALSE
