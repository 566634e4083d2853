CONSTANTS
  Setups <- MCSetups
  MaxWords = 2
  MinWords = 3
  MaxNesting = 5
SPECIFICATION Spec
INVARIANTS SettingsCompose NoFalseAlarm FaultsAreReported ChunksKeepWords
PROPERTY EveryCheckEnds
CHECK_DEADLOCK FALSE
