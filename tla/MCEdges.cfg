SPECIFICATION EdgesSpec
CONSTANTS
  Tunable = {"B"}
  Settings = {"s1", "s2"}
  Empty = "Empty"
  NoFile = "NoFile"
  Unset = "Unset"
  Garbage = "Garbage"
  MaxEdits = 2
  MaxConnections = 2
  MaxSaid = 2
  MaxRows = 1
  BareSettings = FALSE
\* The bounds stop every page, and prototypes die.
CHECK_DEADLOCK FALSE
INVARIANTS RepliesInOrder GreenMeansConnected FileHoldsLastEcho TextsUnderstood
  OthersWork LateAnswersHarmless
PROPERTIES NastawySpec ScriptsKeepTime
