SPECIFICATION Spec
CONSTANTS
  INT_MAX = 127
  File <- MCTwoFiles
  Image <- MCTwoImages
  Base <- MCTwoBases
  M = 26
  TQ = 2
  MaxPID = 3
  MaxLines = 5
  Horizon = 12
  Line <- MCTwoLines
  Short <- MCNone
  Leftover <- MCThree
  Lossy = TRUE
  NoFile = NoFile
INVARIANTS
  TypeOK
  Exclusion
  OnceReady
  Transparent
  SentOnce
PROPERTIES
  Terminates
CHECK_DEADLOCK FALSE
