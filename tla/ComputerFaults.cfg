SPECIFICATION QuietUserSpec
CONSTANTS
  INT_MAX = 127
  File <- MCFaultFiles
  Image <- MCFaultImages
  Base <- MCFaultBases
  M = 26
  TQ = 2
  MaxPID = 4
  MaxLines = 6
  Horizon = 6
  Line <- MCFaultLines
  Short <- MCShort
  Leftover <- MCNone
  Lossy = FALSE
  NoFile = NoFile
INVARIANTS
  OnceReady
  Transparent
  SentOnce
PROPERTIES
  ProcessesEnd
CHECK_DEADLOCK FALSE
