SPECIFICATION Spec
CONSTANTS
  MaxPID = 3
  MaxChunks = 2
  MaxRuns = 2
  Slots = 3
  NoDir = NoDir
INVARIANTS
  TypeOK
  PagesComplete
  DumpLags
  AllPrintedWhenOff
PROPERTIES
  Ends
CHECK_DEADLOCK FALSE
