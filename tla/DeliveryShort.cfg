SPECIFICATION Spec
CONSTANTS
  CID <- MCOne
  PID <- MCPID
  Comm = {k1}
  MQS = 1
  Buffer = 3
  MaxText = 2
  MaxRuns <- MCRunOnce
  MaxStarts = 1
  Mortal <- MCNobody
  Printer = Printer
  Junk = Junk
  None = None
  NoDir = NoDir
INVARIANTS
  PagesFaithful
CHECK_DEADLOCK FALSE
