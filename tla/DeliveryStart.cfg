SPECIFICATION Spec
CONSTANTS
  CID <- MCOne
  PID <- MCPID
  Comm = {k1}
  MQS = 1
  Buffer = 1
  MaxText = 1
  MaxRuns <- MCRunOnce
  MaxStarts = 2
  Mortal <- MCPrinter
  Printer = Printer
  Junk = Junk
  None = None
  NoDir = NoDir
PROPERTIES
  StartEmpties
CHECK_DEADLOCK FALSE
