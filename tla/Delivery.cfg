SPECIFICATION Spec
CONSTANTS
  CID <- MCTwo
  PID <- MCPID
  Comm = {k1}
  MQS = 1
  Buffer = 1
  MaxText = 1
  MaxRuns <- MCRuns
  MaxStarts = 2
  Mortal <- MCMortal
  Printer = Printer
  Junk = Junk
  None = None
  NoDir = NoDir
INVARIANTS
  TypeOK
  PagesFaithful
  FileThere
  CompleteOnce
  NothingLost
PROPERTIES
  AllDelivered
CHECK_DEADLOCK FALSE
