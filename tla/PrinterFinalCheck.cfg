SPECIFICATION Spec
CONSTANTS
  NC = 2
  CQS = 1
  MQS = 1
  Client <- MCClient2
  PrintID <- MCPrintID
  Text <- MCText
  Script <- MCScriptShort
  Resettable <- MCNoClient
  Ready = TRUE
  Interrupts = 1
  Nil = Nil
  c1 = c1
  c2 = c2
  a = a
  b = b
INVARIANTS
  FinalCheckComplete
CHECK_DEADLOCK FALSE
