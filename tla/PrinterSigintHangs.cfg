SPECIFICATION Spec
CONSTANTS
  NC = 1
  CQS = 1
  MQS = 2
  Client <- MCClient1
  PrintID <- MCPrintID
  Text <- MCText
  Script <- MCScript1
  Resettable <- MCNoClient
  Ready = FALSE
  Interrupts = 1
  Nil = Nil
  c1 = c1
  c2 = c2
  a = a
  b = b
PROPERTIES
  SigintTerminates
CHECK_DEADLOCK FALSE
