SPECIFICATION Spec
CONSTANTS
  NC = 2
  CQS = 2
  MQS = 1
  Client <- MCClient2
  PrintID <- MCPrintID
  Text <- MCText
  Script <- MCScriptOne
  Resettable <- MCReset
  Ready = FALSE
  Interrupts = 1
  Nil = Nil
  c1 = c1
  c2 = c2
  a = a
  b = b
INVARIANTS
  QueueExclusion
  PaperFaithful
CHECK_DEADLOCK FALSE
