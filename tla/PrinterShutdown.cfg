SPECIFICATION Spec
CONSTANTS
  NC = 1
  CQS = 1
  MQS = 2
  Client <- MCClient1
  PrintID <- MCPrintID
  Text <- MCText
  Script <- MCScript1
  Resettable <- MCNoClient
  Ready = TRUE
  Interrupts = 3
  Nil = Nil
  c1 = c1
  c2 = c2
  a = a
  b = b
INVARIANTS
  QueueExclusion
  SlotAccounting
  BusyProtectsPaper
  DequeueFinds
  Conservation
  PaperFaithful
PROPERTIES
  SigintTerminates
  ServesAsPromised
CHECK_DEADLOCK FALSE
