SPECIFICATION FairClientSpec
CONSTANTS
  NC = 2
  CQS = 1
  MQS = 1
  Client <- MCClient2
  PrintID <- MCPrintID
  Text <- MCText
  Script <- MCScript2
  Resettable <- MCNoClient
  Ready = TRUE
  Interrupts = 0
  Nil = Nil
  c1 = c1
  c2 = c2
  a = a
  b = b
INVARIANTS
  TypeOK
  BuffersBounded
  SlotAccounting
  SyncAccounting
  Conservation
  SpooledUntilPrinted
PROPERTIES
  NoEmptyBatch
  AllPrinted
  ServesAsPromised
CHECK_DEADLOCK FALSE
