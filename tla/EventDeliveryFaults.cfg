SPECIFICATION FairSpec
CONSTANTS
  transfer = transfer
  other = other
  NoEvent = NoEvent
  Events <- MCEvents
  Kind <- WithTopUp
  MaxFaults = 2
INVARIANTS
  TypeOK
  AuditComplete
  NoticeComplete
  FaultsCostLittle
PROPERTIES
  QueuesDrain
CHECK_DEADLOCK FALSE
