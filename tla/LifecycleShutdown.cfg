SPECIFICATION FairSpec
CONSTANTS
  transfer = transfer
  stream = stream
  NoEvent = NoEvent
  Events = {transfer}
  Kind <- MCKind
  Streams = {stream}
INVARIANTS
  TypeOK
  GracefulIsClean
  ShutdownKeepsEvents
PROPERTIES
  ShutdownEnds
CHECK_DEADLOCK FALSE
