SPECIFICATION FairSpec
CONSTANTS
  Size = 6
  PacketBytes <- MCPacketBytes
  PipeCap = 1
  MaxMessages = 1
  MaxBacklog = 1
  AppsPreempt = FALSE
  ForeignInt2 = FALSE
INVARIANTS TypeOK AmigaInformed DaemonInformedUnlessLapped RingsIntact
PROPERTIES A2RDrained R2ADrained SendQueueServed PacketQueueServed
