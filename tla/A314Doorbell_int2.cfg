SPECIFICATION Spec
CONSTANTS
  Size = 6
  PacketBytes <- MCPacketBytes
  PipeCap = 1
  MaxMessages = 1
  MaxBacklog = 1
  AppsPreempt = FALSE
  ForeignInt2 = TRUE
INVARIANT AmigaInformed
