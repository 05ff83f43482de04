SPECIFICATION Spec
CONSTANTS
  Size = 7
  AmigaPackets <- MCPackets
  PiPackets <- MCPackets
  MaxBatch = 2
PROPERTY PublishedUntouched
PROPERTY PacketsCross
