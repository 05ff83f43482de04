SPECIFICATION Spec
CONSTANTS
  Programs = {"disk", "interrupts", "boot"}
  Addresses <- MCAddresses
  DriverAddresses <- MCDriverAddresses
  MaxCommands = 2
  MaxWrites = 1
  MaxFaults = 1
  MaxFiddles = 2
  Radix = 4
  SectorBytes = 4
  MaxCount = 2
  OffSectors = 16
  Heads = 2
  Sectors = 2
  Cylinders = 2
  HasLba = TRUE
  FileSectors = 10
  Nibble = 4
  FastPage = 4
  FastSize = 4
  ConfigPage = 14
  Devices <- MCDevices
  IoPages = {9, 10}
INVARIANT LevelSound
INVARIANT BoardsWherePlaced
PROPERTY TransfersExact
PROPERTY RefusedMovesNothing
PROPERTY CommandsFinish
