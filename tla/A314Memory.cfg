SPECIFICATION Spec
CONSTANTS
    ChipSize = 3
    Top = 8
    HeaderSize = 1
    MaxBlocks = 3
INVARIANT FreeListsSound
INVARIANT A314RegionsExact
INVARIANT A314BuffersTranslate
PROPERTY MarkedOnce
CHECK_DEADLOCK FALSE
