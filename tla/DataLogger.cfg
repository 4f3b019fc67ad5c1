\* Parts of ten lines; for one setting two runs of the node, in one second or two.
SPECIFICATION FairSpec
CONSTANTS
    Settings <- MCSettings
    RotateSize = 10
    MaxBlocks = 2
    MaxEvents = 1
INVARIANTS
    TypeOK
    WrittenOnceInOrder
    HeldIsFresh
PROPERTIES
    FilesOnlyGrow
    EventuallyWritten
CHECK_DEADLOCK FALSE
