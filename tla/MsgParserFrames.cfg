\* Frames of all protocols mixed with broken ones, in reads of 1 or 2 bytes.
SPECIFICATION FairSpec
CONSTANTS
    Capacity = 48
    BufferSize = 2
    Input <- MixedStreams
    Crc <- SumCrc
INVARIANTS
    TypeOK
    FramesAreWhole
    PiecesTile
    FrameNotMissed
    PayloadAsReceived
    BrokenHeaderKeepsNext
PROPERTIES
    Drained
    SplitsIntoFrames
CHECK_DEADLOCK FALSE
