\* A NovAtel log whose length field counts its checksum, before another frame.
SPECIFICATION Spec
CONSTANTS
    Capacity = 48
    BufferSize = 2
    Input <- InclusiveStreams
    Crc <- SumCrc
INVARIANTS
    InclusiveFrameNotMissed
CHECK_DEADLOCK FALSE
