\* The origin is configured, or taken from a message; status 0 is filtered.
SPECIFICATION Spec
CONSTANTS
    Stamps = {0}
    Positions = {1, 2, 4}
    Statuses = {0, 1, 4, 8}
    Origins = {None, 2}
    None = None
    MinGnssStatus = 1
    MaxPvts = 4
INVARIANTS
    TypeOK
    FrameIsFixed
    StartsAtOrigin
CHECK_DEADLOCK FALSE
