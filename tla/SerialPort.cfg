\* Two threads at a port, in three plans, three bytes, one thing that goes wrong.
SPECIFICATION FairSpec
CONSTANTS
    Threads = {"r", "w"}
    Plans <- MCPlans
    Script <- MCScript
    Eol <- MCEol
    Timeouts <- MCTimeouts
    OutSize = 1
    Settable = {"even", "mark"}
    MaxFaults = 1
INVARIANTS
    TypeOK
    Contiguous
    LinesEndAtEol
    ShortOnlyInTheEnd
    LineAsSet
PROPERTIES
    CallsReturn
CHECK_DEADLOCK FALSE
