\* A read of two bytes, with an inter-byte timeout; nothing goes wrong.
SPECIFICATION Spec
CONSTANTS
    Threads = {"r"}
    Plans <- ReadPlan
    Script <- MCScript
    Eol <- MCEol
    Timeouts <- MCTimeouts
    OutSize = 1
    Settable = {"odd"}
    MaxFaults = 0
PROPERTIES
    InterByteEnds
CHECK_DEADLOCK FALSE
