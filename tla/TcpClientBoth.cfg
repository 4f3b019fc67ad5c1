\* A client that reads and writes, once it is connected.
SPECIFICATION UpSpec
CONSTANTS
    Modes <- ClientBoth
    MaxFd = 6
    MaxTries = 2
    MaxEvents = 4
INVARIANTS
    StatusMeansOpen
