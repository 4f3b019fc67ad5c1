\* A client in the hands of one thread, or a server; the remote side comes and goes.
SPECIFICATION FairSpec
CONSTANTS
    Modes <- OneThreadOrServer
    MaxFd = 3
    MaxTries = 2
    MaxEvents = 4
INVARIANTS
    TypeOK
    StatusMeansOpen
    NoLeak
PROPERTIES
    Recovers
    WriterReaccepts
