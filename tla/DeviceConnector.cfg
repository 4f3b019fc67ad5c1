\* Three connectors, with and without a writer; two descriptors and two messages.
SPECIFICATION FairSpec
CONSTANTS
    Modes <- MCModes
    Payloads <- MCPayloads
    MaxFd = 2
    MaxEvents = 2
    MaxRead = 3
INVARIANTS
    TypeOK
    OneConnection
    InOrderOnce
    FieldsAsLaidOut
PROPERTIES
    Recovers
CHECK_DEADLOCK FALSE
