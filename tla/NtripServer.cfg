\* Every login type; any three calls, answers, sockets or authentications fail.
SPECIFICATION FairSpec
CONSTANT MaxFailures = 3
INVARIANTS
    TypeOK
    SessionAuthenticated
    AuthAfterCalibration
PROPERTY
    Reconnects
