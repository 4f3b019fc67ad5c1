\* One authentication ends.
SPECIFICATION FairSpec
CONSTANT MaxFailures = 1
PROPERTY
    Reauthenticates
