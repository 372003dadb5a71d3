SPECIFICATION FairSpec
CONSTANT MAX_PROFILES = 2
INVARIANTS
    ProcessSeenWhole
PROPERTY HandlersFinish
CHECK_DEADLOCK FALSE
