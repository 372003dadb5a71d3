SPECIFICATION FairBlockSpec
CONSTANT W = 4
INVARIANTS
    LookupExact
PROPERTY Ends
CHECK_DEADLOCK FALSE
