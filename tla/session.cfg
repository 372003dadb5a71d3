SPECIFICATION FairSpec
CONSTANTS
    Stack = {fib, jit, empty}
    EmptyStack = empty
    Unmapped = {jit}
    MAX_SAMPLES = 2
    MAX_SESSIONS = 2
    MAX_EVENTS = 1
    MAX_TOUCHES = 2
INVARIANTS
    SamplesConserved
PROPERTIES
    IsRecording
    StopIsReported
    KillswitchStops
CHECK_DEADLOCK FALSE
