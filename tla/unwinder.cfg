SPECIFICATION UnwinderSpec
CONSTANTS
    MAX_STACK_DEPTH_PER_PROGRAM = 7
    MAX_TAIL_CALLS = 19
    MAX_STACK_DEPTH = 127
    Depths <- MCDepths
    KernelDepths = {0, 1, 127}
    MAX_STACKS = 2
INVARIANTS
    TypeOK
    ShortStacksAreWhole
    ShortStacksFinish
    StatsExplainSamples
CHECK_DEADLOCK FALSE
