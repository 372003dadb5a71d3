SPECIFICATION PprofSpec
CONSTANTS
    KERNEL_PID = 0
    procs <- MCProcs
    objs <- MCObjs
    Symbols <- MCSymbols
    Unreadable = {2}
    ksyms <- MCKsyms
    LabelOf <- MCLabelOf
    Ending <- MCEnding
    RawSamples <- MCRawSamples
    MAX_SAMPLES = 2
INVARIANTS
    ReaderSeesSampled
    LabelsAreOfTask
CHECK_DEADLOCK FALSE
