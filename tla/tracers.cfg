SPECIFICATION Spec
CONSTANTS
    Thread = {1, 2, 3}
    Pid = {1, 3}
    ProcessOf <- MCProcessOf
    Main = {1, 3}
    Mappings <- MCMappings
    Unmaps <- MCUnmaps
    MAX_TRACKED = 2
    MAX_CALLS = 3
PROPERTIES
    MunmapIsReported
    ReportedWasAttempted
CHECK_DEADLOCK FALSE
