SPECIFICATION Spec
CONSTANTS
    p1 = p1
    p2 = p2
    tool = tool
    app = app
    libc = libc
    vmlinux = vmlinux
    jit = jit
    KERNEL_PID = kernel
    Pid <- MCPid
    Layouts <- MCLayouts
    Dlopened <- MCDlopened
    Unmaps <- MCUnmaps
    NoExecutable = jit
    KernelExecutable = vmlinux
    Profiled <- MCPid
    Unreadable = {libc}
    MAX_PROCESSES = 2
    MAX_MAPPINGS = 4
    NEW_PROC_EVENTS = 1
    TRACER_EVENTS = 1
    RAW_SAMPLES = 0
    MAX_OS_CHANGES = 4
    ExecutableId <- MCExecutableId
    Rows <- MCRows
    Pages <- MCPages
    FetchMayFail = {libc}
    MmapMayFail = TRUE
    ROWS_PER_MB = 1
    MAX_UNWIND_INFO_SIZE = 3
    MAX_OUTER_UNWIND_MAP_ENTRIES = 1
    MAX_EXECUTABLE_TO_PAGE_ENTRIES = 2
    max_native_unwind_info_size_mb = 9
INVARIANTS
    KnownIsLoaded
    PagesHaveTables
    PanicMeansForgotten
    ReferencesExact
    PublishedWhole
    TrieRecorded
    RunningIsAlive
    
PROPERTY
    TablesOutliveMappings
CHECK_DEADLOCK FALSE
