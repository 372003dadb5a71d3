SPECIFICATION FairSpec
CONSTANTS
    p1 = p1
    p2 = p2
    tool = tool
    app = app
    libc = libc
    vmlinux = vmlinux
    jit = jit
    KERNEL_PID = kernel
    Pid <- MCPid
    Layouts <- MCLayoutsLive
    Dlopened <- MCNone
    Unmaps <- MCNone
    NoExecutable = jit
    KernelExecutable = vmlinux
    Profiled <- MCPid
    Unreadable = {}
    MAX_PROCESSES = 2
    MAX_MAPPINGS = 4
    NEW_PROC_EVENTS = 1
    TRACER_EVENTS = 1
    RAW_SAMPLES = 1
    MAX_OS_CHANGES = 2
    ExecutableId <- MCExecutableId
    Rows <- MCRowsLive
    Pages <- MCPages
    FetchMayFail = {}
    MmapMayFail = FALSE
    ROWS_PER_MB = 1
    MAX_UNWIND_INFO_SIZE = 3
    MAX_OUTER_UNWIND_MAP_ENTRIES = 3
    MAX_EXECUTABLE_TO_PAGE_ENTRIES = 4
    max_native_unwind_info_size_mb = 2
INVARIANTS
    TablesAreKnown
PROPERTIES
    MemoryWithinLimit
    UnwindSpec
    SampledIsPublished
