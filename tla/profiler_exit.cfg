SPECIFICATION Spec
CONSTANTS
    p1 = p1
    p2 = p2
    tool = tool
    app = app
    libc = libc
    vmlinux = vmlinux
    jit = jit
    KERNEL_PID = kernel
    Pid <- MCPid
    Layouts <- MCLayoutsShared
    Dlopened <- MCNone
    Unmaps <- MCNone
    NoExecutable = jit
    KernelExecutable = vmlinux
    Profiled <- MCPid
    Unreadable = {}
    MAX_PROCESSES = 4
    MAX_MAPPINGS = 9
    NEW_PROC_EVENTS = 1
    TRACER_EVENTS = 1
    RAW_SAMPLES = 0
    MAX_OS_CHANGES = 3
    ExecutableId <- MCExecutableId
    Rows <- MCRows
    Pages <- MCPages
    FetchMayFail = {}
    MmapMayFail = FALSE
    ROWS_PER_MB = 1
    MAX_UNWIND_INFO_SIZE = 3
    MAX_OUTER_UNWIND_MAP_ENTRIES = 3
    MAX_EXECUTABLE_TO_PAGE_ENTRIES = 9
    max_native_unwind_info_size_mb = 9
PROPERTY
    ExitUnpublishes
CHECK_DEADLOCK FALSE
