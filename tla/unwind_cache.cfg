SPECIFICATION CacheSpec
CONSTANTS
    ExecutableId = {app, libc, db, sh}
    NoUnwindInfo = {db}
    max_cached_files = 2
    OldFiles = {app}
    ListingMayFail = TRUE
    DiskMayFail = TRUE
    DiskMayCorrupt = TRUE
INVARIANTS
    FetchReturnsTable
    CacheBounded
