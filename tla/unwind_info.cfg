SPECIFICATION InfoSpec
CONSTANTS
    Tables <- MCTables
    Rule = {"rsp", "rbp"}
    Overrides <- MCOverrides
    MAX_FDES = 2
    FDE_ROWS = 2
    MAX_PC = 8
    UNWIND_INFO_PAGE_SIZE = 4
    MAX_BINARY_SEARCH_DEPTH = 3
INVARIANTS
    TypeOK
    UnwindsAsFunctionsSay
    LookupCorrect
    NeverExhausted
    LoadedIsFound
    DeletesAllPages
