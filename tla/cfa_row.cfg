SPECIFICATION RowSpec
CONSTANTS
    Arch = "x86"
    Kinds = {"register", "deref", "plt1", "plt2", "expression", "end"}
    Offsets <- MCOffsets
    DerefOffsets <- MCDerefOffsets
    Additions = {0, 8, 128, 255, 264}
    Nibbles = {0, 1, 9, 10, 11, 15}
INVARIANTS
    StepFollowsDwarf
    BottomIsBottom
    SupportedIsUnwound
CHECK_DEADLOCK FALSE
