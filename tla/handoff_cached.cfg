CONSTANTS
    Addrs = {a1, a2}
    Vals = {0, 1}
    Zero = 0
    CACHE_EN = TRUE
    GC_EN = TRUE
    MAX_PUSH = 0
    NEED_DELAY = 1
    HART_GAP = 1
    MAX_TRAPS = 2
    MAX_SLOT_OPS = 1
SPECIFICATION Spec
INVARIANTS
    TypeOK
    OneMaster
    NoRequestDropped
    DrainedForExcore
    ResultForThisTrap
    ServedOnce
PROPERTIES
    OneMemory
