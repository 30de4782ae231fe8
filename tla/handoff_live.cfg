CONSTANTS
    Addrs = {a1, a2}
    Vals = {0}
    Zero = 0
    CACHE_EN = TRUE
    GC_EN = TRUE
    MAX_PUSH = 1
    NEED_DELAY = 4
    HART_GAP = 1
    MAX_TRAPS = 2
    MAX_SLOT_OPS = 1
SPECIFICATION FairSpec
PROPERTIES
    TrapAnswered
    AccessAcknowledged
