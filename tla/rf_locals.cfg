SPECIFICATION Spec
CONSTANTS
    plain = plain
    marked = marked
    RF_DEPTH = 6
    RF_SPILL_HYST = 1
    RF_WINDOW_CAP = 5
    SPILL_MAX = 8
    MAX_CALL_DEPTH = 3
    Codes <- Small6
    Boot <- main6
    Consts = {plain, marked}
    Once = {marked}
    Ops = {"STORE_FAST", "LOAD_FAST", "POP_TOP"}
    Default = plain
    Exc = plain
    Lasti = plain
    Uninit = plain
    UNWIND_SPAN = 6
INVARIANTS WindowFaithful OperandFaithful RingNeverFull NoFalseStackTrap
CHECK_DEADLOCK FALSE
