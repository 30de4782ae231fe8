SPECIFICATION Spec
CONSTANTS
    plain = plain
    marked = marked
    RF_DEPTH = 8
    RF_SPILL_HYST = 1
    RF_WINDOW_CAP = 7
    SPILL_MAX = 8
    MAX_CALL_DEPTH = 4
    Codes <- Limit8c
    Boot <- main8
    Consts = {plain, marked}
    Once = {marked}
    Ops = {"STORE_FAST"}
    Default = plain
    Exc = plain
    Lasti = plain
    Uninit = plain
    UNWIND_SPAN = 8
INVARIANTS WindowFaithful
CHECK_DEADLOCK FALSE
