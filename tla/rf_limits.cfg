SPECIFICATION Spec
CONSTANTS
    plain = plain
    marked = marked
    RF_DEPTH = 10
    RF_SPILL_HYST = 1
    RF_WINDOW_CAP = 7
    SPILL_MAX = 7
    MAX_CALL_DEPTH = 3
    Codes <- Limit8
    Boot <- main8
    Consts = {plain, marked}
    Once = {marked}
    Ops = {"RAISE_VARARGS"}
    Default = marked
    Exc = marked
    Lasti = plain
    Uninit = plain
    UNWIND_SPAN = 8
INVARIANTS TypeOK SpillNeverUnderflows
PROPERTIES AlwaysBackToFetch SpillLeavesHysteresis
CHECK_DEADLOCK FALSE
