SPECIFICATION Spec
CONSTANTS
    RADIX = 32
    MaxEffects = 6
    Programs <- MCPrograms
    Supported <- MCSupported
INVARIANTS SameEffects StackFits AcceptsTheLanguage
CHECK_DEADLOCK FALSE
