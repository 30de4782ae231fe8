SPECIFICATION Spec
CONSTANTS
    Programs <- ExecPrograms
    Compiled <- PycCompiled
    SourceRun <- PythonRun
    Externals <- MCExternals
    ExcClasses <- MCExcClasses
    Answers <- MCAnswers
    MAX_EVENTS = 4
INVARIANTS
    SameAsSource
    NeverStuck
    FusedLoadsBound
    HandlerDepthExists
CHECK_DEADLOCK FALSE
