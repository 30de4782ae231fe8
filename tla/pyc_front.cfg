SPECIFICATION FairSpec
CONSTANTS
    Programs <- MCPrograms
    SourceText <- MCSourceText
    Parsed <- MCParsed
INVARIANTS RoundTrip NumbersAsPython WellNested
PROPERTY LexerEnds
CHECK_DEADLOCK FALSE
