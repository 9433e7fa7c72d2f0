CONSTANTS
    Null = Null
    MaxCleanups = 2
SPECIFICATION Spec
INVARIANTS
    ExactlyOneTerminal
    MismatchToldOnce
    TerminalTellsResult
    ReadyMeansNoFailure
CHECK_DEADLOCK FALSE
