CONSTANTS
    Null = Null
    MaxCleanups = 2
SPECIFICATION Spec
INVARIANTS
    TerminalForEveryInvocation
CHECK_DEADLOCK FALSE
