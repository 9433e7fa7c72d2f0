CONSTANTS
    Null = Null
    NumCases = 3
    Strict = {3}
SPECIFICATION Spec
INVARIANTS
    SuccessIsVerified
    FailureIsTold
    ObservationsAreKept
CHECK_DEADLOCK FALSE
