CONSTANTS
    Null = Null
    c1 = c1
    c2 = c2
    plain = plain
    secret = secret
    targeted = targeted
    targetedSecret = targetedSecret
    Callers = {c1, c2}
    Requests = {plain, secret, targeted, targetedSecret}
    Targeted = {targeted, targetedSecret}
    Sensitive = {secret, targetedSecret}
SYMMETRY Symmetry
SPECIFICATION Spec
INVARIANTS
    OneTerminalEach
    MismatchToldFirst
    RejectedContentUntouched
PROPERTIES
    AnswerTellsRow
CHECK_DEADLOCK TRUE
