CONSTANTS
    a = a
    b = b
    u1 = u1
    u2 = u2
    k1 = k1
    k2 = k2
    slot = slot
    s1 = s1
    s2 = s2
    r1 = r1
    MemoryIds = {a, b}
    Users = {u1}
    Keys = {k1, k2}
    Slots = {slot}
    Instants = {1, 2}
    Null = Null
    Owner <- MCOwner
    Key <- MCKey
    Slot <- MCSlot
    Explicit = {a, b}
    ValidFrom <- MCValidFrom
    ValidUntil <- MCValidUntil
    Legacy = {a}
    Target <- MCTarget
    Services = {s1, s2}
    Readers = {}
    Recovery = Recovery
    Closed = Closed
    Absent = Absent
    Torn = Torn
    Idle = Idle
    Damages = {Torn}
    MaxFaults = 1
SPECIFICATION OperatedSpec
INVARIANTS
    IndexedStayDurable
    ForgottenAreErased
PROPERTIES
    LockReleased
    ForgettingsComplete
    RetriesSucceed
CHECK_DEADLOCK FALSE
