CONSTANTS
    a = a
    b = b
    u1 = u1
    u2 = u2
    k1 = k1
    k2 = k2
    slot = slot
    s1 = s1
    s2 = s2
    r1 = r1
    MemoryIds = {a, b}
    Users = {u1, u2}
    Keys = {k1, k2}
    Slots = {slot}
    Instants = {1, 2}
    Null = Null
    Owner <- MCOwner
    Key <- MCKey
    Slot <- MCSlot
    Explicit = {a, b}
    ValidFrom <- MCFutureValidFrom
    ValidUntil <- MCValidUntil
    Legacy = {a}
    Target <- MCTarget
    Services = {s1}
    Readers = {r1}
    Recovery = Recovery
    Closed = Closed
    Absent = Absent
    Torn = Torn
    Idle = Idle
    Damages = {Absent, Torn}
    MaxFaults = 3
SPECIFICATION ServiceSpec
INVARIANTS
    ServiceTypeOK
    IndexedStayDurable
    ServedIndexFollowsStore
    ForgottenAreErased
PROPERTY RetrievalIsAuthorised
