CONSTANTS
    a = a
    b = b
    c = c
    l = l
    u1 = u1
    u2 = u2
    k1 = k1
    k2 = k2
    k3 = k3
    s1 = s1
    MemoryIds = {a, b, c, l}
    Users = {u1, u2}
    Keys = {k1, k2, k3}
    Slots = {s1}
    Instants = {1, 2}
    Null = Null
    Owner <- MCOwner
    Key <- MCKey
    Slot <- MCSlot
    Explicit = {a, b, c}
    ValidFrom <- MCValidFrom
    ValidUntil <- MCValidUntil
    Legacy = {l}
SPECIFICATION Spec
INVARIANTS
    TypeOK
    IdentityAudit
    RelationshipAudit
    StoreInvariant
PROPERTIES
    CommittedFactsAreFinal
    ImplementsLifecycle
CHECK_DEADLOCK FALSE
