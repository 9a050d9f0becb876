SPECIFICATION Spec
CONSTANTS
    alice = alice
    bob = bob
    a1 = a1
    b1 = b1
    b2 = b2
    m1 = m1
    m2 = m2
    None = None
    User = {alice, bob}
    Sock = {a1, b1, b2}
    Owner <- OwnerAB
    Msg = {m1}
    From <- FromAlice
    To <- ToBob
    PeerKind = {}
    NudgeTo = {bob}
    Ageing = {m1}
    FlushLimit = 2
    AckMemory = 1
    Faults = {"close", "vanish", "connect"}
    Frail = {b1}
\* A connection that fails before its try block leaves a socket behind in the
\* table; its name cannot be used again, and the instance can run out of names.
CHECK_DEADLOCK FALSE
INVARIANT NoDeliveryGap
