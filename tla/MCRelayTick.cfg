SPECIFICATION Spec
CONSTANTS
    alice = alice
    bob = bob
    a1 = a1
    b1 = b1
    b2 = b2
    m1 = m1
    m2 = m2
    None = None
    User = {alice, bob}
    Sock = {a1, b1}
    Owner <- OwnerAB
    Msg = {m1}
    From <- FromAlice
    To <- ToBob
    PeerKind = {}
    NudgeTo = {}
    Ageing = {}
    FlushLimit = 2
    AckMemory = 1
    Faults = {}
    Frail = {}
INVARIANT TickIsDurable
