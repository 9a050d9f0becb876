SPECIFICATION Spec
CONSTANTS
    alice = alice
    bob = bob
    a1 = a1
    b1 = b1
    b2 = b2
    m1 = m1
    m2 = m2
    None = None
    User = {alice, bob}
    Sock = {a1, b1}
    Owner <- OwnerAB
    Msg = {m1}
    From <- FromAlice
    To <- ToBob
    PeerKind = {"read"}
    NudgeTo = {}
    Ageing = {}
    FlushLimit = 1
    AckMemory = 1
    Faults = {"close", "resend", "crash", "cancel"}
    Frail = {a1, b1}
INVARIANTS TypeOK StoredIsSafe TicksAreTrue
PROPERTIES RowsDieByAck ReceiptsDieSeen ImplementsMailbox
