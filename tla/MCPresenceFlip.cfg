SPECIFICATION Spec
CONSTANTS
    Sock = {s1, s2}
    FirstTime = FALSE
    Faults = {}
INVARIANT ConnectedIsOnline
SYMMETRY Connections
