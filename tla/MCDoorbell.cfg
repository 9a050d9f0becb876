SPECIFICATION Spec
CONSTANTS
    Sock = {s1, s2}
    Task = {t1, t2}
    MaxToken = 2
SYMMETRY Interchangeable
INVARIANTS TypeOK SilentOnce
PROPERTY PruneIsAimed
