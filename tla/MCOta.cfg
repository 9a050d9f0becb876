SPECIFICATION Spec
CONSTANTS
    Request = {r1, r2}
    LastVersion = 3
SYMMETRY Requests
INVARIANTS TypeOK RecordedIsHighest NoDowngrade
