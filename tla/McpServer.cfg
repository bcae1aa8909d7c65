SPECIFICATION Spec
CONSTANTS
    Tokens = {t1, t2, t3}
    Calls = {c1, c2}
    None = None
    TTL = 1
    MaxEntries = 2
    MaxTime = 3
    MaxKeys = 3
SYMMETRY Symmetry
CHECK_DEADLOCK FALSE
INVARIANTS
    TypeOK
    RevocationDelay
    CallHealsItself
