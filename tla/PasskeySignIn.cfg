SPECIFICATION Spec
CONSTANTS
    u1 = u1
    u2 = u2
    p1 = p1
    Users = {u1, u2}
    Passkeys = {p1}
    OwnerOf <- MCOwnerOf
    Requests = {r1, r2}
    None = None
    Chunk = 1
    MaxTries = 2
    MaxChallenges = 2
    MaxCount = 2
    MaxSessions = 3
SYMMETRY Symmetry
CHECK_DEADLOCK FALSE
INVARIANTS
    TypeOK
    SweptSessionsGone
PROPERTIES
    CounterNeverFalls
    DeletedSignsNobodyIn
    RecovererStaysIn
    ImplementsPasskeyUse
