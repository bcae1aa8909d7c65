SPECIFICATION FairSpec
CONSTANTS
    Users = {u1}
    Devices = {d1}
    Tabs = {t1, t2}
    Polls = {p1, p2}
    Revokers = {v1}
    None = None
    MaxEra = 1
CHECK_DEADLOCK FALSE
INVARIANTS
    TypeOK
    DecidedByOneTab
    SweptMeansGone
PROPERTIES
    ImplementsDeviceSignIn
    EveryoneFinishes
