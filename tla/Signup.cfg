SPECIFICATION FairSpec
CONSTANTS
    Names <- MCNames
    Fold <- MCFold
    Emails = {e1}
    Requests = {r1, r2}
    None = None
    n1 = n1
    n2 = n2
    MaxUsers = 2
    MaxChallenges = 1
CHECK_DEADLOCK FALSE
INVARIANTS
    TypeOK
    OneAccountPerEmail
PROPERTIES
    OnlyStrandedPurged
    ImplementsRegistry
    StrandedGoes
