SPECIFICATION Spec
CONSTANTS
    Users = {u1}
    Creds = {c1}
    Requests = {r1, r2}
    None = None
    MaxPerUser = 1
    MaxPk = 2
    MaxChallenges = 1
    MaxLinks = 1
    MaxVersion = 1
    MaxClock = 1
    MaxAttempts = 2
CHECK_DEADLOCK FALSE
PROPERTY DisabledGainsNothing
