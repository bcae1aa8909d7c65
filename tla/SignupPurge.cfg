SPECIFICATION Spec
CONSTANTS
    Names <- MCNames
    Fold <- MCFold
    Emails = {e1}
    Requests = {r1}
    None = None
    n1 = n1
    n2 = n2
    MaxUsers = 1
    MaxChallenges = 1
CHECK_DEADLOCK FALSE
PROPERTY PurgeSparesVerified
