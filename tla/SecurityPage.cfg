SPECIFICATION SecuritySpec
CONSTANTS
    Owner = owner
    MaxIds = 3
    MaxActions = 3
    MaxOthers = 3
CHECK_DEADLOCK FALSE
INVARIANTS
    SecurityTypeOK
    ShowsNewestKnown
PROPERTY NothingHidden
