SPECIFICATION FairSpec
CONSTANT MaxAttempts = 5
CHECK_DEADLOCK FALSE
INVARIANTS
    TypeOK
    OneLiveGet
    AutofillLasts
PROPERTIES
    ErrorsAreReal
    ButtonComesBack
