SPECIFICATION Spec
CONSTANT MaxAttempts = 4
CHECK_DEADLOCK FALSE
PROPERTY SupersededIsNoOp
