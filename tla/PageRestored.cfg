CONSTANTS
    MaxAttempts = 2
    MaxSockets = 8
    MaxEvents = 3
SPECIFICATION Spec
CHECK_DEADLOCK FALSE
INVARIANT OtherTabIsThere
