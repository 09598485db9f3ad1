CONSTANTS
    MaxAttempts = 2
    MaxSockets = 8
    MaxEvents = 3
SPECIFICATION FairSpec
CHECK_DEADLOCK FALSE
INVARIANTS TypeOK OneSocket
PROPERTY ComesBack
