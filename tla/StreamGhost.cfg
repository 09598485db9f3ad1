CONSTANTS
    u1 = u1
    u2 = u2
    Users <- TwoUsers
    Watchers <- OneWatcher
    Capacity = 2
    Buffer = 0
    MaxLog = 5
    MaxAsked = 1
SPECIFICATION Spec
CHECK_DEADLOCK FALSE
INVARIANT KeptCurrent
