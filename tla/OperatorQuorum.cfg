CONSTANTS
    o1 = o1
    o2 = o2
    a = a
    b = b
    None = None
    Operators <- TwoOperators
    Clients <- TwoClients
    Faulty <- OneFaulty
    Count = 2
    Threshold = 2
    MaxFaults = 1
    MaxDemos = 1
SPECIFICATION FairSpec
CHECK_DEADLOCK FALSE
INVARIANTS
    TypeOK
    NobodyDealsBeforeAllCommit
    OneKey
    CompleteMeansEveryoneHasAShare
    NoncesSignOnce
PROPERTIES
    CeremonyEnds
    ReturnersServe
