CONSTANTS
    c1 = c1
    c2 = c2
    c3 = c3
    c4 = c4
    u1 = u1
    u2 = u2
    u3 = u3
    n1 = n1
    n2 = n2
    n3 = n3
    Gone = Gone
    Unknown = Unknown
    NoName = NoName
    Users <- SoloUsers
    Conns <- SoloConns
    Who <- SoloWho
    Names <- ThreeNames
    Limit = 2
    Permanent = FALSE
    Hangups = FALSE
SPECIFICATION FairSpec
INVARIANTS
    TypeOK
    NoGhosts
PROPERTIES
    OnlyOwnTeardownDeparts
    AbandonedRoomForgotten
    SocketClosesUnlessOrphaned
