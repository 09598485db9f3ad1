CONSTANTS
    c1 = c1
    c2 = c2
    c3 = c3
    c4 = c4
    a1 = a1
    a2 = a2
    Conns <- MCConns
    Addrs <- MCAddrs
    AddrOf <- MCAddrOf
    MaxPerIp = 2
    MaxConcurrent = 2
    MaxSuspicious = 0
    Hangups <- MCHangups
SPECIFICATION FairSpec
INVARIANTS
    TypeOK
    SlotsCovered
    WithinLimits
    OthersPaired
PROPERTY QuietAddressForgotten
