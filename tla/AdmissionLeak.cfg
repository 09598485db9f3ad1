CONSTANTS
    c1 = c1
    c2 = c2
    c3 = c3
    c4 = c4
    a1 = a1
    a2 = a2
    Conns <- MCConns
    Addrs <- MCAddrs
    AddrOf <- MCAddrOf
    MaxPerIp = 2
    MaxConcurrent = 2
    MaxSuspicious = 1
    Hangups <- MCAddrs
SPECIFICATION Spec
INVARIANT ReservationsPaired
