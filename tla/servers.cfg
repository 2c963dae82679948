CONSTANTS
    Clients = {c1, c2} Users = {u1} Ids = {i1, i2} MaxSessionsPerUser = 1
    NoId = NoId NoUser = NoUser
    k1 = k1 k2 = k2 k3 = k3 k4 = k4 k5 = k5 p1 = p1 p2 = p2
    Acceptors = {a1, a2} Conns <- MCConns Addrs = {p1, p2} Addr <- MCAddr
    MaxConcurrentClients = 3 MaxConnectionsPerIP = 2 Program = Program NoConn = NoConn
SPECIFICATION MCSpec
CHECK_DEADLOCK FALSE
INVARIANTS RegistrationHolds NoUseAfterFree ClientsWithinLimit AddressCountExact OutlivesThreads
PROPERTIES CollectorWorks DestructorReturns
