CONSTANTS
    t1 = t1 t2 = t2 t3 = t3 u1 = u1 u2 = u2 k1 = k1 k2 = k2
    c1 = c1 c2 = c2 c3 = c3 s1 = s1 s2 = s2
    QPushers = {t1, t2, t3} QPoppers = {u1, u2} QLimits = {0, 1}
    RSignatures = {k1, k2} LastTime = 2
    DBClients = {c1, c2} MaxReconnects = 2 MaxRows = 1
    PSockets = {s1, s2} PClients = {c1, c2, c3} PWorkers = 1 PQueueSize = 1
    MaxRetries = 2 UseTLS = TRUE
    BIncoming <- MCIncoming BChunked = TRUE MaxPings = 2
    RPCTasks = {t1, t2} RTokens <- MCTokens Revocable = {"u"} MaxPeers = 2
SPECIFICATION MCSpec
CHECK_DEADLOCK FALSE
INVARIANTS QueueItems RevocationListed  PooledClientServed
    ConnectorObeys BridgeDelivers
PROPERTIES  CallsReturn 
