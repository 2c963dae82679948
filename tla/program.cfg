CONSTANTS
    Workers = {w1, w2} Pushers = {p1, p2} TimedPushers = {p1} Queues = {q1, q2}
    Tasks = {t1, t2, t3} Limits = {0, 1} NoTask = NoTask NoQueue = NoQueue
    y1 = y1 k1 = k1 k2 = k2 v1 = v1 v2 = v2
    JPayloads = {y1} PayloadSize <- MCPayloadSize JKeys = {k1, k2} Algorithm = "HS"
    Verifiers = {v1, v2} CacheSizes = {1, 2}
    SvPrograms = {"p", "q"} SvPlans <- MCSvPlans SvMaxKills = 1 SvMaxRotations = 1
    WlCallers = {"a", "b"} WlConfigs <- MCWlConfigs WlMaxEntries = 3 WlMaxFaults = 1
SPECIFICATION MCSpec
SYMMETRY Symmetry
CHECK_DEADLOCK FALSE
INVARIANTS PoolWork NoMissedWakeup  ServiceSound 
PROPERTIES ExitOnlyWhenDrained 
