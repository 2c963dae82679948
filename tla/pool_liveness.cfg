CONSTANTS
    Workers = {w1}
    Pushers = {p1, p2}
    TimedPushers = {}
    Queues = {q1}
    Tasks = {t1, t2, t3}
    Limits = {0, 1}
    NoTask = NoTask
    NoQueue = NoQueue
SPECIFICATION FairSpec
CHECK_DEADLOCK FALSE
PROPERTIES PoolProgress
