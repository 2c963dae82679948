CONSTANTS
    Workers = {w1}
    Pushers = {p1}
    TimedPushers = {}
    Queues = {q1}
    Tasks = {t1}
    Limits = {1}
    NoTask = NoTask
    NoQueue = NoQueue
SPECIFICATION FairSpec
CHECK_DEADLOCK FALSE
PROPERTY StopEndsWorkers
