CONSTANTS
    Callers = {c1, c2}
    Retrying = {c1}
    Queries = {q1}
    MaxTries = 2
    MaxConnections = 1
    MaxRequestId = 2
    WritesMayFail = TRUE
    Nobody = Nobody
SPECIFICATION RPC1FairSpec
CHECK_DEADLOCK FALSE
INVARIANTS HandlerFrameAlive AnswersKept
PROPERTIES BothSidesReturn
