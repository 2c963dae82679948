CONSTANTS
    Callers = {c1}
    Retrying = {c1}
    Queries = {}
    MaxTries = 2
    MaxConnections = 1
    MaxRequestId = 2
    WritesMayFail = TRUE
    Nobody = Nobody
SPECIFICATION RPC3FairSpec
CHECK_DEADLOCK FALSE
PROPERTIES HandlerReturns
