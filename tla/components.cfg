CONSTANTS
    Callers = {c1, c2} Retrying = {c1} Queries = {q1} MaxTries = 2 MaxConnections = 2
    MaxRequestId = 2 WritesMayFail = TRUE Nobody = Nobody c1 = c1 c2 = c2 q1 = q1
    SQLDrivers = {"MariaDB", "PostgreSQL", "SQLite3"} ResultRows <- MCRows
    SQLKeys <- MCSQLKeys MaxPlaceholders = 2 MaxLosses = 2
    MaxChunkSize = 2 MaxChunks = 3 BInputs <- MCBInputs BMax = 5 BInMemory = 4
    SPlans <- MCPlans SPMaxTTL = 4 SPMaxVars = 2
    HPlans <- MCHPlans HMaxPost = 5 HMaxChunk = 3
    WSFrames <- MCWSFrames WSMaxFrames = 3 WSByte = 5 WSMaxPayload = 262144
    WSLengths <- MCWSLengths WSMaxFrameSize = 65535
    WConfigs <- MCWConfigs WRequests <- MCWRequests WEndpoints <- MCEndpoints WDisk <- MCDisk
    WPages <- MCPages WMaxRequests = 2 WMaxIncludes = 4 NoTok = NoTok
    SFds = {1, 2, 3} SNames <- MCSNames SMaxOpens = 2 SMaxCalls = 1
    SBase = 4 SDelim <- MCSDelim SBlock = 2 SChunk = 2 SLineBuffer = 3 CPlans <- MCCPlans
    TSockets = {"a", "b"} THandles = {1, 2} TSetups <- MCTSetups TParent <- MCTParent TRetries = 1
    XIds = {1, 2} XConnects = 2 XPlans <- MCXPlans XBytes <- MCXBytes XWindow = 1 XSendBuf = 1 XCallbacks = {"accepted", "failed"}
    MIMEMessages <- MCMIMEMessages MMaxVars = 2 MMaxOptions = 2 MMaxSubs = 4 MBase = 2
    ChPlans <- MCChPlans ChCapacity = 2
    JeFunctions <- MCJeFunctions JeTrees <- MCJeTrees JeTexts <- MCJeTexts JeDocuments <- MCJeDocs
SPECIFICATION MCSpec
CHECK_DEADLOCK FALSE
INVARIANTS RPC3Sound 
     
    
    
     
    
