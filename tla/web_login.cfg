CONSTANTS
    Clients = {c1, c2}
    Users = {u1}
    Ids = {i1, i2}
    MaxSessionsPerUser = 1
    NoId = NoId
    NoUser = NoUser
SPECIFICATION RequestSpec
CHECK_DEADLOCK FALSE
INVARIANTS ReleaseReports
