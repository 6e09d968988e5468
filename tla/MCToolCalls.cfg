CONSTANTS
    t1 = t1
    t2 = t2
    c1 = c1
    c2 = c2
    c3 = c3
    u1 = u1
    u2 = u2
    None = None
    Tools = {t1, t2}
    Callers = {c1, c2, c3}
    Users = {u1, u2}
    User <- MCUser
    Permitted <- MCPermitted
    Careless = {c2}
    MaxCalls = 1
    Rediscoveries = {r1, r2}
    FailureThreshold = 2
    SuccessThreshold = 2
SPECIFICATION FairSpec
INVARIANTS
    TypeOK
    RateLimitOvershoot
    CountersMatchState
    NoToolLost
PROPERTY ToolsComeBack
