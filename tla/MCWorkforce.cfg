CONSTANTS
    a1 = a1
    a2 = a2
    t1 = t1
    t2 = t2
    t3 = t3
    t4 = t4
    single = single
    batch = batch
    handed = handed
    None = None
    Agents = {a1, a2}
    Tasks = {t1, t2, t3, t4}
    Requests = {single, batch, handed}
    Kind <- MCKind
    Batch <- MCBatch
    Owner <- MCOwner
    OfType <- MCOfType
    Delegates = {a1, a2}
    RoleRank <- MCRoleRank
    Priority <- MCPriority
    Position <- MCPosition
    MaxTasks <- MCMaxTasks
    Reporting = {a1}
    MaxRetries = 1
SPECIFICATION FairSpec
INVARIANTS
    TypeOK
    LoadIsTasksInFlight
    EntriesAreAlive
PROPERTIES
    LostAgentsStayLost
    EveryDispatchAnswered
