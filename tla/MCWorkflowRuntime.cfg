CONSTANTS
    w1 = w1
    w2 = w2
    a = a
    b = b
    c = c
    d = d
    x = x
    y = y
    z = z
    Workflows = {w1, w2}
    Tasks = {a, b, c, d, x, y, z}
    Owner <- MCOwner
    Deps <- MCDeps
    MaxWorkers = 2
SPECIFICATION FairSpec
INVARIANTS
    TypeOK
    WorkersReleased
    NothingRunsAhead
    CompletionAccounts
PROPERTY EveryExecutionEnds
