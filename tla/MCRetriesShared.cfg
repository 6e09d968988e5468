CONSTANTS
    a = a
    b = b
    c = c
    d = d
    Execs = {e1, e2}
    StepIds <- MCStepIds
    Plans <- MCPlans
    MaxRetries = 1
    MaxConcurrency = 2
SPECIFICATION Spec
INVARIANT OwnRetriesUsedUp
