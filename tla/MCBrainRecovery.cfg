CONSTANTS
    ask = ask
    search = search
    lookup = lookup
    llama = llama
    gpt = gpt
    claude = claude
    Requests = {r1, r2}
    Nobody = Nobody
    BrainPlans <- FewPlans
    FallbackModels <- MCFallbackModels
    MaxRounds = 2
    RecursionLimit = 3
SPECIFICATION Spec
INVARIANTS
    TypeOK
    EveryExecutionReported
    RecoveryKeepsLLMSteps
    LastExecutionAnswers
    ReportJustified
    LimitNeverReached
