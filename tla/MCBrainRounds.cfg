CONSTANTS
    ask = ask
    search = search
    lookup = lookup
    llama = llama
    gpt = gpt
    claude = claude
    Requests = {r1}
    Nobody = Nobody
    BrainPlans <- AllPlans
    FallbackModels <- MCFallbackModels
    MaxRounds = 2
    RecursionLimit = 4
SPECIFICATION Spec
INVARIANT RoundsBounded
