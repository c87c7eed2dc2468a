\* Summaries on one day: an empty answer keeps its reservation.
SPECIFICATION Spec
CONSTANTS
    c1 = c1
    c2 = c2
    c3 = c3
    Calls = {c1, c2}
    Kind <- Summaries2
    Inputs = {1, 2}
    MaxOutputTokens = 2
    MaxTokensPerRequest = 4
    TokensPerDay = 7
    CostPerDay = 3
    InputCost = 500
    OutputCost = 500
    Usages <- SomeUsages
    FallbackOutputs = {1}
    MaxProviderRetries = 1
    LastDay = 1
    Faults <- NoFaults
INVARIANTS NothingHeldAfterAnswer
