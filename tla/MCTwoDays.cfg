\* A stream and a chat across midnight, with keys that expire and an EVAL sent twice.
SPECIFICATION FairSpec
CONSTANTS
    c1 = c1
    c2 = c2
    c3 = c3
    Calls = {c1, c2}
    Kind <- StreamAndChat
    Inputs = {1, 2}
    MaxOutputTokens = 2
    MaxTokensPerRequest = 4
    TokensPerDay = 7
    CostPerDay = 3
    InputCost = 500
    OutputCost = 500
    Usages <- SomeUsages
    FallbackOutputs = {1}
    MaxProviderRetries = 1
    LastDay = 2
    Faults <- Resending
INVARIANTS NoPhantomReservation CountersExact DailyQuota ChargedOnce
PROPERTIES RefusedOnlyWhenFull HeldUntilClosed
