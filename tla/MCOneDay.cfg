\* A stream, a chat and a summary on one day, with store errors, a crash and a disconnect.
SPECIFICATION FairSpec
CONSTANTS
    c1 = c1
    c2 = c2
    c3 = c3
    Calls = {c1, c2, c3}
    Kind <- Mixed3
    Inputs = {1, 2}
    MaxOutputTokens = 2
    MaxTokensPerRequest = 4
    TokensPerDay = 7
    CostPerDay = 3
    InputCost = 500
    OutputCost = 500
    Usages <- SomeUsages
    FallbackOutputs = {1}
    MaxProviderRetries = 1
    LastDay = 1
    Faults <- Lossy
INVARIANTS TypeOK NothingHeldAfterClosing CountersExact
PROPERTIES ImplementsLedger GenerateCallsEnd
