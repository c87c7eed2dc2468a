\* Two chats across midnight: a close in the new day takes another reservation.
SPECIFICATION Spec
CONSTANTS
    c1 = c1
    c2 = c2
    c3 = c3
    Calls = {c1, c2}
    Kind <- Chats2
    Inputs = {1, 2}
    MaxOutputTokens = 2
    MaxTokensPerRequest = 4
    TokensPerDay = 7
    CostPerDay = 3
    InputCost = 500
    OutputCost = 500
    Usages <- SomeUsages
    FallbackOutputs = {1}
    MaxProviderRetries = 1
    LastDay = 2
    Faults <- NoFaults
SYMMETRY Symmetry
INVARIANTS ReservationsIndependent
