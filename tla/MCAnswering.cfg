\* Two turns of up to two calls each, or a stream of up to two texts, with two retries.
SPECIFICATION Spec
CONSTANTS
    CardLength = 4
    Context <- MCContext
    Arguments <- MCArguments
    MaxCalls = 2
    MaxChunks = 2
    MaxToolIterations = 2
    MaxProviderRetries = 2
INVARIANTS TypeOK AnswerOfOneAttempt StoredIsWhatClientSaw RequestIsWhole VerdictIsLuhn
PROPERTIES ImplementsTurns
