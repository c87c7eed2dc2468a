\* A send, a stream and a post, two at a time, over a pool of one connection; the window
\* holds two questions, so that a third message brings a summary.
CONSTANTS
    r1 = r1
    r2 = r2
    r3 = r3
    Requests = {r1, r2, r3}
    Kind <- MCKind
    Concurrency = 2
    PoolSize = 1
    Window = 5
    SummaryTokens = 1
    MessageTokens <- MCMessageTokens
    MaxToolIterations = 2
SPECIFICATION FairSpec
INVARIANTS
    AnswersSettled
PROPERTIES
    RequestsEnd
