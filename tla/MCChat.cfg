\* A send, a stream and a post, two of them at a time; the window holds one question.
CONSTANTS
    r1 = r1
    r2 = r2
    r3 = r3
    Requests = {r1, r2, r3}
    Kind <- MCKind
    Concurrency = 2
    PoolSize = 2
    Window = 2
    SummaryTokens = 1
    MessageTokens <- MCMessageTokens
    MaxToolIterations = 1
SPECIFICATION Spec
INVARIANTS
    TypeOK
    AnswerFollowsQuestion
    RealTimeOrder
    QuestionConsidered
    SummaryHasNoHole
PROPERTIES
    ImplementsChatLog
CONSTRAINT FewMishaps
