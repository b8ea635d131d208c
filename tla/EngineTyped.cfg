SPECIFICATION Spec
CONSTANTS
    MaxIterations = 1
    MaxToolCalls = 1
    MaxParseRetries = 1
    LimitResume <- TypedLimit
    TurnResume <- TypedTurn
INVARIANTS IInv TypeOK OneTicket RegistryClean
PROPERTIES NoRunaway AnswerWakes CancelEnds ImplementsLifecycle
