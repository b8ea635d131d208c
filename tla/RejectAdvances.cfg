SPECIFICATION Spec
CONSTANTS
    MaxIterations = 3
    MaxToolCalls = 3
    MaxParseRetries = 3
    LimitResume <- DocumentedLimit
    TurnResume <- DocumentedTurn
PROPERTY RejectNeverAdvances
