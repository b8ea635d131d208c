SPECIFICATION CallsSpec
CONSTANTS
    MaxRetries = 3
    Bodies <- SomeBodies
    Clients = 3
INVARIANTS TypeOK NothingTwice AnswerIsWhole NoClientSkipped
PROPERTIES CallEnds SearchEnds
