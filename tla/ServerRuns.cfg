SPECIFICATION CliSpec
CONSTANTS
    r1 = r1
    r2 = r2
    r3 = r3
    Requests <- ThreeRequests
    Clis <- TwoClis
    MaxTasks = 2
    Capacity = 1
INVARIANTS TypeOK PermitsAccounted CancelledMeansGone CliConnected PromptAnswerable
PROPERTIES GoneReleases QueueMoves EachKeepsLifecycle CliUnblocks
