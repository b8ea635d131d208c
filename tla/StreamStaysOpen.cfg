SPECIFICATION KindSpec
CONSTANTS
    r1 = r1
    r2 = r2
    r3 = r3
    Requests <- TwoRequests
    MaxTasks = 1
    Capacity = 2
PROPERTY StreamCloses
