SPECIFICATION Spec
CONSTANTS
    Budget = 3
    Lengths <- SomeLengths
    MaxMessages = 3
INVARIANT TruncationSignalled
