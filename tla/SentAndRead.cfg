SPECIFICATION AgentsSpec
CONSTANTS
    Budget = 3
    Lengths <- SomeLengths
    MaxMessages = 3
    Alphabets <- Both
    MaxPieces = 6
    MaxQuery = 2
INVARIANTS
    TypeOK OneCheckpoint SentFits NoGaps NothingWasted BareOnlyIfTooLong
    CallFound NothingLost LastKeywordWins ApprovalIsAWord
PROPERTIES PhaseStartsWhole OnlySummaryShortens
