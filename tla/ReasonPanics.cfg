SPECIFICATION TextSpec
CONSTANTS
    Alphabets <- OnlyReviews
    MaxPieces = 6
    MaxQuery = 2
INVARIANT ReasonIsCut
