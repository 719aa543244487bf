\* The training matcher after every short sequence of insertions.
SPECIFICATION LpmSpec
CONSTANTS
    NumBytes = 2
    MaxTokenSize = 8
    WordSize = 4
    PromoteThreshold = 2
    Insertable <- MCInsertable
    MaxTokens = 7
    Windows <- MCWindows
INVARIANTS
    FindsLongest
    HoldsEveryToken
CHECK_DEADLOCK FALSE
