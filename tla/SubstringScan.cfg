\* Preparation of every pattern, every cut it can plan with, and scans of sliced columns.
SPECIFICATION ScanSpec
CONSTANTS
    NumBytes = 2
    MaxTokenSize = 4
    Dictionaries <- MCDictionaries
    Patterns <- MCPatterns
    MaxPatternLen = 5
    MaxEnumeratedTokens = 2
    MaxSingleByteTokens = 1
    MaxTokens = 9
    MaxCodes = 15
    Sampled <- MCSampled
    Stored <- MCStored
    Prices <- MCPrices
    Views <- MCViews
    BlockLen = 3
INVARIANTS
    GraphIsExact
    MinimumCut
    ExpectedHitsAreExact
    HitsAreInTheirRow
    ScanIsExact
CHECK_DEADLOCK FALSE
