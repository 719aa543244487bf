\* tokenize and prefix_range, on conformant and on merely safe dictionaries.
SPECIFICATION FairSpec
CONSTANTS
    NumBytes = 2
    MaxTokenSize = 3
    Dictionaries <- MCDictionaries
    Texts <- MCTexts
INVARIANTS
    RangeIsExact
    TokenizesGreedily
PROPERTY
    Terminates
CHECK_DEADLOCK FALSE
