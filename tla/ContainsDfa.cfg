\* The token automaton of every short pattern, run over rows of any tokenization.
SPECIFICATION DfaSpec
CONSTANTS
    NumBytes = 2
    MaxTokenSize = 3
    Vocabularies <- MCDictionaries
    Patterns <- MCPatterns
    MaxPatternLen = 6
    CodeRows <- MCCodeRows
INVARIANTS
    TransitionsAreExact
    RowContainsIsExact
CHECK_DEADLOCK FALSE
