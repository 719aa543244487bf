\* The frozen matcher: built from several dictionaries, then searched for pairs.
SPECIFICATION Spec
CONSTANTS
    NumBytes = 2
    MaxTokenSize = 3
    Vocabularies <- MCVocabularies
    BlockKeys = 2
    Searches <- MCSearches
INVARIANTS
    RecordsGiveLongest
    FindsGreedyCodes
