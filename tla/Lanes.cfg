\* Interleaved parsing of every small corpus, contiguous and copied.
SPECIFICATION FairSpec
CONSTANTS
    NumBytes = 2
    MaxTokenSize = 3
    Vocabularies <- MCVocabularies
    Corpora <- MCCorpora
    NumLanes = 2
    BatchBytes = 2
    Leads = {0, 2}
    OffsetLimit <- MCOffsetLimit
INVARIANTS
    LanesKeepToTheirRows
    FinishedRowsAreFinal
PROPERTIES
    ImplementsGreedy
    Terminates
CHECK_DEADLOCK FALSE
