\* What a comment of find_all says of the block after the one it searches.
SPECIFICATION Spec
CONSTANTS
    NumBytes = 2
    MaxTokenSize = 3
    Vocabularies <- MCVocabularies
    BlockKeys = 2
    Searches <- MCSearches
INVARIANT
    NextBlockIsLarger
