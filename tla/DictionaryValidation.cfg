\* The validation of malformed and of well-formed buffers.
SPECIFICATION Spec
CONSTANTS
    NumBytes = 2
    MaxTokenSize = 3
    OffsetLimit = 8
    MaxNumTokens = 4
    Raws <- MCRaws
INVARIANTS
    VerdictsAgree
    AcceptedIsReadable
    ConformanceIsExact
PROPERTY
    PaddingSuffices
CHECK_DEADLOCK FALSE
