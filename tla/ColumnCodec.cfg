\* Encoding and decompressing columns, and decoding stored codes, into every buffer
\* length, with the program's token size.
SPECIFICATION CodecSpec
CONSTANTS
    NumBytes = 2
    MaxTokenSize = 16
    Dictionaries <- MCDictionaries
    CodeStreams <- MCCodeStreams
    Capacities <- MCCapacities
    Parsers <- MCParsers
    Arrays <- MCArrays
    RowLists <- MCRowLists
    OffsetLimit = 20
INVARIANTS
    StoresInBounds
    DecodedSoFar
    TooSmallIsExact
    RoundTripIsExact
