\* Every planned matcher on every instruction set, over streams of up to two blocks.
SPECIFICATION MatchersSpec
CONSTANTS
    Cpus <- MCCpus
    Covers <- MCCovers
    Streams <- MCStreams
    Densities <- MCDensities
    BlockLen = 256
INVARIANTS
    HitsAreExact
    PlannedMatcherRuns
    Crossovers
