\* Fixed-threshold training on every short corpus, and budgeted training with an adaptive
\* threshold on random samples of the rows.
SPECIFICATION MCSpec
CONSTANTS
    NumBytes = 2
    MaxTokenSize = 4
    MinThreshold = 2
    MaxThreshold = 3
    MinCheckInterval = 1
    DictCapacity = 5
    TokenSpace = 5
    ShuffleSlack = 1
    Corpora <- MCCorpora
    Configs <- MCConfigs
INVARIANTS
    PrevIsLongest
    DictionaryInStep
    CountsNeverSaturate
    SealedConforms
    BudgetRespected
    ControllerInStep
    SampleSuffices
PROPERTIES
    ImplementsGrowth
    Terminates
CHECK_DEADLOCK FALSE
