\* A feed and a statement become a batch; the mapping may be proposed and confirmed.
CONSTANTS
    NoValue = NoValue
    Blank = Blank
    Malformed = Malformed
    Infinite = Infinite
    Trimmed <- MCTrimmed
    DateOf <- MCDateOf
    Paise <- MCPaise
    Grouped <- MCGrouped
    Statement <- MCStatement
    Mapping <- MCMapping
    Recognised <- MCRecognised
    SupportedFormat <- MCFormat
    FormatPair <- MCFormatPair
    SampleRows = 2
    MaxModelCalls = 2
    FeedRow <- MCFeedRow
    MaxRows = 3
SPECIFICATION Spec
INVARIANTS
    NothingVanishes
    QuarantineIsLocal
    RefetchIsHarmless
    MoneyIsSourceNet
    EveryRowAccounted
    StatementOrderIsIrrelevant
    AmbiguityIsAnswered
    ConfirmedMappingReads
    ProposalIsChecked
CHECK_DEADLOCK FALSE
