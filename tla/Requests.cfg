\* Calls on three routes while the caller writes and the registry changes.
CONSTANTS
    Ids = {"o1", "a1", "g1"}
    Infos <- NewInfos
    Overrides <- NewPrices
    Seed <- SeedModels
    Unset = Unset
    Asks <- AskOptions
    Written <- WrittenMessages
    Answers <- AnswerParts
    Usages <- UsageReports
    Rules <- RouteRules
    Sides = 2
    MaxMessages = 3
    MaxChanges = 1
    MaxSends = 3
    MaxNodes = 8
    MaxDepth = 4
    MaxProperties = 4
    NoName = NoName
    FormatCapable <- HasFormat
    FormatRejected <- RefusesFormat
    SchemaOnWire <- SentSchema
    None = None
    NotSet = NotSet
    ContextCalls <- SmallContexts
    ScopeCalls <- SmallScopes
    MergeCalls <- SmallMerges
    ChunkCalls <- SmallTexts
    SnapshotCalls <- SmallSnapshots
    SpeechCalls <- SmallSpeech
    Ordinals = {0, 1, 2, 3}
    FusionK = 2
    Scale = 60
    HeaderLen = 7
    EnvelopeLen = 7
    PrefixLen = 3
    MarkerLen = 2
    DefaultRounds = 10
    MaxRounds = 200
    DefaultTimeout = 60
    MaxTimeout = 600
    KnownProviders = {"anthropic", "google", "openai"}
    ControlNames = {}
    Sessions <- ListedSessions
    Models = {1}
    Filters <- ListFilters
    Limits = {1, 2}
    Undefined = Undefined
    StoredKeys <- ListedKeys
    MaxWrites = 1
    MaxPages = 3
SPECIFICATION MCSpec
\* the caller may have written all its messages and called no more
CHECK_DEADLOCK FALSE
INVARIANTS RequestFaithful SchemasKept TokensBilledOnce RegistrySound
    ContextWithinBudget AnswersGrounded FusionRanks ChunksCoverText
    PayloadsIndependentOfReads SnapshotRoundTrip
    SpeechBudgetKept RedactionSound PagesCoverListing
