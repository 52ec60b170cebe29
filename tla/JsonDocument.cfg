SPECIFICATION Spec
CONSTANTS
    Ieee <- MCIeee
    Alphabets <- MCAlphabets
    Samples <- MCSamples
    Names <- MCNames
    Additions <- MCAdditions
    Operations <- MCOperations
    Merges <- MCMerges
    Callbacks <- MCCallbacks
    RefTokens <- MCRefTokens
    Settings <- MCSettings
    Drafts <- MCDrafts
    MaxEdits = 1
INVARIANTS
    AcceptsTheGrammar
    DumpReadsBack
    CallbackPrunes
    CborReadsBack
    MsgpackReadsBack
    UbjsonReadsBack
    BsonReadsBack
    PointersAgree
    FlattenRestores
PROPERTIES
    DiffRestores
    MergeApplies
CHECK_DEADLOCK FALSE
