SPECIFICATION Spec
CONSTANTS
    Thread = {"w"}
    Process = {"w"}
    Home <- OwnProcess
    Forking = TRUE
    Key = {"real", "new"}
    Creates = {"new"}
    Version = {"v1", "halts"}
    Halt = {"halts"}
    Fits <- FitsAll
    Corpus = {"c1", "c2"}
    CorpusFile = {"lib", "app"}
    Quotes <- QuotesShared
    GoodCorpus <- GoodContents
    Config <- AllSettings
    Handles <- AllHandles
    Nothing = "nothing"
    MaxCalls = 2
    MaxEvents = 2
CONSTRAINT PlainCreated
INVARIANTS
    TypeOK
    FailClosed
    CreatedNeverFromDisk
    Provenance
    WarmupSnapshot
    MissesAreCounted
    FreshPatch
PROPERTY SlotsAreStable
CHECK_DEADLOCK FALSE
