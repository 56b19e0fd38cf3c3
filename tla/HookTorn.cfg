SPECIFICATION Spec
CONSTANTS
    Thread = {"a", "b"}
    Process = {"zts"}
    Home <- OneProcess
    Forking = FALSE
    Key = {"real"}
    Creates = {}
    Version = {"v1", "v2"}
    Halt = {}
    Fits <- FitsAll
    Corpus = {"c1"}
    CorpusFile = {}
    Quotes <- QuotesNone
    GoodCorpus <- GoodContents
    Config <- CacheOnly
    Handles <- Listed
    Nothing = "nothing"
    MaxCalls = 2
    MaxEvents = 1
INVARIANT NoTornSource
CHECK_DEADLOCK FALSE
