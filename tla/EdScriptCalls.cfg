SPECIFICATION Spec
CONSTANTS
    Core <- MCCore
    NoCore = ""
    CoreBytes <- MCCoreBytes
    Path = {"f", "g"}
    ReadsAs <- NoneReadsAs
    Calls <- MCCalls
    Versions <- CorpusVersions
    MaxLine = 9
INVARIANTS
    TypeOK
    OrderExact
    RangeIsOriginals
    OneSnapshot
    HashedIsIntended
PROPERTY ImplementsOriginal
CHECK_DEADLOCK FALSE
