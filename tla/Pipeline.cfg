SPECIFICATION PipeSpec
CONSTANTS
    Core <- MCCore
    NoCore = 0
    CoreBytes <- MCCoreBytes
    ReadsAs <- MCReadsAs
    Path = {"a", "./a", "b", "c"}
    NoPath = "none"
    Diffs <- MCDiffs
    OldText <- MCOld
    AddedText <- MCAdded
    Dot <- MCDot
    Dotted <- MCDotted
    ContextLines = 3
    Foreign <- MCForeign
    MaxCut = 16
    Key = {1, 2, 3}
    Canonical <- MCCanonical
    Real <- Swapped
    Base <- MCBase
INVARIANTS
    NothingLost
    OwnedByHeader
    FindIsExact
    FilterIsComplete
    FilesAreReproduced
    CutIsWhole
CHECK_DEADLOCK FALSE
