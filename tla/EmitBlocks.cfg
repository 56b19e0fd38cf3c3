SPECIFICATION EmitSpec
CONSTANTS
    Core = {"", "a", "a ", "b", "o", "c", "r"}
    NoCore = ""
    CoreBytes <- MCCoreBytes
    Path = {1, 2}
    ReadsAs <- MCReadsAs
    Blocks <- MCBlocks
    Corpora <- MCCorpora
    TokenKey <- MCTokenKey
    IndexedKeys <- MCIndexedKeys
    Openers = {"o"}
    Closers = {"c"}
    MinRuns = {0, 2, 3}
    Hashed = {TRUE, FALSE}
INVARIANTS
    RunsAreCopies
    RunsAreDisjoint
    RunsAreMaximal
    NothingMissed
    GuardsHold
    ExpandsToBlock
CHECK_DEADLOCK FALSE
