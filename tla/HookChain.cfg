SPECIFICATION Spec
CONSTANTS
    Other = {opcache, xdebug}
    phpatcher = phpatcher
    engine = engine
    NULL = NULL
    Configs <- MCConfigs
    MaxStarts = 2
SYMMETRY Interchangeable
INVARIANTS
    CallsGetThrough
    StaysInChain
PROPERTY OthersAreKept
CHECK_DEADLOCK FALSE
