SPECIFICATION ExchangeSpec
CONSTANTS
    Radix = 3
    Width = 2
    Answer <- MCAnswer
    MaxRequests = 3
    PipeSize = 2
    BufferSize = 3
INVARIANTS
    KeysAreTheAnswers
    NothingLeftOver
PROPERTY BothEnd
CHECK_DEADLOCK FALSE
