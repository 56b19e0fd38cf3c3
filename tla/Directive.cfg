SPECIFICATION DirSpec
CONSTANTS
    MAX = 127
    MaxDigits = 4
    Char <- MCChar
    Refs <- MCRefs
    Lines <- MCLines
INVARIANTS
    Exact
    RefusedIsTooBig
    RoundTrip
CHECK_DEADLOCK FALSE
