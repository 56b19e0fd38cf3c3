SPECIFICATION BindSpec
CONSTANTS
    Server = {fpm, cli}
    File = {f}
    Patch = {p1, p2}
    Base = {b1, b2}
    b1 = b1
    Off = Off
    Original = Original
    Stub = Stub
    Nothing = Nothing
    Lists <- MCLists
SYMMETRY Interchangeable
INVARIANTS
    ServedIsCurrent
CHECK_DEADLOCK FALSE
