\* All calls on two tuples with one legacy key.
CONSTANTS
    first = first  twin = twin  other = other
    k1 = k1  k2 = k2  k3 = k3  shared = shared
    Client = {c1, c2, c3}
    Tuple = {first, twin}
    Key = {k1, k2, shared}
    V2 <- V2Keys
    Legacy <- LegacyKeys
    NoTuple = NoTuple
    Old = Old
    Calls <- AllCalls
    Expected = {0, 1}
    Duplicates = TRUE
SPECIFICATION Spec
SYMMETRY Callers
\* every call may have returned
CHECK_DEADLOCK FALSE
PROPERTIES CallsKeepToTuple
