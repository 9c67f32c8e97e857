\* Guarded calls and reads on two tuples, one in the other's way.
CONSTANTS
    first = first  twin = twin  other = other
    k1 = k1  k2 = k2  k3 = k3  shared = shared
    Client = {c1, c2, c3}
    Tuple = {first, other}
    Key = {k1, k3, shared}
    V2 <- V2Keys
    Legacy <- LegacyKeys
    NoTuple = NoTuple
    Old = Old
    Calls <- GuardedCalls
    Expected = {0, 1, 2}
    Duplicates = FALSE
SPECIFICATION Spec
SYMMETRY Callers
\* every call may have returned
CHECK_DEADLOCK FALSE
PROPERTIES ImplementsVersionedStore
