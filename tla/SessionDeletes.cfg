\* Three requests of every kind on two sessions whose records may expire.
CONSTANTS
    Request = {r1, r2, r3}
    Session = {a, b}
    Nobody = Nobody
    Kinds <- AllKinds
    AllowImplicit = FALSE
    FaultyStore = TRUE
    Expiring = TRUE
SPECIFICATION FairSpec
\* every request may have been answered
CHECK_DEADLOCK FALSE
PROPERTIES NoSilentOverwrite EveryRequestAnswered
