\* Three requests of every kind but delete on two sessions, messages may
\* create sessions, store calls may fail.
CONSTANTS
    Request = {r1, r2, r3}
    Session = {a, b}
    Nobody = Nobody
    Kinds <- NoDeletes
    AllowImplicit = TRUE
    FaultyStore = TRUE
    Expiring = FALSE
SPECIFICATION Spec
SYMMETRY Interchangeable
\* every request may have been answered
CHECK_DEADLOCK FALSE
INVARIANTS AnswersTrue
PROPERTIES ImplementsSerialSessions
