\* Three callers, one of them a stream, and another process writing the session.
CONSTANTS
    s1 = s1  s2 = s2  x1 = x1  None = None
    Foreign = Foreign
    NoBudget = NoBudget
    Turns = {s1, s2, x1}
    Streams = {x1}
    Calls = {c1}
    MaxToolRounds = 1
    HasExecutor = TRUE
    HasStore = TRUE
    StrictLogging = TRUE
    ConversationBudget = NoBudget
    RequestBudget <- NoLimits
    BudgetAction <- Throwing
    Costs = {1}
    TrimOutcomes <- KeepAll
    MaxForeignWrites = 1
SPECIFICATION Spec
\* every turn may have ended
CHECK_DEADLOCK FALSE
INVARIANTS TurnsExclusive NoOvertaking MemoryMatchesStore AccountingExact
PROPERTIES CommitsWholeWantedTurns
