\* Budgets of the conversation and of a request, a sliding window of three
\* messages, and callbacks that may hang.
CONSTANTS
    s1 = s1  s2 = s2  x1 = x1  None = None
    Foreign = Foreign
    NoBudget = NoBudget
    Turns = {s1, x1}
    Streams = {x1}
    Calls = {c1}
    MaxToolRounds = 2
    HasExecutor = TRUE
    HasStore = FALSE
    StrictLogging = TRUE
    ConversationBudget = 3
    RequestBudget <- BudgetOfTwo
    BudgetAction <- Skipping
    Costs = {1, 2}
    TrimOutcomes <- SlideWindow
    MaxForeignWrites = 0
SPECIFICATION FairSpec
\* every turn may have ended
CHECK_DEADLOCK FALSE
INVARIANTS BudgetRespected ResultsFollowCalls
PROPERTIES EveryTurnEnds
