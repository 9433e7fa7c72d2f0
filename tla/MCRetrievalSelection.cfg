CONSTANTS
    MemoryIds = {1, 2, 3}
    Scores = {4, 5, 6}
    Threshold = 5
    Instants = {1, 2}
    Counts = {0, 1, 2}
    Limits = {2, 3}
    TokenBudgets = {0, 1}
    Null = Null
SPECIFICATION Spec
INVARIANTS
    EveryHitAccountedFor
    TokensAreExact
    NothingBetterLeftOut
    BudgetExclusionsAreReal
CHECK_DEADLOCK FALSE
