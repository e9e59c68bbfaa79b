CONSTANTS
    Strategies = {"a", "b", "x"}
    Owner <- MCOwner
    AppOf <- MCAppOf
    HashOf <- MCHashOf
    TokensOf <- MCTokensOf
    Router = "router"
    Outcomes <- MCOutcomes
    Genesis = {"b", "x"}
    Page = 1
    BudgetOf <- MCBudgetOf
    WindowOf <- MCWindowOf
    MaxLag = 1
    First = 2
    MaxBlock = 3
    MaxFaults = 1
SPECIFICATION RecordsSpec
INVARIANTS RecordsInv VerdictsAreEarned HistoryIsTheBook
CHECK_DEADLOCK FALSE
