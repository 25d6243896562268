SPECIFICATION Spec
CONSTANTS
    c1 = c1
    c2 = c2
    Categories <- TwoCategories
    None = None
    BudgetIds = {"b1"}
    Transactions = {"t1"}
    Settings <- SomeSettings
    Amount = 2
    MaxPeriod = 2
    Entries <- SomeEntries
CONSTRAINT BudgetRemains
SYMMETRY BudgetsSymmetry
INVARIANTS
    PeriodsAgree
    EveryStatusIsAnnounced
    ForecastIsKept
CHECK_DEADLOCK FALSE
