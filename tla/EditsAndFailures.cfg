SPECIFICATION Spec
CONSTANTS
    LongMonth = 3
    ShortMonth = 2
    DaysPerWeek = 2
    MonthsPerYear = 2
    s1 = s1
    s2 = s2
    c1 = c1
    c2 = c2
    food = food
    rent = rent
    tx = tx
    Supervisor = Supervisor
    NoCategory = NoCategory
    Generated = Generated
    Sources = {s1}
    Clients = {c1}
    Categories = {food}
    Manual = {tx}
    Drafts <- EditedFoodDrafts
    EditRules <- DailyRule
    EditNexts = {3}
    EditTotals = {2}
    EditDescriptions = {"flat"}
    EditCategories = {}
    Operations <- EditsAndRecovery
    MaxClock = 4
    MaxRevision = 4
    MaxFaults = 0
    Horizon = 1
INVARIANTS
    FiniteTotalRespected
    HeadCoherent
    AlertsAgree
PROPERTIES
    KeepsLedger
    CatchUpAsForecast
    WaitingComesDue
CHECK_DEADLOCK FALSE
