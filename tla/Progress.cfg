SPECIFICATION StartedSpec
CONSTANTS
    LongMonth = 3
    ShortMonth = 2
    DaysPerWeek = 2
    MonthsPerYear = 2
    s1 = s1
    s2 = s2
    c1 = c1
    c2 = c2
    food = food
    rent = rent
    tx = tx
    Supervisor = Supervisor
    NoCategory = NoCategory
    Generated = Generated
    Sources = {s1, s2}
    Clients = {c1}
    Categories = {food}
    Manual = {tx}
    Drafts <- FiniteFoodDraft
    EditRules = {}
    EditNexts = {}
    EditTotals = {}
    EditDescriptions = {}
    EditCategories = {}
    Operations <- LeaveAndRecovery
    MaxClock = 1
    MaxRevision = 3
    MaxFaults = 1
    Horizon = 1
INVARIANTS
    OneOccurrencePerTransaction
PROPERTIES
    EverythingDueIsHandled
    LifecycleCommandsEnd
    RepairedIsRetried
CHECK_DEADLOCK FALSE
