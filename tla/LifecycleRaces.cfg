SPECIFICATION Spec
CONSTANTS
    LongMonth = 3
    ShortMonth = 2
    DaysPerWeek = 2
    MonthsPerYear = 2
    s1 = s1
    s2 = s2
    c1 = c1
    c2 = c2
    food = food
    rent = rent
    tx = tx
    Supervisor = Supervisor
    NoCategory = NoCategory
    Generated = Generated
    Sources = {s1}
    Clients = {c1, c2}
    Categories = {food}
    Manual = {}
    Drafts <- FiniteFoodDraft
    EditRules <- EveryOtherDay
    EditNexts = {}
    EditTotals = {}
    EditDescriptions = {}
    EditCategories = {food}
    Operations <- RacingCommands
    MaxClock = 2
    MaxRevision = 5
    MaxFaults = 1
    Horizon = 1
INVARIANTS
    TypeOK
    ExactlyOnce
    HeadWhileOpen
PROPERTIES
    EndIsFinal
    SkippedStaySkipped
    PassedOnlyByHeadMoves
SYMMETRY ClientSymmetry
CHECK_DEADLOCK FALSE
