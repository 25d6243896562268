SPECIFICATION Spec
CONSTANTS
    Currencies = {"EUR", "USD"}
    EUR = "EUR"
    Keys = {"coffee"}
    CurrencyOf <- OneForeignKey
    Clients = {"u"}
    d1 = d1
    d2 = d2
    Drives = {d1, d2}
    Nil = "nil"
    MaxJobs = 2
    MaxSets = 1
    MaxRows = 1
    MaxRevision = 2
    MaxCrashes = 1
    Files = {"statement"}
    RowsOf <- WholeFiles
    Invalid = {}
INVARIANTS
    DefaultIsActiveTarget
    SucceededTookEffect
    RunningJobIsDriven
PROPERTY
    ImportsOnlyNewRows
SYMMETRY DriveSymmetry
CHECK_DEADLOCK FALSE
