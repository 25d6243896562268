SPECIFICATION Spec
CONSTANTS
    Obs <- SmallObs
    CurrencyOf <- SmallCurrency
    YearOf <- SmallYear
    Years = {1, 2}
    Supervisor = "supervisor"
    Drives = {"drive"}
    Requests = {"request"}
    Nil = "nil"
    MaxTime = 2
    MaxVersion = 2
    MaxFaults = 1
INVARIANTS
    NoUpdateLost
PROPERTIES
    CatchesUp
    AlertCloses
