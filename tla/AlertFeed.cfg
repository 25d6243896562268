SPECIFICATION FairSpec
CONSTANTS
    c1 = c1
    p1 = p1
    rates = rates
    budget = budget
    NoOne = NoOne
    Failed = Failed
    Pending = Pending
    Callers = {c1, p1}
    Clients = {c1}
    WebClients = {c1}
    Keys = {rates, budget}
    Earlier = rates
    ProducerJobs <- AlertJobs
    Filters = {"all"}
    Capacity = 1
    PageSize = 1
    BusCapacity = 1
    MaxRequests = 2
    MaxWrites = 2
    MaxIncidents = 1
INVARIANTS
    SettledFeedIsCurrent
PROPERTIES
    CommandsEnd
CHECK_DEADLOCK FALSE
