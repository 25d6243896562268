SPECIFICATION Spec
CONSTANTS
    Transactions = {"t1"}
    Eur = EUR
    Gbp = GBP
    Usd = USD
    Currencies <- ThreeCurrencies
    Enabled <- ThreeCurrencies
    Dates = {d1, d2}
    None = None
    MaxRevisions = 2
    MaxEpoch = 2
    MaxVersion = 1
SYMMETRY RatesSymmetry
INVARIANTS
    FollowsLatestRevision
    ManualRateKeepsItsQuote
    RateFitsTransaction
