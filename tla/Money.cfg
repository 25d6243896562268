SPECIFICATION Spec
CONSTANTS
    Eur = EUR
    Usd = USD
    Jpy = JPY
    Currencies <- ThreeCurrencies
    MinorUnitDigits <- Digits
    Dates = {1, 2}
    ValueDate = 2
    Observed <- SampledObservations
    AuthoredRates <- SampledRates
    Amounts = {0, 1, 5, 7, 60, 99}
    None = None
    SignificantDigits = 2
    MaxCoefficient = 92
    MaxMinorUnits = 9223
    MaxWide = 170141
CHECK_DEADLOCK FALSE
INVARIANTS
    QuoteIsNearest
    QuoteConvertsAlike
    RoundedOnce
