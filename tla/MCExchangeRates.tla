---------------------------- MODULE MCExchangeRates ----------------------------
(* Instances of ExchangeRates for TLC: one currency, an observation a year.    *)
EXTENDS ExchangeRates

SmallObs == {"usd1", "usd2"}
SmallCurrency == [o \in SmallObs |-> "USD"]
SmallYear == [o \in SmallObs |-> IF o = "usd1" THEN 1 ELSE 2]
===============================================================================
