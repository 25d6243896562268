-------------------------- MODULE MCTransactionRates --------------------------
(* Instances of TransactionRates for TLC.                                      *)
EXTENDS TransactionRates, TLC

CONSTANTS Gbp, Usd

ThreeCurrencies == {Eur, Gbp, Usd}

\* Rates are looked up by the very date, and only the euro is special.
RatesSymmetry == Permutations(Dates) \cup Permutations({Gbp, Usd})
===============================================================================
