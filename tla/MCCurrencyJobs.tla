---------------------------- MODULE MCCurrencyJobs ----------------------------
(* Instances of TransactionImport (and with it CurrencyJobs) for TLC.          *)
EXTENDS TransactionImport, TLC

CONSTANTS d1, d2    \* drives, interchangeable

\* One importable row, in a provider currency, in one file.
OneForeignKey == [k \in Keys |-> "USD"]
WholeFiles == [f \in Files |-> Keys]

DriveSymmetry == Permutations({d1, d2})
===============================================================================
