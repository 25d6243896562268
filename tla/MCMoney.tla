-------------------------------- MODULE MCMoney --------------------------------
(* Instances of Money for TLC.                                                 *)
EXTENDS Money, TLC

CONSTANTS Usd, Jpy

ThreeCurrencies == {Eur, Usd, Jpy}
Digits == (Eur :> 1) @@ (Usd :> 1) @@ (Jpy :> 0)

\* Every remainder and tie a division by a small number has, both ends of the range,
\* and one scale that overflows the division.
SampledRates ==
    [coefficient : {1, 2, 3, 7, 8, 11, 16, 19, 64, 91}, scale : {0, 1, 2}]
      \cup {[coefficient |-> 91, scale |-> 4]}

SampledObservations ==
    {[date |-> 2, rate |-> r] : r \in SampledRates} \cup {[date |-> 1, rate |-> One]}
================================================================================
