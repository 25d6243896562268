--------------------------------- MODULE Money ---------------------------------
(* Exchange-rate arithmetic: the quote of a pair by long division, and what is *)
(* converted with a rate.                                                      *)
(*   crates/core/src/money/{amount,convert,rate}.rs                            *)
(*   crates/core/src/features/exchange_rates/cross.rs                          *)
(*   crates/core/src/features/valuations/{allowance,projection}.rs             *)
(*   crates/core/src/features/transactions/import_models.rs                    *)
(*   crates/db/src/currency/lifecycle.rs (quote_on)                            *)
(*                                                                             *)
(* A rate is a positive decimal, coefficient / 10^scale.  Conversions compute  *)
(* with big integers; the division with i128, and a coefficient is an i64.     *)
(* One behavior asks for a quote, works it out digit by digit, and converts    *)
(* amounts with it or with the observations it came from.                      *)
EXTENDS Integers

CONSTANTS
    Currencies,
    Eur,                \* the currency the provider quotes in
    MinorUnitDigits,    \* CURRENT_MANIFEST: [Currencies -> Nat]
    Dates,
    ValueDate,          \* the date a quote is asked for
    Observed,           \* the observations an accepted set may hold of a currency
    AuthoredRates,      \* the rates an import mapping may hold
    Amounts,            \* the authored amounts, in minor units
    None,
    SignificantDigits,  \* RATE_SIGNIFICANT_DIGITS
    MaxCoefficient,     \* i64::MAX, for a coefficient
    MaxMinorUnits,      \* i64::MAX, for an amount
    MaxWide             \* i128::MAX

pow10[n \in Nat] == IF n = 0 THEN 1 ELSE 10 * pow10[n - 1]

\* More digits than any number the division handles has: i128::MAX has 39.
MostDigits == 2 * SignificantDigits + 5

Rates == [coefficient : 1 .. MaxCoefficient, scale : Nat]
One == [coefficient |-> 1, scale |-> 0]

ASSUME MoneyAssumption ==
    /\ Eur \in Currencies
    /\ MinorUnitDigits \in [Currencies -> Nat]
    /\ Dates \subseteq Nat /\ ValueDate \in Dates
    /\ Observed \subseteq [date : Dates, rate : Rates]
    /\ AuthoredRates \subseteq Rates
    /\ Amounts \subseteq 0 .. MaxMinorUnits
    /\ SignificantDigits \in Nat \ {0}
    /\ {MaxCoefficient, MaxMinorUnits, MaxWide} \subseteq Nat \ {0}
    /\ MaxWide + 1 < pow10[MostDigits]
    /\ None \notin Rates /\ None \notin Observed

VARIABLES
    accepted,     \* the accepted set: [Currencies \ {Eur} -> an observation or None]
    pair,         \* the source and the target of the quote, or None for a mapped rate
    phase,        \* "idle", "dividing", "quoted", "refused", "pending"
    dividend,
    divisor,
    digits,       \* the digits of the quotient so far, the whole part included
    places,       \* how many of them are after the point
    remainder,
    significant,
    quote,        \* the rate that was worked out, or None
    conversion    \* the last conversion, or None

division == <<dividend, divisor, digits, places, remainder, significant>>
vars == <<accepted, pair, phase, division, quote, conversion>>

\* The number of decimal digits of a number.
DigitCount(n) == CHOOSE k \in 1 .. MostDigits :
                    n < pow10[k] /\ (k = 1 \/ n >= pow10[k - 1])

-----------------------------------------------------------------------------
(* Conversion.                                                                 *)

\* Mutant: half is always rounded up.
RoundHalfUp(n, d) == LET q == n \div d IN IF 2 * (n % d) >= d THEN q + 1 ELSE q

RoundHalfEven(n, d) ==
    LET q == n \div d
        r == n % d
    IN  IF 2 * r > d \/ (2 * r = d /\ q % 2 = 1) THEN q + 1 ELSE q

Numerator(source, target, leg, reference, amount) ==
    amount * pow10[MinorUnitDigits[target]] * reference.coefficient * pow10[leg.scale]

Denominator(source, target, leg, reference) ==
    pow10[MinorUnitDigits[source]] * leg.coefficient * pow10[reference.scale]

Complete(n) == [minorUnits |-> n, complete |-> TRUE]
Incomplete == [minorUnits |-> None, complete |-> FALSE]

\* convert_with_rates; None is the refusal of a result that does not fit.
WithRates(source, target, leg, reference, amount) ==
    LET n == RoundHalfEven(Numerator(source, target, leg, reference, amount),
                           Denominator(source, target, leg, reference))
    IN  IF n > MaxMinorUnits THEN None ELSE Complete(n)

Identity == [variant |-> "identity"]
Pending == [variant |-> "pending"]
Manual(r) == [variant |-> "manual", rate |-> r]

\* AutomaticRate: two observations of one accepted set.
Automatic(leg, reference) ==
    [variant |-> "automatic", source |-> leg, reference |-> reference]

\* convert; None is an error.
Convert(source, target, rate, amount) ==
    CASE rate.variant = "identity" ->
            IF source = target THEN Complete(amount) ELSE None
      [] rate.variant # "identity" /\ source = target -> None
      [] rate.variant = "pending" /\ source # target -> Incomplete
      [] rate.variant = "manual" /\ source # target ->
            WithRates(source, target, One, rate.rate, amount)
      [] rate.variant = "automatic" /\ source # target ->
            IF rate.source.date = rate.reference.date
            THEN WithRates(source, target, rate.source.rate, rate.reference.rate, amount)
            ELSE None

-----------------------------------------------------------------------------
(* The legs of a pair.                                                         *)

\* observation_or_eur: the observation of that very date.
Leg(c, d) ==
    IF c = Eur THEN [date |-> d, rate |-> One]
    ELSE IF accepted[c] # None /\ accepted[c].date = d THEN accepted[c]
    ELSE None

\* legs_for_pair and automatic_pair: a rate from both legs, or none.
PairRate(source, target, d) ==
    IF source = target THEN Identity
    ELSE IF Leg(source, d) = None \/ Leg(target, d) = None THEN Pending
    ELSE Automatic(Leg(source, d), Leg(target, d))

\* The newest date of the set: where projections are quoted.
Newest == LET observed == {accepted[c] : c \in Currencies \ {Eur}} \ {None}
          IN  IF observed = {} THEN None
              ELSE (CHOOSE o \in observed : \A p \in observed : p.date <= o.date).date

\* convert_projected: an occurrence without a quote is omitted.
Projected(source, target, amount) ==
    IF Newest = None \/ PairRate(source, target, Newest) = Pending THEN Incomplete
    ELSE Convert(source, target, PairRate(source, target, Newest), amount)

-----------------------------------------------------------------------------
(* Division.                                                                   *)

Numer == dividend.coefficient * pow10[divisor.scale]
Denom == divisor.coefficient * pow10[dividend.scale]

Init ==
    /\ accepted \in [Currencies \ {Eur} -> Observed \cup {None}]
    /\ pair = None
    /\ phase = "idle"
    /\ dividend = One /\ divisor = One
    /\ digits = 0 /\ places = 0 /\ remainder = 0 /\ significant = 0
    /\ quote = None
    /\ conversion = None

\* checked_div up to the loop.
Divide(a, b) ==
    LET n == a.coefficient * pow10[b.scale]
        d == b.coefficient * pow10[a.scale]
        fits == n <= MaxWide /\ d <= MaxWide
    IN  /\ phase' = IF fits THEN "dividing" ELSE "refused"
        /\ dividend' = a /\ divisor' = b
        /\ digits' = IF fits THEN n \div d ELSE 0
        /\ remainder' = IF fits THEN n % d ELSE 0
        /\ significant' = IF fits /\ n >= d THEN DigitCount(n \div d) ELSE 0
        /\ UNCHANGED places

\* quote_on.
AskQuote(source, target) ==
    /\ phase = "idle"
    /\ pair' = <<source, target>>
    /\ LET rate == PairRate(source, target, ValueDate)
       IN  CASE rate.variant = "identity" ->
                    phase' = "quoted" /\ quote' = One /\ UNCHANGED division
             [] rate.variant = "pending" ->
                    phase' = "pending" /\ UNCHANGED <<quote, division>>
             [] rate.variant = "automatic" ->
                    Divide(rate.reference.rate, rate.source.rate) /\ UNCHANGED quote
    /\ UNCHANGED <<accepted, conversion>>

\* resolve_mapped_rate_decimal, for a rate that was read the other way around.
InvertMapped(r) ==
    /\ phase = "idle"
    /\ Divide(One, r)
    /\ UNCHANGED <<accepted, pair, quote, conversion>>

\* One turn of the loop: another digit, unless the remainder overflows.
BringDown ==
    /\ phase = "dividing"
    /\ remainder # 0 /\ significant < SignificantDigits
    /\ IF remainder * 10 <= MaxWide
       THEN /\ digits' = digits * 10 + (remainder * 10) \div Denom
            /\ remainder' = (remainder * 10) % Denom
            /\ places' = places + 1
            /\ significant' = significant + (IF digits' # 0 THEN 1 ELSE 0)
            /\ UNCHANGED phase
       ELSE /\ phase' = "refused"
            /\ UNCHANGED <<digits, remainder, places, significant>>
    /\ UNCHANGED <<accepted, pair, dividend, divisor, quote, conversion>>

\* Mutant: what remains is cut off.
CutOff == digits

\* round_up_fraction, by the next digit and what remains after it.
Rounded ==
    LET next == (remainder * 10) \div Denom
        rest == (remainder * 10) % Denom
    IN  IF next > 5 \/ (next = 5 /\ (rest # 0 \/ digits % 2 = 1)) THEN digits + 1 ELSE digits

\* The zeros trim_end_matches takes: those after the point, or, when nothing is after
\* the point, those of the whole part.
TrailingZeros(q) ==
    LET most == IF places = 0 THEN DigitCount(q) ELSE places
    IN  CHOOSE k \in 0 .. most :
            /\ q % pow10[k] = 0
            /\ k = most \/ q % pow10[k + 1] # 0

\* Mutant: the zeros taken stay counted in the scale.
ParsedUnscaled(q, k) == [coefficient |-> q \div pow10[k], scale |-> places]

\* CanonicalRate::parse of the digits with k zeros taken from their end.
Parsed(q, k) ==
    [coefficient |-> q \div pow10[k], scale |-> IF places = 0 THEN 0 ELSE places - k]

\* from_ratio after the loop.  A quotient without remainder is parsed as it is.
FinishQuote ==
    /\ phase = "dividing"
    /\ remainder = 0 \/ significant >= SignificantDigits
    /\ LET q == IF remainder = 0 THEN digits ELSE Rounded
           k == IF remainder = 0 /\ places = 0 THEN 0 ELSE TrailingZeros(q)
           r == Parsed(q, k)
       IN  IF remainder * 10 <= MaxWide /\ r.coefficient <= MaxCoefficient
           THEN phase' = "quoted" /\ quote' = r
           ELSE phase' = "refused" /\ UNCHANGED quote
    /\ UNCHANGED <<accepted, pair, division, conversion>>

-----------------------------------------------------------------------------
(* What is converted.                                                          *)

Converted(use, source, target, amount, outcome) ==
    conversion' = [use |-> use, source |-> source, target |-> target,
                   amount |-> amount, outcome |-> outcome]

\* The quote written back as a manual rate.
ConvertByQuote(amount) ==
    /\ phase = "quoted" /\ pair # None /\ pair[1] # pair[2]
    /\ Converted("quote", pair[1], pair[2], amount,
                 Convert(pair[1], pair[2], Manual(quote), amount))
    /\ UNCHANGED <<accepted, pair, phase, division, quote>>

\* The valuation of a transaction, and restate_authored_allowance.
ConvertByPair(source, target, amount) ==
    /\ phase \in {"quoted", "pending"} /\ pair = <<source, target>>
    /\ Converted("pair", source, target, amount,
                 Convert(source, target, PairRate(source, target, ValueDate), amount))
    /\ UNCHANGED <<accepted, pair, phase, division, quote>>

ConvertProjected(source, target, amount) ==
    /\ phase \in {"quoted", "pending"} /\ pair = <<source, target>>
    /\ Converted("projection", source, target, amount, Projected(source, target, amount))
    /\ UNCHANGED <<accepted, pair, phase, division, quote>>

Next ==
    \/ \E source, target \in Currencies : AskQuote(source, target)
    \/ \E r \in AuthoredRates : InvertMapped(r)
    \/ BringDown
    \/ FinishQuote
    \/ \E amount \in Amounts :
        \/ ConvertByQuote(amount)
        \/ \E source, target \in Currencies :
            ConvertByPair(source, target, amount) \/ ConvertProjected(source, target, amount)

Spec == Init /\ [][Next]_vars

-----------------------------------------------------------------------------
Distance(m, n) == IF m <= n THEN n - m ELSE m - n

\* The whole part leaves a digit to the fraction: from 18 digits on, from_ratio
\* takes the zeros at the end of a rounded whole part for zeros of a fraction.
FractionIsShown == Numer \div Denom < pow10[SignificantDigits - 1]

\* The rate checked_div and inverse return is the exact ratio to the last digit shown:
\* within half a unit of that digit, and on a tie the even one.  (A tie keeps its zero
\* digits, so parity is of the digits before trimming.)
QuoteIsNearest ==
    phase = "quoted" /\ FractionIsShown /\ pair \notin {<<c, c>> : c \in Currencies} =>
        LET unit == pow10[places]
            shown == quote.coefficient * pow10[places - quote.scale]
            error == Distance(shown * Denom, Numer * unit)
        IN  /\ quote.scale <= places
            /\ 2 * error <= Denom
            /\ 2 * error = Denom => shown % 2 = 0
            /\ places > 0 /\ error # 0 => shown >= pow10[SignificantDigits - 1]

\* The quote the program shows of a pair, confirmed as a manual rate, converts every
\* amount that has fewer digits than the quote to what the automatic rate gives, up to
\* one minor unit.
QuoteConvertsAlike ==
    conversion # None /\ conversion.use = "quote" /\ conversion.outcome # None
      /\ FractionIsShown =>
        LET automatic == Convert(pair[1], pair[2], PairRate(pair[1], pair[2], ValueDate),
                                 conversion.amount)
        IN  automatic # None /\ automatic.minorUnits < pow10[SignificantDigits - 1] =>
                Distance(automatic.minorUnits, conversion.outcome.minorUnits) <= 1

\* A completed conversion between currencies is rounded once: it is the number of minor
\* units of the target nearest to the exact product, the even one on a tie, whichever of
\* the three users of convert asked.
RoundedOnce ==
    conversion # None /\ conversion.outcome # None /\ conversion.outcome.complete
      /\ conversion.source # conversion.target =>
        LET rate == CASE conversion.use = "quote" -> Manual(quote)
                      [] conversion.use = "pair" ->
                            PairRate(conversion.source, conversion.target, ValueDate)
                      [] conversion.use = "projection" ->
                            PairRate(conversion.source, conversion.target, Newest)
            leg == IF rate.variant = "manual" THEN One ELSE rate.source.rate
            reference == IF rate.variant = "manual" THEN rate.rate ELSE rate.reference.rate
            n == Numerator(conversion.source, conversion.target, leg, reference,
                           conversion.amount)
            d == Denominator(conversion.source, conversion.target, leg, reference)
            error == Distance(conversion.outcome.minorUnits * d, n)
        IN  /\ 2 * error <= d
            /\ 2 * error = d => conversion.outcome.minorUnits % 2 = 0
================================================================================
