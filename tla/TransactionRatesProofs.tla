------------------------ MODULE TransactionRatesProofs ------------------------
(* Every figure of a transaction comes from its last rate revision, which fits  *)
(* the transaction, and a manual one is read in the currency it quotes: for     *)
(* every set of transactions, currencies and dates, and every bound.            *)
(*                                                                              *)
(* There are two sets of valuations, the active one and the one a default       *)
(* change has built and not activated.  The invariant says the same of both:    *)
(* each is current (Current) but for the transactions written beside it, which  *)
(* "missed" and "written" collect, and reads every manual rate that was there   *)
(* when it was built (Reads).  Activating a generation then hands the one over  *)
(* to the other.  What a manual rate quotes is known from its place among the   *)
(* generations: when it was created, and how often the default has changed      *)
(* since (Placed).                                                              *)
EXTENDS TransactionRates, TLAPS

-----------------------------------------------------------------------------
(* The invariant.                                                              *)

\* The currency a valuation under generation g reads the last revision in; None if it
\* reads no manual rate.
QuotedIn(source, revs, g) ==
    IF source # g.target /\ Last(revs).variant = "manual"
    THEN ManualQuote(source, g, Last(revs).born) ELSE None

\* The valuation of t in vals is the one of its last revision under g.
Current(t, vals, g) ==
    /\ vals[t] # None
    /\ vals[t].rev = Len(revisions[t])
    /\ vals[t].quoted = QuotedIn(txn[t].currency, revisions[t], g)

\* A manual rate that was there when g was built is read as its age against g says.
Reads(t, vals, g) ==
    LET last == Last(revisions[t]) IN
    last.variant = "manual" /\ last.terms.beside # g =>
        vals[t] # None /\ vals[t].quoted = QuotedIn(txn[t].currency, revisions[t], g)

\* What the age of a manual rate tells of its quote: one written under the active generation,
\* or after the default last changed, is no older than it; one from before the last change is
\* older, but for those written beside the active generation; and whatever is not written
\* beside the ready generation is older than that.
Placed(e) ==
    e.variant = "manual" =>
        /\ e.terms \in ManualTerms /\ e.terms.under <= changes /\ e.born <= epoch
        /\ e.terms.under = changes => e.terms.quote = Default /\ active.epoch <= e.born
        /\ e.terms.under + 1 = changes /\ e.terms.beside # active =>
               e.terms.quote = active.prior /\ e.born < active.epoch
        /\ ready # None /\ e.terms.beside # ready.generation => e.born < ready.generation.epoch

\* The generations in the order they were built.
Ordered ==
    /\ active.epoch <= epoch
    /\ ready # None => ready.generation.epoch <= epoch /\ ready.generation.prior = Default

Fits(t) ==
    LET last == Last(revisions[t]) IN
    last.source = txn[t].currency /\ (last.date = txn[t].date \/ last.own)

ActiveIsCurrent == \A t \in Transactions \ missed : txn[t] # None => Current(t, valuations, active)

ReadyIsCurrent ==
    ready # None => \A t \in Transactions \ written :
        txn[t] # None => Current(t, ready.valuations, ready.generation)

ActiveReads == \A t \in Transactions : txn[t] # None => Reads(t, valuations, active)

ReadyReads ==
    ready # None => \A t \in Transactions :
        txn[t] # None => Reads(t, ready.valuations, ready.generation)

RatesInv ==
    /\ TransactionRatesTypeOK
    /\ Ordered
    /\ \A t \in Transactions : txn[t] # None => Placed(Last(revisions[t])) /\ Fits(t)
    /\ ActiveIsCurrent /\ ActiveReads
    /\ ReadyIsCurrent /\ ReadyReads

-----------------------------------------------------------------------------
(* What the calls compute.                                                     *)

\* A pair of observations is a pair of versions, or nothing.
LEMMA PairType ==
    ASSUME TransactionRatesTypeOK, NEW source \in Currencies, NEW target \in Currencies, NEW d \in Dates
    PROVE  Pair(source, target, d) \in Seq(Nat)
<1>1. ASSUME NEW c \in Currencies PROVE Leg(c, d) \in Nat
  <2>1. c # Eur => accepted[<<c, d>>] \in Nat
    BY DEF TransactionRatesTypeOK, Observations
  <2> QED BY <2>1 DEF Leg
<1> QED BY <1>1 DEF Pair, NoRate

\* manual_quote_currency answers with a currency.
LEMMA ManualQuoteType ==
    ASSUME NEW source \in Currencies, NEW g \in GenerationRow, NEW born \in Nat
    PROVE  ManualQuote(source, g, born) \in Currencies
BY DEF ManualQuote, GenerationRow

\* The last of a row of revisions is a revision.
LEMMA LastRevision ==
    ASSUME NEW revs \in Seq(RevisionRow), revs # <<>>
    PROVE  Last(revs) \in RevisionRow /\ Len(revs) \in Nat \ {0}
BY DEF Last

\* convert_for_generation values the last revision, and reads a manual rate as QuotedIn says.
LEMMA ConvertedEffect ==
    ASSUME TransactionRatesTypeOK, NEW source \in Currencies,
           NEW revs \in Seq(RevisionRow), revs # <<>>, NEW g \in GenerationRow
    PROVE  /\ Converted(source, revs, g) \in ValuationRow
           /\ Converted(source, revs, g) # None
           /\ Converted(source, revs, g).rev = Len(revs)
           /\ Converted(source, revs, g).quoted = QuotedIn(source, revs, g)
<1> DEFINE last == Last(revs)
           via == ManualQuote(source, g, last.born)
<1>1. last \in RevisionRow /\ Len(revs) \in Nat
  BY LastRevision
<1>2. via \in Currencies
  BY <1>1, ManualQuoteType DEF RevisionRow
<1>3. ASSUME NEW from \in Currencies PROVE Pair(from, g.target, last.date) \in Seq(Nat)
  BY <1>1, PairType DEF GenerationRow, RevisionRow
<1>4. \E complete \in BOOLEAN, rate \in Seq(Nat) :
          Converted(source, revs, g) = Valuation(Len(revs), complete, QuotedIn(source, revs, g), rate)
  <2>1. NoRate \in Seq(Nat)
    BY DEF NoRate
  <2>2. CASE source = g.target
    BY <2>1, <2>2 DEF Converted, QuotedIn
  <2>3. CASE source # g.target /\ last.variant = "pending"
    BY <2>1, <2>3 DEF Converted, QuotedIn
  <2>4. CASE source # g.target /\ last.variant = "manual"
    <3>1. Converted(source, revs, g) =
              IF via = g.target THEN Valuation(Len(revs), TRUE, via, NoRate)
              ELSE Valuation(Len(revs), Pair(via, g.target, last.date) # NoRate, via,
                             Pair(via, g.target, last.date))
      BY <2>4 DEF Converted
    <3>2. QuotedIn(source, revs, g) = via
      BY <2>4 DEF QuotedIn
    <3> QED BY <1>2, <1>3, <2>1, <3>1, <3>2
  <2>5. CASE source # g.target /\ last.variant \in {"identity", "automatic"}
    <3>1. Converted(source, revs, g) =
              Valuation(Len(revs), Pair(source, g.target, last.date) # NoRate, None,
                        Pair(source, g.target, last.date))
      BY <2>5 DEF Converted
    <3>2. QuotedIn(source, revs, g) = None
      BY <2>5 DEF QuotedIn
    <3> QED BY <1>3, <3>1, <3>2
  <2> QED BY <1>1, <2>2, <2>3, <2>4, <2>5 DEF RevisionRow
<1>5. QuotedIn(source, revs, g) \in Currencies \cup {None}
  BY <1>2 DEF QuotedIn
<1> QED BY <1>1, <1>4, <1>5, NoneAssumption DEF Valuation, ValuationRow

\* A revision as a call writes it now, for a transaction in currency c on date d.
Fresh(e, c, d) ==
    /\ e \in RevisionRow /\ e.source = c /\ (e.date = d \/ e.own) /\ e.born = epoch
    /\ e.variant = "manual" =>
          /\ e.terms \in ManualTerms
          /\ e.terms.quote = Default /\ e.terms.under = changes
          /\ e.terms.beside = IF ready = None THEN None ELSE ready.generation

\* The revisions of a transaction a call has written in currency c on date d: as they were,
\* with the currency and the date, or ending in a fresh one.
Rewritten(t, c, d, revs) ==
    /\ revs \in Seq(RevisionRow) /\ revs # <<>>
    /\ \/ txn[t] # None /\ revs = revisions[t] /\ c = txn[t].currency /\ d = txn[t].date
       \/ Fresh(Last(revs), c, d)

\* append_revision writes a fresh one.
LEMMA RevisionEffect ==
    ASSUME TransactionRatesTypeOK, NEW variant \in {"identity", "pending", "automatic", "manual"},
           NEW c \in Currencies, NEW d \in Dates, NEW on \in Dates, NEW own \in BOOLEAN, on = d \/ own
    PROVE  Fresh(Revision(variant, c, on, own), c, d)
<1> DEFINE beside == IF ready = None THEN None ELSE ready.generation
           terms == [quote |-> Default, under |-> changes, beside |-> beside]
           held == IF variant # "manual" THEN None ELSE terms
           row == [variant |-> variant, date |-> on, born |-> epoch, source |-> c, own |-> own,
                   terms |-> held]
<1>1. beside \in GenerationRow \cup {None} /\ Default \in Currencies /\ changes \in Nat /\ epoch \in Nat
  BY DEF TransactionRatesTypeOK, BuiltGeneration, GenerationRow, Default
<1> HIDE DEF beside
<1>2. /\ terms \in ManualTerms /\ terms.quote = Default /\ terms.under = changes
      /\ terms.beside = beside
  BY <1>1 DEF ManualTerms
<1> HIDE DEF terms
<1>3. held \in ManualTerms \cup {None} /\ (variant = "manual" => held = terms)
  BY <1>2
<1>4. Revision(variant, c, on, own) = row
  BY Zenon DEF Revision, terms, beside
<1> HIDE DEF held
<1>5. row \in RevisionRow
  BY <1>1, <1>3 DEF RevisionRow
<1>6. row.source = c /\ (row.date = d \/ row.own) /\ row.born = epoch
  OBVIOUS
<1>7. row.variant = variant /\ row.terms = held
  OBVIOUS
<1> HIDE DEF row
<1> QED BY <1>2, <1>3, <1>4, <1>5, <1>6, <1>7 DEF Fresh, beside

\* append_lookup writes a fresh revision.
LEMMA LookupEffect ==
    ASSUME TransactionRatesTypeOK, NEW c \in Currencies, NEW d \in Dates
    PROVE  Fresh(Lookup(c, d), c, d)
BY RevisionEffect DEF Lookup

\* decide_rate_write appends a fresh revision, unless neither the currency nor the date has
\* changed.
LEMMA DecidedEffect ==
    ASSUME TransactionRatesTypeOK, NEW t \in Transactions, txn[t] # None, NEW c \in Currencies,
           NEW d \in Dates, NEW r \in Requests
    PROVE  Rewritten(t, c, d, Decided(t, c, d, r))
<1>1. revisions[t] \in Seq(RevisionRow) /\ revisions[t] # <<>>
  BY DEF TransactionRatesTypeOK
<1>2. ASSUME NEW e, Fresh(e, c, d) PROVE Rewritten(t, c, d, Append(revisions[t], e))
  <2>1. e \in RevisionRow
    BY <1>2 DEF Fresh
  <2>2. /\ Append(revisions[t], e) \in Seq(RevisionRow) /\ Append(revisions[t], e) # <<>>
        /\ Last(Append(revisions[t], e)) = e
    BY <1>1, <2>1 DEF Last
  <2> QED BY <1>2, <2>2 DEF Rewritten
<1>3. CASE c # Default /\ r.manual
  BY <1>2, <1>3, RevisionEffect DEF Decided
<1>4. CASE ~(c # Default /\ r.manual) /\ NeedsNewRate(t, c, d, r)
  BY <1>2, <1>4, LookupEffect DEF Decided
<1>5. CASE ~(c # Default /\ r.manual) /\ ~NeedsNewRate(t, c, d, r)
  BY <1>1, <1>5 DEF Decided, NeedsNewRate, Rewritten
<1> QED BY <1>3, <1>4, <1>5

-----------------------------------------------------------------------------
(* The steps.                                                                  *)

\* A write of a transaction leaves its valuation current in the active generation, and the
\* transaction among those the ready generation does not know.
LEMMA StoreKeeps ==
    ASSUME RatesInv, NEW t \in Transactions, NEW c \in Currencies, NEW d \in Dates, NEW revs,
           Rewritten(t, c, d, revs), Store(t, c, d, revs)
    PROVE  RatesInv'
<1> DEFINE row == [currency |-> c, date |-> d, deleted |-> FALSE]
           value == Converted(c, revs, active)
<1>1. /\ TransactionRatesTypeOK /\ active \in GenerationRow
      /\ revs \in Seq(RevisionRow) /\ revs # <<>>
  BY DEF RatesInv, TransactionRatesTypeOK, Rewritten
<1>2. row \in TransactionRow /\ row # None /\ row.currency = c /\ row.date = d
  <2>1. row \in TransactionRow
    BY DEF TransactionRow
  <2> QED BY <2>1, NoneAssumption
<1>3. /\ value \in ValuationRow /\ value # None
      /\ value.rev = Len(revs) /\ value.quoted = QuotedIn(c, revs, active)
  BY <1>1, ConvertedEffect
<1> HIDE DEF row, value
<1>4. /\ txn' = [txn EXCEPT ![t] = row] /\ revisions' = [revisions EXCEPT ![t] = revs]
      /\ valuations' = [valuations EXCEPT ![t] = value]
      /\ written' = IF ready = None THEN {} ELSE written \cup {t}
      /\ missed' = missed \ {t}
      /\ UNCHANGED <<active, ready, accepted, epoch, changes>>
  BY DEF Store, Valued, row, value
<1>5. /\ txn'[t] = row /\ revisions'[t] = revs /\ valuations'[t] = value
      /\ \A u \in Transactions \ {t} :
            txn'[u] = txn[u] /\ revisions'[u] = revisions[u] /\ valuations'[u] = valuations[u]
  BY <1>1, <1>4 DEF TransactionRatesTypeOK
<1>6. TransactionRatesTypeOK'
  <2>1. txn' \in [Transactions -> TransactionRow \cup {None}]
    BY <1>1, <1>2, <1>4 DEF TransactionRatesTypeOK
  <2>2. revisions' \in [Transactions -> Seq(RevisionRow)]
    BY <1>1, <1>4 DEF TransactionRatesTypeOK
  <2>3. valuations' \in [Transactions -> ValuationRow \cup {None}]
    BY <1>1, <1>3, <1>4 DEF TransactionRatesTypeOK
  <2>4. \A u \in Transactions : txn'[u] = None <=> revisions'[u] = <<>>
    BY <1>1, <1>2, <1>5 DEF TransactionRatesTypeOK
  <2> QED BY <1>1, <1>4, <2>1, <2>2, <2>3, <2>4 DEF TransactionRatesTypeOK
<1>7. Ordered'
  BY <1>4 DEF RatesInv, Ordered, Default
<1>8. ASSUME NEW u \in Transactions, txn'[u] # None
      PROVE  Placed(Last(revisions[u]))' /\ Fits(u)'
  <2>1. CASE u # t
    BY <1>4, <1>5, <1>8, <2>1 DEF RatesInv, Placed, Fits, Default
  <2>2. CASE u = t /\ txn[t] # None /\ revs = revisions[t] /\ c = txn[t].currency /\ d = txn[t].date
    BY <1>2, <1>4, <1>5, <2>2 DEF RatesInv, Placed, Fits, Default
  <2>3. CASE u = t /\ Fresh(Last(revs), c, d)
    <3>1. Fits(t)'
      BY <1>2, <1>5, <2>3 DEF Fits, Fresh
    <3>2. Placed(Last(revs))
      BY <1>1, <2>3 DEF RatesInv, Ordered, Placed, Fresh, TransactionRatesTypeOK
    <3> QED BY <1>4, <1>5, <2>3, <3>1, <3>2 DEF Placed, Default
  <2> QED BY <2>1, <2>2, <2>3 DEF Rewritten
<1>9. ASSUME NEW u \in Transactions, txn'[u] # None
      PROVE  Reads(u, valuations, active)' /\ (u \notin missed' => Current(u, valuations, active)')
  <2>1. CASE u = t
    BY <1>2, <1>3, <1>4, <1>5, <2>1 DEF Reads, Current, QuotedIn, ManualQuote
  <2>2. CASE u # t
    BY <1>4, <1>5, <1>9, <2>2
    DEF RatesInv, ActiveIsCurrent, ActiveReads, Reads, Current, QuotedIn, ManualQuote
  <2> QED BY <2>1, <2>2
<1>10. ActiveIsCurrent' /\ ActiveReads'
  BY <1>9 DEF ActiveIsCurrent, ActiveReads
<1>11. ReadyIsCurrent'
  <2> SUFFICES ASSUME ready' # None, NEW u \in Transactions \ written', txn'[u] # None
               PROVE  Current(u, ready.valuations, ready.generation)'
    BY DEF ReadyIsCurrent
  <2>1. u # t /\ u \notin written /\ ready # None
    BY <1>4
  <2> QED BY <1>4, <1>5, <2>1 DEF RatesInv, ReadyIsCurrent, Current, QuotedIn, ManualQuote
<1>12. ReadyReads'
  <2> SUFFICES ASSUME ready' # None, NEW u \in Transactions, txn'[u] # None
               PROVE  Reads(u, ready.valuations, ready.generation)'
    BY DEF ReadyReads
  <2>1. ready' = ready /\ ready # None
    BY <1>4
  <2>2. CASE u # t
    BY <1>4, <1>5, <2>1, <2>2 DEF RatesInv, ReadyReads, Reads, QuotedIn, ManualQuote
  <2>3. CASE u = t /\ txn[t] # None /\ revs = revisions[t] /\ c = txn[t].currency
    BY <1>2, <1>5, <2>1, <2>3 DEF RatesInv, ReadyReads, Reads, QuotedIn, ManualQuote
  <2>4. CASE u = t /\ Fresh(Last(revs), c, d)
    BY <1>5, <2>1, <2>4 DEF Reads, Fresh
  <2> QED BY <2>2, <2>3, <2>4 DEF Rewritten
<1> QED BY <1>6, <1>7, <1>8, <1>10, <1>11, <1>12 DEF RatesInv

\* A transaction is created or imported with one revision, which is fresh.
LEMMA CreateKeeps ==
    ASSUME RatesInv, NEW t \in Transactions, NEW c \in Currencies, NEW d \in Dates,
           \/ \E manual \in BOOLEAN : CreateTransaction(t, c, d, manual)
           \/ \E plan \in Plans, on \in Dates : ImportTransaction(t, c, d, plan, on)
    PROVE  RatesInv'
<1>1. TransactionRatesTypeOK
  BY DEF RatesInv
<1>2. ASSUME NEW manual \in BOOLEAN PROVE Fresh(Created(c, d, manual), c, d)
  BY <1>1, RevisionEffect, LookupEffect DEF Created
<1>3. ASSUME NEW plan \in Plans, NEW on \in Dates PROVE Fresh(ImportRate(c, d, plan, on), c, d)
  BY <1>1, <1>2, RevisionEffect DEF ImportRate, Plans
<1>4. PICK e : Fresh(e, c, d) /\ Store(t, c, d, <<e>>)
  BY <1>2, <1>3 DEF CreateTransaction, ImportTransaction
<1>5. e \in RevisionRow
  BY <1>4 DEF Fresh
<1>6. <<e>> \in Seq(RevisionRow) /\ <<e>> # <<>> /\ Last(<<e>>) = e
  BY <1>5 DEF Last
<1> QED BY <1>4, <1>6, StoreKeeps DEF Rewritten

\* A deleted transaction keeps its revisions and its valuation.
LEMMA DeleteKeeps ==
    ASSUME RatesInv, NEW ts \in SUBSET Transactions, DeleteTransactions(ts)
    PROVE  RatesInv'
<1>1. TransactionRatesTypeOK
  BY DEF RatesInv
<1>2. ASSUME NEW t \in Transactions
      PROVE  /\ txn'[t] \in TransactionRow \cup {None}
             /\ txn'[t] = None <=> txn[t] = None
             /\ txn[t] # None => txn'[t].currency = txn[t].currency /\ txn'[t].date = txn[t].date
  <2>1. CASE t \in ts
    <3>1. txn[t] \in TransactionRow /\ txn'[t] = [txn[t] EXCEPT !.deleted = TRUE]
      BY <1>1, <2>1 DEF TransactionRatesTypeOK, DeleteTransactions
    <3>2. txn'[t] \in TransactionRow /\ txn'[t].currency = txn[t].currency /\ txn'[t].date = txn[t].date
      BY <3>1 DEF TransactionRow
    <3> QED BY <3>1, <3>2, NoneAssumption
  <2>2. CASE t \notin ts
    BY <1>1, <2>2 DEF TransactionRatesTypeOK, DeleteTransactions
  <2> QED BY <2>1, <2>2
<1>3. /\ txn' = [t \in Transactions |-> txn'[t]]
      /\ UNCHANGED <<revisions, valuations, active, ready, accepted, epoch, changes, written, missed>>
  BY DEF DeleteTransactions
<1>4. TransactionRatesTypeOK'
  BY <1>1, <1>2, <1>3 DEF TransactionRatesTypeOK
<1>5. ActiveIsCurrent' /\ ActiveReads'
  BY <1>2, <1>3 DEF RatesInv, ActiveIsCurrent, ActiveReads, Reads, Current, QuotedIn, ManualQuote
<1>6. ReadyIsCurrent' /\ ReadyReads'
  BY <1>2, <1>3 DEF RatesInv, ReadyIsCurrent, ReadyReads, Reads, Current, QuotedIn, ManualQuote
<1>7. Ordered'
  BY <1>3 DEF RatesInv, Ordered, Default
<1>8. \A t \in Transactions : txn'[t] # None => Placed(Last(revisions[t]))' /\ Fits(t)'
  BY <1>2, <1>3 DEF RatesInv, Placed, Fits, Default
<1> QED BY <1>4, <1>5, <1>6, <1>7, <1>8 DEF RatesInv

\* A generation is built with the valuation of every transaction there is, and everything
\* written so far is older than it.
LEMMA BuildKeeps ==
    ASSUME RatesInv, NEW target \in Currencies, BuildGeneration(target)
    PROVE  RatesInv'
<1> DEFINE g == [target |-> target, prior |-> Default, epoch |-> epoch + 1]
           vals == [t \in Transactions |->
                       IF txn[t] = None THEN None ELSE Converted(txn[t].currency, revisions[t], g)]
           built == [generation |-> g, valuations |-> vals]
<1>1. /\ TransactionRatesTypeOK /\ epoch \in Nat /\ Default \in Currencies
      /\ active.epoch \in Nat
  BY DEF RatesInv, TransactionRatesTypeOK, Default, GenerationRow
<1>2. g \in GenerationRow /\ g.epoch = epoch + 1 /\ g.prior = Default
  BY <1>1 DEF GenerationRow
<1> HIDE DEF g
<1>3. ASSUME NEW t \in Transactions, txn[t] # None
      PROVE  vals[t] \in ValuationRow /\ Current(t, vals, g)
  <2>1. /\ txn[t].currency \in Currencies
        /\ revisions[t] \in Seq(RevisionRow) /\ revisions[t] # <<>>
    BY <1>1, <1>3 DEF TransactionRatesTypeOK, TransactionRow
  <2>2. vals[t] = Converted(txn[t].currency, revisions[t], g)
    BY <1>3
  <2> QED BY <1>1, <1>2, <2>1, <2>2, ConvertedEffect DEF Current
<1>4. vals \in [Transactions -> ValuationRow \cup {None}]
  BY <1>3
<1>5. /\ ready' = built /\ epoch' = epoch + 1 /\ written' = {}
      /\ UNCHANGED <<txn, revisions, valuations, active, accepted, changes, missed>>
  BY DEF BuildGeneration, g
<1> HIDE DEF vals
<1>6. /\ built \in BuiltGeneration /\ built.generation = g /\ built.valuations = vals
      /\ ready = None
  BY <1>2, <1>4 DEF BuiltGeneration, BuildGeneration
<1> HIDE DEF built
<1>7. TransactionRatesTypeOK'
  BY <1>1, <1>5, <1>6 DEF TransactionRatesTypeOK
<1>8. ActiveIsCurrent' /\ ActiveReads'
  BY <1>5 DEF RatesInv, ActiveIsCurrent, ActiveReads, Reads, Current, QuotedIn, ManualQuote
<1>9. ReadyIsCurrent' /\ ReadyReads'
  <2> SUFFICES ASSUME NEW u \in Transactions, txn[u] # None
               PROVE  /\ Current(u, ready.valuations, ready.generation)'
                      /\ Reads(u, ready.valuations, ready.generation)'
    BY <1>5 DEF ReadyIsCurrent, ReadyReads
  <2>1. Current(u, vals, g)
    BY <1>3
  <2>2. ready'.valuations = vals /\ ready'.generation = g
    BY <1>5, <1>6
  <2> QED BY <1>5, <2>1, <2>2 DEF Reads, Current, QuotedIn, ManualQuote
<1>10. Ordered'
  BY <1>1, <1>2, <1>5, <1>6 DEF RatesInv, Ordered, Default
<1>11. ASSUME NEW u \in Transactions, txn[u] # None
       PROVE  Placed(Last(revisions[u]))' /\ Fits(u)'
  <2>1. Placed(Last(revisions[u])) /\ Fits(u) /\ Last(revisions[u]) \in RevisionRow
    BY <1>1, <1>11, LastRevision DEF RatesInv, TransactionRatesTypeOK
  <2>2. Last(revisions[u]).born \in Nat
    BY <2>1 DEF RevisionRow
  <2> QED BY <1>1, <1>2, <1>5, <1>6, <2>1, <2>2 DEF Placed, Fits, Default
<1> QED BY <1>5, <1>7, <1>8, <1>9, <1>10, <1>11 DEF RatesInv

\* Activating hands the ready valuations over, with those they miss: what was written under
\* the last default is from before the last change now.
LEMMA ActivateKeeps ==
    ASSUME RatesInv, ActivateGeneration PROVE RatesInv'
<1>1. TransactionRatesTypeOK /\ ready \in BuiltGeneration /\ ready # None
  BY DEF RatesInv, TransactionRatesTypeOK, ActivateGeneration
<1>2. /\ ready' = None /\ written' = {} /\ missed' = written /\ changes' = changes + 1
      /\ active' = ready.generation /\ valuations' = ready.valuations
      /\ UNCHANGED <<txn, revisions, accepted, epoch>>
  BY DEF ActivateGeneration
<1>3. TransactionRatesTypeOK'
  BY <1>1, <1>2 DEF TransactionRatesTypeOK, BuiltGeneration
<1>4. ActiveIsCurrent' /\ ActiveReads'
  BY <1>1, <1>2 DEF RatesInv, ActiveIsCurrent, ReadyIsCurrent, ActiveReads, ReadyReads, Reads, Current,
     QuotedIn, ManualQuote
<1>5. ReadyIsCurrent' /\ ReadyReads'
  BY <1>2 DEF ReadyIsCurrent, ReadyReads
<1>6. Ordered'
  BY <1>1, <1>2 DEF RatesInv, Ordered
<1>7. ASSUME NEW u \in Transactions, txn[u] # None
      PROVE  Placed(Last(revisions[u]))' /\ Fits(u)'
  <2> DEFINE last == Last(revisions[u])
  <2>1. Placed(last) /\ Fits(u)
    BY <1>7 DEF RatesInv
  <2>2. Fits(u)'
    BY <1>2, <2>1 DEF Fits
  <2>3. changes \in Nat /\ (last.variant = "manual" => last.terms.under \in Nat)
    BY <1>1, <2>1 DEF TransactionRatesTypeOK, Placed, ManualTerms
  <2>4. last' = last
    BY <1>2
  <2> HIDE DEF last
  <2>5. ASSUME last.variant = "manual"
        PROVE  /\ last.terms \in ManualTerms /\ last.terms.under <= changes' /\ last.born <= epoch'
               /\ last.terms.under # changes'
               /\ last.terms.under + 1 = changes' /\ last.terms.beside # active' =>
                      last.terms.quote = active'.prior /\ last.born < active'.epoch
    BY <1>1, <1>2, <2>1, <2>3, <2>5 DEF RatesInv, Ordered, Placed
  <2>6. Placed(last)'
    BY <1>2, <2>4, <2>5 DEF Placed
  <2> QED BY <2>2, <2>6 DEF last
<1> QED BY <1>2, <1>3, <1>4, <1>5, <1>6, <1>7 DEF RatesInv

\* A job that ends otherwise leaves the active ones.
LEMMA DiscardKeeps ==
    ASSUME RatesInv, DiscardGeneration PROVE RatesInv'
<1>1. /\ ready' = None /\ written' = {}
      /\ UNCHANGED <<txn, revisions, valuations, active, accepted, epoch, changes, missed>>
  BY DEF DiscardGeneration
<1>2. TransactionRatesTypeOK'
  BY <1>1 DEF RatesInv, TransactionRatesTypeOK
<1>3. ActiveIsCurrent' /\ ActiveReads'
  BY <1>1 DEF RatesInv, ActiveIsCurrent, ActiveReads, Reads, Current, QuotedIn, ManualQuote
<1>4. ReadyIsCurrent' /\ ReadyReads' /\ Ordered'
  BY <1>1 DEF RatesInv, ReadyIsCurrent, ReadyReads, Ordered
<1>5. \A u \in Transactions : txn'[u] # None => Placed(Last(revisions[u]))' /\ Fits(u)'
  BY <1>1 DEF RatesInv, Placed, Fits, Default
<1> QED BY <1>2, <1>3, <1>4, <1>5 DEF RatesInv

\* A refresh changes no revision and no valuation.
LEMMA RefreshKeeps ==
    ASSUME RatesInv, NEW o \in Observations, NEW v \in 0..MaxVersion, Refresh(o, v)
    PROVE  RatesInv'
<1>1. TransactionRatesTypeOK'
  BY TransactionRatesAssumption DEF RatesInv, TransactionRatesTypeOK, Refresh
<1>2. UNCHANGED <<txn, revisions, valuations, active, ready, epoch, changes, written, missed>>
  BY DEF Refresh
<1>3. ActiveIsCurrent' /\ ActiveReads' /\ ReadyIsCurrent' /\ ReadyReads'
  BY <1>2 DEF RatesInv, ActiveIsCurrent, ReadyIsCurrent, ActiveReads, ReadyReads, Reads, Current,
     QuotedIn, ManualQuote
<1>4. Ordered' /\ \A u \in Transactions : txn'[u] # None => Placed(Last(revisions[u]))' /\ Fits(u)'
  BY <1>2 DEF RatesInv, Ordered, Placed, Fits, Default
<1> QED BY <1>1, <1>3, <1>4 DEF RatesInv

\* The invariant holds throughout.
LEMMA RatesInvariant == Spec => []RatesInv
<1>1. Init => RatesInv
  <2> SUFFICES ASSUME Init PROVE RatesInv
    OBVIOUS
  <2>1. TransactionRatesTypeOK
    BY TransactionRatesAssumption DEF Init, TransactionRatesTypeOK, GenerationRow
  <2>2. ready = None /\ active.epoch = 0 /\ epoch = 0 /\ \A t \in Transactions : txn[t] = None
    BY DEF Init
  <2> QED BY <2>1, <2>2
          DEF RatesInv, Ordered, ActiveIsCurrent, ReadyIsCurrent, ActiveReads, ReadyReads
<1>2. RatesInv /\ [Next]_vars => RatesInv'
  <2> SUFFICES ASSUME RatesInv, [Next]_vars PROVE RatesInv'
    OBVIOUS
  <2>1. ASSUME NEW t \in Transactions, NEW c \in Currencies, NEW d \in Dates, NEW r \in Requests,
               UpdateTransaction(t, c, d, r)
        PROVE  RatesInv'
    <3>1. TransactionRatesTypeOK /\ txn[t] # None /\ Store(t, c, d, Decided(t, c, d, r))
      BY <2>1 DEF UpdateTransaction, RatesInv
    <3> QED BY <3>1, DecidedEffect, StoreKeeps
  <2>2. CASE UNCHANGED vars
    BY <2>2 DEF vars, RatesInv, TransactionRatesTypeOK, Ordered, Placed, Fits, Default, ActiveIsCurrent,
       ReadyIsCurrent, ActiveReads, ReadyReads, Reads, Current, QuotedIn, ManualQuote
  <2> QED
    BY <2>1, <2>2, CreateKeeps, DeleteKeeps, BuildKeeps, ActivateKeeps, DiscardKeeps, RefreshKeeps
    DEF Next
<1> QED BY <1>1, <1>2, PTL DEF Spec

-----------------------------------------------------------------------------
(* The theorems.                                                               *)

\* The figures of a live transaction come from the last of its rate revisions in every
\* reachable state (FollowsLatestRevision), but for those written while the active generation
\* was being built: every write values the transaction, and a generation values them all.
THEOREM FiguresFollow == Spec => []FollowsLatestRevision
<1>1. RatesInv => FollowsLatestRevision
  BY DEF RatesInv, ActiveIsCurrent, Current, FollowsLatestRevision, Live
<1> QED BY <1>1, RatesInvariant, PTL

\* A manual rate is read in the default currency it was written under, in every reachable
\* state, until the default has changed twice (ManualRateKeepsItsQuote): its age tells
\* manual_quote_currency whether that is the active default or the one before.
THEOREM ManualRatesAreReadAsMeant == Spec => []ManualRateKeepsItsQuote
<1>1. RatesInv => ManualRateKeepsItsQuote
  <2> SUFFICES ASSUME RatesInv, NEW t \in Transactions, Live(t), Last(revisions[t]).variant = "manual",
                      txn[t].currency \notin {Last(revisions[t]).terms.quote, Default},
                      changes <= Last(revisions[t]).terms.under + 1,
                      Last(revisions[t]).terms.beside # active
               PROVE  /\ valuations[t] # None
                      /\ valuations[t].quoted = Last(revisions[t]).terms.quote
    BY DEF ManualRateKeepsItsQuote
  <2> DEFINE last == Last(revisions[t])
  <2>1. /\ txn[t] # None /\ valuations[t] # None
        /\ valuations[t].quoted = QuotedIn(txn[t].currency, revisions[t], active)
    BY DEF RatesInv, ActiveReads, Reads, Live
  <2>2. Placed(last) /\ last \in RevisionRow /\ active \in GenerationRow /\ changes \in Nat
    BY <2>1, LastRevision DEF RatesInv, TransactionRatesTypeOK
  <2>3. QuotedIn(txn[t].currency, revisions[t], active) = ManualQuote(txn[t].currency, active, last.born)
    BY DEF QuotedIn, Default
  <2>4. /\ last.terms.quote # None /\ last.born \in Nat /\ active.epoch \in Nat
        /\ last.terms.under \in Nat
    BY <2>2, NoneAssumption DEF Placed, ManualTerms, RevisionRow, GenerationRow
  <2>5. \/ last.terms.quote = Default /\ active.epoch <= last.born
        \/ last.terms.quote = active.prior /\ last.born < active.epoch
    <3>1. last.terms.under = changes \/ last.terms.under + 1 = changes
      BY <2>2, <2>4 DEF Placed
    <3> QED BY <2>2, <3>1 DEF Placed
  <2>6. ManualQuote(txn[t].currency, active, last.born) = last.terms.quote
    BY <2>4, <2>5 DEF ManualQuote, Default
  <2> QED BY <2>1, <2>3, <2>6
<1> QED BY <1>1, RatesInvariant, PTL

\* The rate in force is one for the transaction's currency and date in every reachable state
\* (RateFitsTransaction): whatever changes either appends a revision, in any currency.
THEOREM RatesFit == Spec => []RateFitsTransaction
<1>1. RatesInv => RateFitsTransaction
  BY DEF RatesInv, Fits, RateFitsTransaction
<1> QED BY <1>1, RatesInvariant, PTL

=============================================================================
