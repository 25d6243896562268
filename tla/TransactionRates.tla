--------------------------- MODULE TransactionRates ---------------------------
(* Transactions, the revisions of their exchange rates, and their valuations   *)
(* in the default currency.                                                    *)
(*   crates/core/src/features/transactions/{service,rate_write,models}.rs      *)
(*   crates/db/src/transactions/{mutations,delete,rate_revisions,read,         *)
(*   bulk_ops,import}.rs                                                       *)
(*   crates/db/src/valuations/{cache,generation}.rs                            *)
(*                                                                             *)
(* A rate is the pair of provider observations it is computed from, an         *)
(* observation is the version the provider has of it.  Amounts are left out,   *)
(* and the decimal a revision keeps: only a manual one is ever read again.     *)
(* Every action is one transaction of the writer.                              *)
EXTENDS Naturals, Sequences, SequencesExt

CONSTANTS
    Transactions,
    Currencies,
    Eur,             \* the currency the provider quotes in
    Enabled,         \* enabled_currencies, as CurrencyJobs has left it
    Dates,           \* value dates
    None,
    MaxRevisions,    \* bound on the revisions of a transaction
    MaxEpoch,        \* bound on the generations ever built
    MaxVersion       \* bound on the versions of an observation

ASSUME TransactionRatesAssumption ==
    /\ Eur \in Currencies /\ Enabled \subseteq Currencies
    /\ Dates # {}
    /\ {MaxRevisions, MaxEpoch, MaxVersion} \subseteq Nat

\* The rows: of transactions, of transaction_exchange_rate_revisions, of
\* transaction_valuations (the revision valued, whether the valuation is complete, the
\* currency a manual rate was read in and the observations used), and of
\* valuation_generations.  Of a revision the columns are variant, date and born, the
\* generations built by then, for created_at; the rest is what no column holds and the
\* properties ask for: the transaction's currency, whether the date is an import's own, and
\* of a manual rate the currency it quotes, how often the default had changed and the
\* generation being built beside it.
GenerationRow == [target : Currencies, prior : Currencies \cup {None}, epoch : Nat]
TransactionRow == [currency : Currencies, date : Dates, deleted : BOOLEAN]
ManualTerms == [quote : Currencies, under : Nat, beside : GenerationRow \cup {None}]
RevisionRow == [variant : {"identity", "pending", "automatic", "manual"}, date : Dates, born : Nat,
                source : Currencies, own : BOOLEAN, terms : ManualTerms \cup {None}]
ValuationRow == [rev : Nat, complete : BOOLEAN, quoted : Currencies \cup {None}, rate : Seq(Nat)]

\* A generation with the valuations of all transactions in it.
BuiltGeneration ==
    [generation : GenerationRow, valuations : [Transactions -> ValuationRow \cup {None}]]

\* What is absent is not one of the values that may be there.
ASSUME NoneAssumption ==
    /\ None \notin Currencies \cup {"identity", "pending", "automatic", "manual"}
    /\ None \notin TransactionRow /\ None \notin ValuationRow
    /\ None \notin GenerationRow /\ None \notin BuiltGeneration

VARIABLES
    txn,         \* transactions: currency, date and whether deleted; None before the insert
    revisions,   \* transaction_exchange_rate_revisions, by sequence
    valuations,  \* transaction_valuations of the active generation
    active,      \* the active generation
    ready,       \* the generation a job has built and not activated, or None
    accepted,    \* provider_heads: [Observations -> version], 0 absent
    epoch,       \* generations built so far: the clock created_at is compared on
    changes,     \* how often the default has changed
    written,     \* transactions written since the ready generation was built
    missed       \* transactions the active generation was activated without

vars == <<txn, revisions, valuations, active, ready, accepted, epoch, changes, written, missed>>

NoRate == <<>>

Observations == (Currencies \ {Eur}) \X Dates
Default == active.target

-----------------------------------------------------------------------------
(* Quotes.                                                                     *)

\* stored_or_eur_observation: the observation of that very date.
Leg(c, d) == IF c = Eur THEN 1 ELSE accepted[<<c, d>>]

\* quote_legs: both legs, or no rate.
Pair(source, target, d) ==
    IF Leg(source, d) > 0 /\ Leg(target, d) > 0
    THEN <<Leg(source, d), Leg(target, d)>> ELSE NoRate

-----------------------------------------------------------------------------
(* Revisions.                                                                  *)

\* append_revision, for a transaction in currency c, on a date of its own or its transaction's.
Revision(variant, c, d, own) ==
    [variant |-> variant, date |-> d, born |-> epoch, source |-> c, own |-> own,
     terms |-> IF variant # "manual" THEN None
               ELSE [quote |-> Default, under |-> changes,
                     beside |-> IF ready = None THEN None ELSE ready.generation]]

Latest(t) == IF revisions[t] = <<>> THEN None ELSE Last(revisions[t]).variant

\* append_lookup.
Lookup(c, d) ==
    IF c = Default THEN Revision("identity", c, d, FALSE)
    ELSE IF Pair(c, Default, d) = NoRate THEN Revision("pending", c, d, FALSE)
    ELSE Revision("automatic", c, d, FALSE)

\* RefuseManualReplacement.
Refuses(t, c, d, r) ==
    /\ c # Default /\ Latest(t) = "manual"
    /\ r.manual \/ d # txn[t].date \/ c # txn[t].currency
    /\ ~r.confirm

\* Mutant: an identity is taken to serve any transaction in the default currency.
KeepsIdentity(t, c, d, r) ==
    \/ Latest(t) = None \/ r.retry
    \/ IF c = Default THEN Latest(t) # "identity" ELSE d # txn[t].date \/ c # txn[t].currency

NeedsNewRate(t, c, d, r) ==
    Latest(t) = None \/ d # txn[t].date \/ c # txn[t].currency \/ r.retry

\* decide_rate_write, for an update that is not refused: the revisions after it.  A retry
\* looks the rate up anew even over a manual one, which it need not confirm.
Decided(t, c, d, r) ==
    IF c # Default /\ r.manual THEN Append(revisions[t], Revision("manual", c, d, FALSE))
    ELSE IF NeedsNewRate(t, c, d, r) THEN Append(revisions[t], Lookup(c, d))
    ELSE revisions[t]

\* apply_create_rate.
Created(c, d, manual) ==
    IF manual /\ c # Default THEN Revision("manual", c, d, FALSE) ELSE Lookup(c, d)

-----------------------------------------------------------------------------
(* Valuations.                                                                 *)

\* Mutant: a generation that has a prior reads every manual rate in it.
QuoteOfPriorAlways(source, g, born) ==
    IF g.prior # None /\ g.prior # source THEN g.prior ELSE g.target

\* manual_quote_currency.
ManualQuote(source, g, born) ==
    LET quoted == IF born >= g.epoch \/ g.prior = None THEN g.target ELSE g.prior
    IN  IF quoted = source THEN g.target ELSE quoted

\* A row of transaction_valuations.
Valuation(n, complete, quoted, rate) ==
    [rev |-> n, complete |-> complete, quoted |-> quoted, rate |-> rate]

\* convert_for_generation, on the last revision.
Converted(source, revs, g) ==
    LET n == Len(revs)
        last == Last(revs)
        pair(from) == Pair(from, g.target, last.date)
        via == ManualQuote(source, g, last.born)
    IN  CASE source = g.target -> Valuation(n, TRUE, None, NoRate)
          [] source # g.target /\ last.variant = "pending" -> Valuation(n, FALSE, None, NoRate)
          [] source # g.target /\ last.variant = "manual" ->
                IF via = g.target THEN Valuation(n, TRUE, via, NoRate)
                ELSE Valuation(n, pair(via) # NoRate, via, pair(via))
          [] source # g.target /\ last.variant \in {"identity", "automatic"} ->
                Valuation(n, pair(source) # NoRate, None, pair(source))

\* Mutant: an update leaves the valuation of the transaction.
ValuedOnce(t, c, revs) ==
    valuations' = IF valuations[t] = None
                  THEN [valuations EXCEPT ![t] = Converted(c, revs, active)] ELSE valuations

\* upsert_transaction_valuation.
Valued(t, c, revs) == valuations' = [valuations EXCEPT ![t] = Converted(c, revs, active)]

-----------------------------------------------------------------------------
Init ==
    /\ txn = [t \in Transactions |-> None]
    /\ revisions = [t \in Transactions |-> <<>>]
    /\ valuations = [t \in Transactions |-> None]
    /\ active = [target |-> Eur, prior |-> None, epoch |-> 0]
    /\ ready = None
    /\ accepted = [o \in Observations |-> 0]
    /\ epoch = 0 /\ changes = 0
    /\ written = {} /\ missed = {}

\* Every write of a transaction ends with its row, its revisions and its valuation.
Store(t, c, d, revs) ==
    /\ Len(revs) <= MaxRevisions
    /\ txn' = [txn EXCEPT ![t] = [currency |-> c, date |-> d, deleted |-> FALSE]]
    /\ revisions' = [revisions EXCEPT ![t] = revs]
    /\ Valued(t, c, revs)
    /\ written' = IF ready = None THEN {} ELSE written \cup {t}
    /\ missed' = missed \ {t}
    /\ UNCHANGED <<active, ready, accepted, epoch, changes>>

CreateTransaction(t, c, d, manual) ==
    /\ txn[t] = None
    /\ c \in Enabled
    /\ Store(t, c, d, <<Created(c, d, manual)>>)

\* apply_import_rate: a plan that carries its own rate is stored as it stands, on the
\* date it names, but an automatic one must be what the provider's evidence gives.
ImportRate(c, d, plan, on) ==
    CASE plan = "lookup" -> Created(c, d, FALSE)
      [] plan = "identity" -> Revision("identity", c, d, FALSE)
      [] plan \in {"automatic", "pending", "manual"} -> Revision(plan, c, on, TRUE)

ImportTransaction(t, c, d, plan, on) ==
    /\ txn[t] = None
    /\ c \in Enabled
    /\ plan = "automatic" => c # Default /\ Pair(c, Default, on) # NoRate
    /\ Store(t, c, d, <<ImportRate(c, d, plan, on)>>)

UpdateTransaction(t, c, d, r) ==
    /\ txn[t] # None
    /\ ~txn[t].deleted
    /\ c # txn[t].currency => c \in Enabled
    /\ ~Refuses(t, c, d, r)
    /\ Store(t, c, d, Decided(t, c, d, r))

\* delete_transaction and delete_transactions: the revisions and the valuations stay.
DeleteTransactions(ts) ==
    /\ \A t \in ts : txn[t] # None
    /\ txn' = [t \in Transactions |-> IF t \in ts THEN [txn[t] EXCEPT !.deleted = TRUE] ELSE txn[t]]
    /\ UNCHANGED <<revisions, valuations, active, ready, accepted, epoch, changes, written, missed>>

(* The steps of the job that changes the default currency.                     *)

\* build_actual_generation: every row is valued for the new target; created_at is now.
BuildGeneration(target) ==
    /\ epoch < MaxEpoch /\ ready = None /\ target # Default
    /\ epoch' = epoch + 1
    /\ LET g == [target |-> target, prior |-> Default, epoch |-> epoch + 1] IN
       ready' = [generation |-> g,
                 valuations |-> [t \in Transactions |->
                     IF txn[t] = None THEN None ELSE Converted(txn[t].currency, revisions[t], g)]]
    /\ written' = {}
    /\ UNCHANGED <<txn, revisions, valuations, active, accepted, changes, missed>>

\* activate_generation.
ActivateGeneration ==
    /\ ready # None
    /\ active' = ready.generation
    /\ valuations' = ready.valuations
    /\ changes' = changes + 1
    /\ ready' = None /\ written' = {}
    /\ missed' = written
    /\ UNCHANGED <<txn, revisions, accepted, epoch>>

\* The job is cancelled or fails: the generation stays unused.
DiscardGeneration ==
    /\ ready # None
    /\ ready' = None /\ written' = {}
    /\ UNCHANGED <<txn, revisions, valuations, active, accepted, epoch, changes, missed>>

(* The environment of the transactions.                                        *)

\* A refresh publishes, corrects or withdraws an observation (ExchangeRates).
\* No valuation follows.
Refresh(o, version) ==
    /\ version = 0 \/ version = accepted[o] + 1
    /\ version <= MaxVersion /\ version # accepted[o]
    /\ accepted' = [accepted EXCEPT ![o] = version]
    /\ UNCHANGED <<txn, revisions, valuations, active, ready, epoch, changes, written, missed>>

Requests == [manual : BOOLEAN, confirm : BOOLEAN, retry : BOOLEAN]
Plans == {"lookup", "identity", "pending", "manual", "automatic"}

Next ==
    \/ \E t \in Transactions, c \in Currencies, d \in Dates :
        \/ \E manual \in BOOLEAN : CreateTransaction(t, c, d, manual)
        \/ \E plan \in Plans, on \in Dates : ImportTransaction(t, c, d, plan, on)
        \/ \E r \in Requests : UpdateTransaction(t, c, d, r)
    \/ \E ts \in (SUBSET Transactions) \ {{}} : DeleteTransactions(ts)
    \/ \E c \in Currencies : BuildGeneration(c)
    \/ ActivateGeneration \/ DiscardGeneration
    \/ \E o \in Observations, v \in 0..MaxVersion : Refresh(o, v)

Spec == Init /\ [][Next]_vars

-----------------------------------------------------------------------------
(* What transaction_detail, transaction_list_items and load_export_rate_fields *)
(* tell.                                                                       *)

Live(t) == txn[t] # None /\ ~txn[t].deleted

\* A transaction the generation has no valuation of is incomplete.
Complete(t) == valuations[t] # None /\ valuations[t].complete

-----------------------------------------------------------------------------
(* Properties.                                                                 *)

\* The rows' types; a transaction is inserted together with its first revision.
TransactionRatesTypeOK ==
    /\ txn \in [Transactions -> TransactionRow \cup {None}]
    /\ revisions \in [Transactions -> Seq(RevisionRow)]
    /\ \A t \in Transactions : txn[t] = None <=> revisions[t] = <<>>
    /\ valuations \in [Transactions -> ValuationRow \cup {None}]
    /\ active \in GenerationRow /\ ready \in BuiltGeneration \cup {None}
    /\ accepted \in [Observations -> Nat] /\ epoch \in Nat /\ changes \in Nat
    /\ written \subseteq Transactions /\ missed \subseteq Transactions

\* A transaction's figures come from the last of its rate revisions, whatever the order
\* of edits, imports and default changes; only what was written while the active
\* generation was being built is excepted (missed: such a transaction keeps no valuation, or
\* an outdated one, until it is written again).
FollowsLatestRevision ==
    \A t \in Transactions : Live(t) /\ t \notin missed =>
        valuations[t] # None /\ valuations[t].rev = Len(revisions[t])

\* A manual rate goes on being read in the currency it quotes, the default of when it was
\* written, until the default has changed twice, although no column says which currency that
\* is: whatever generations were built, discarded and activated before, between and since,
\* and whatever edits left the rate as it was.  Of "Manual rates lock source->default at
\* write time" (cache.rs) the code does not keep the rest: a rate kept over two changes of the
\* default and one written while the active generation was being built are read in another
\* currency, and so is a rate that an import wrote for the default currency itself.
ManualRateKeepsItsQuote ==
    \A t \in Transactions :
        LET last == Last(revisions[t]) IN
        /\ Live(t) /\ last.variant = "manual"
        /\ txn[t].currency \notin {last.terms.quote, Default}
        /\ changes <= last.terms.under + 1
        /\ last.terms.beside # active
        => valuations[t] # None /\ valuations[t].quoted = last.terms.quote

\* The rate in force is one for the transaction as it stands, in its currency and on its
\* date, after any edits of either to and from the default currency, and changes of the
\* default between them; only an import's own rate may be of another date.
RateFitsTransaction ==
    \A t \in Transactions : txn[t] # None =>
        LET last == Last(revisions[t]) IN
        /\ last.source = txn[t].currency
        /\ last.date = txn[t].date \/ last.own

=============================================================================
