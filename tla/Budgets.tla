------------------------------- MODULE Budgets --------------------------------
(* Budgets: period timelines kept incrementally, and the alerts they raise.    *)
(*   crates/db/src/budgets/{timeline/*,alerts,edit,lifecycle,repository,       *)
(*   category_impact}.rs                                                       *)
(*   crates/core/src/features/budgets/*, valuations/period.rs                  *)
(*   crates/db/src/valuations/spending.rs                                      *)
(*                                                                             *)
(* A period is its index in the calendar of the budget's cadence.  Amounts are *)
(* one unit, Amount; a transaction is valued or pending, a deleted one is gone.*)
(* Every action is one transaction of the writer, for a clock sampled when the *)
(* call was made: a period may have ended since.  An error, such as a command  *)
(* whose expected revision is not the budget's, rolls everything back and is   *)
(* no step.                                                                    *)
EXTENDS CategoryTree, Integers, FiniteSetsExt

CONSTANTS
    BudgetIds,
    Transactions,
    Settings,      \* [scope, allowance, mode, rollover] a budget may be given
    Amount,        \* of every transaction
    Entries,       \* [kind, valued, linked] a transaction may be
    MaxPeriod      \* bound on the calendar

Periods == 1..MaxPeriod
Modes == {"spending", "net"}
Rollovers == {"off", "previous", "cumulative"}

\* What the validation of a new budget and of an update lets through.
Setting == [scope : SUBSET Categories, allowance : Nat, mode : Modes, rollover : Rollovers]

\* A transaction as an entry, and where it is entered; a budget.
Entry == [kind : {"expense", "income"}, valued : BOOLEAN, linked : BOOLEAN]
Dated(e, p, c) ==
    [period |-> p, category |-> c, kind |-> e.kind, valued |-> e.valued, linked |-> e.linked]
TransactionRow ==
    [period : Periods, category : Categories \cup {None}, kind : {"expense", "income"},
     valued : BOOLEAN, linked : BOOLEAN]
BudgetRow == [paused : BOOLEAN, deleted : BOOLEAN, mode : Modes]

ASSUME BudgetsAssumption ==
    /\ Amount \in Nat /\ MaxPeriod \in Nat \ {0}
    /\ IsFiniteSet(Transactions)
    /\ Entries \subseteq Entry
    /\ Settings \subseteq Setting
    /\ None \notin Categories \cup CategoryRow \cup TransactionRow \cup BudgetRow

VARIABLES
    clock,       \* the current period
    txn,         \* transactions: [period, category, kind, valued, linked] or None
    budget,      \* budgets: [paused, deleted, mode] or None
    timeline,    \* budget_configurations and budget_period_results, by period
    announced,   \* domain_alerts of the budgets: <<budget, period, status>>
    quiet,       \* the budgets and periods whose status was reached without an alert
    remoded      \* budgets that ever changed their measurement mode

vars == <<tree, clock, txn, budget, timeline, announced, quiet, remoded>>

\* What a calculation reads: the category hierarchy and the transactions.
World == [tree |-> tree, txn |-> txn]

Budgeted == {b \in BudgetIds : budget[b] # None /\ ~budget[b].deleted}
Active == {b \in Budgeted : ~budget[b].paused}

\* The clock of a call that has waited for the writer.
Sampled == {n \in Periods : n \in {clock - 1, clock}}

-----------------------------------------------------------------------------
(* A period's result.                                                          *)

InScope(w, scope, row) == scope = {} \/ row.category \in Expanded(w.tree, scope)

Matching(w, setting, p) ==
    {t \in Transactions :
        /\ w.txn[t] # None /\ w.txn[t].period = p
        /\ InScope(w, setting.scope, w.txn[t])}

\* SPENDING_AMOUNT; the role of the category counts, deleted or not.
Contribution(w, setting, row) ==
    IF ~row.valued THEN 0
    ELSE IF row.kind = "expense" THEN Amount
    ELSE IF \/ setting.mode = "net"
            \/ row.category # None /\ w.tree[row.category].role = "spending"
         THEN -Amount
    ELSE 0

Spending(w, setting, p) ==
    MapThenSumSet(LAMBDA t : Contribution(w, setting, w.txn[t]), Matching(w, setting, p))

NoResult == [complete |-> TRUE, spending |-> 0, remaining |-> 0, effective |-> 0, status |-> "none"]

\* The threshold is at half of the allowance, rounded up.
StatusOf(spent, effective) ==
    IF spent > effective THEN "overspent"
    ELSE IF effective > 0 /\ 2 * spent >= effective THEN "warning"
    ELSE "onTrack"

Carry(rollover, before, allowance) ==
    IF before.status = "none" \/ rollover = "off" THEN 0
    ELSE IF rollover = "previous" THEN allowance - before.spending
    ELSE before.remaining

\* calculate_period_with_completeness: before is the result of the period before, and
\* allowed what that period's allowance was.
PeriodResult(setting, spent, complete, before, allowed) ==
    LET effective == setting.allowance + Carry(setting.rollover, before, allowed)
    IN IF ~complete \/ (setting.rollover # "off" /\ ~before.complete)
       THEN [complete |-> FALSE, spending |-> spent, remaining |-> 0, effective |-> 0,
             status |-> "incomplete"]
       ELSE [complete |-> TRUE, spending |-> spent, remaining |-> effective - spent,
             effective |-> effective, status |-> StatusOf(spent, effective)]

\* calculate: the row of a period.
Calculated(w, conf, p, before) ==
    PeriodResult(conf[p], Spending(w, conf[p], p),
                 \A t \in Matching(w, conf[p], p) : w.txn[t].valued,
                 before, IF p - 1 \in DOMAIN conf THEN conf[p - 1].allowance ELSE 0)

-----------------------------------------------------------------------------
(* A timeline: [conf, res], both by period.                                    *)

First(tl) == Min(DOMAIN tl.conf)
Latest(tl) == Max(DOMAIN tl.conf)

\* inspect; an error, ClockRegression, for a timeline that is ahead.
Stale(tl, now) == Latest(tl) < now
Ahead(tl, now) == Latest(tl) > now

\* The configurations up to a period, one after the other: what is missing is a copy of
\* the last.
Extended(tl, to) ==
    [p \in First(tl)..Max({Latest(tl), to}) |->
        IF p \in DOMAIN tl.conf THEN tl.conf[p] ELSE tl.conf[Latest(tl)]]

\* The results of a range of periods, each from the one before.
Recalculated(w, tl, from, to) ==
    LET conf == Extended(tl, to)
        new[p \in from..to] ==
            Calculated(w, conf, p, IF p > from THEN new[p - 1]
                                   ELSE IF p = First(tl) THEN NoResult ELSE tl.res[p - 1])
    IN [conf |-> conf,
        res |-> [p \in (from..to) \cup DOMAIN tl.res |->
                    IF p \in from..to THEN new[p] ELSE tl.res[p]]]

\* rebuild_derived: every result, no new period.
Rebuilt(w, tl) == Recalculated(w, tl, First(tl), Latest(tl))

\* advance_timeline: from the last configuration to the current period.
Ensured(w, tl, now) == Recalculated(w, tl, Latest(tl), now)

\* load_current_or_ensure.
Current(w, tl, now) == IF Stale(tl, now) THEN Ensured(w, tl, now) ELSE tl

-----------------------------------------------------------------------------
(* Forecasts (recurring_transactions/projection/forecast.rs).                  *)

\* signed_contribution and category_in_scope, of an occurrence that is projected.
Delta(setting, projected, p) ==
    MapThenSumSet(LAMBDA row : Contribution(World, setting, row),
                  {row \in projected : row.period = p /\ InScope(World, setting.scope, row)})

\* Mutant: a rollover of what is left starts from the whole allowance.
SeedOfAllowance(setting, current) ==
    [NoResult EXCEPT !.complete = current.complete, !.status = current.status,
                     !.remaining = current.effective]

\* seed_previous_for_current: a period before that carries what the current one's stored
\* result was given.
Seed(setting, current) ==
    [NoResult EXCEPT !.complete = current.complete, !.status = current.status,
                     !.remaining = current.effective - setting.allowance]

\* load_projection_compute_input: what is stored of a period.
Actual(b, p, now) ==
    IF p = now THEN timeline[b].res[now].spending
    ELSE Spending(World, timeline[b].conf[now], p)

\* forecast_budget_periods, from the stored result of the current period on.
ForecastPeriods(b, projected, now) ==
    LET setting == timeline[b].conf[now]
        current == timeline[b].res[now]
        forecast[p \in now..MaxPeriod] ==
            PeriodResult(setting, Actual(b, p, now) + Delta(setting, projected, p),
                         current.complete \/ p # now,
                         IF p = now THEN Seed(setting, current) ELSE forecast[p - 1],
                         IF p = now THEN current.effective - setting.allowance
                         ELSE setting.allowance)
    IN forecast

-----------------------------------------------------------------------------
(* Alerts.                                                                     *)

\* build_status_alert: an alert is identified by what it is about.
Alert(b, p, status) == <<b, p, status>>

Critical(b, p) == Alert(b, p, "overspent") \in announced
Announced(b, p) == Critical(b, p) \/ Alert(b, p, "warning") \in announced

\* Mutant: an alert of any period counts.
StatusAlertOnceEver(b, p, after) ==
    IF after \in {"warning", "overspent"} /\ ~\E q \in Periods : Announced(b, q)
    THEN {Alert(b, p, after)} ELSE {}

\* advancement_target_status and resume_target_status.
StatusAlert(b, p, after) ==
    CASE after = "overspent" /\ ~Critical(b, p) -> {Alert(b, p, after)}
      [] after = "warning" /\ ~Announced(b, p) -> {Alert(b, p, after)}
      [] OTHER -> {}

\* emit_resume_budget_alert: the present status, of a timeline brought up to now.
ResumeAlert(b, tl, now) == StatusAlert(b, now, tl.res[now].status)

\* transition_target_status; an incomplete period before counts as on track.
Transition(b, p, before, after) ==
    IF (IF before = "incomplete" THEN "onTrack" ELSE before) = after THEN {}
    ELSE StatusAlert(b, p, after)

\* What a write makes of the timelines: before it, the budgets it watches are brought up
\* to now without an alert; after it, the status each has is compared.
Watched(bs, now) ==
    [b \in BudgetIds |-> IF b \in bs THEN Current(World, timeline[b], now) ELSE timeline[b]]

Moved(bs, mid, post, now) == {b \in bs : mid[b].res[now].status # post[b].res[now].status}

Alerts(bs, mid, post, now) ==
    UNION {Transition(b, now, mid[b].res[now].status, post[b].res[now].status) : b \in bs}

\* A status that stays is as quiet as it was, or becomes so with a new period.
Quiet(bs, mid, post, now) ==
    (quiet \cup {<<b, now>> : b \in {x \in bs : mid[x] # timeline[x]}})
        \ {<<b, now>> : b \in Moved(bs, mid, post, now)}

\* The end of a write that watches bs and leaves the timelines as post.
Emit(bs, mid, post, now) ==
    /\ timeline' = post
    /\ announced' = announced \cup Alerts(bs, mid, post, now)
    /\ quiet' = Quiet(bs, mid, post, now)

-----------------------------------------------------------------------------
(* Transactions.                                                               *)

\* frontier_for_budget: the first period of the timeline a row falls in, or the last one
\* when a row falls in a period the timeline has not reached.
Frontiers(w, tl, rows, now) ==
    {p \in DOMAIN tl.conf :
        \E r \in rows : r.period = p /\ InScope(w, tl.conf[p].scope, r)}
    \cup {p \in {Latest(tl)} :
        \E r \in rows : r.period \in (p + 1)..now /\ InScope(w, tl.conf[p].scope, r)}

\* repair_from_frontier.
Repaired(w, tl, rows, now) ==
    LET frontiers == Frontiers(w, tl, rows, now)
    IN IF frontiers = {} THEN tl ELSE Recalculated(w, tl, Min(frontiers), now)

\* create_transaction, update_transaction, delete_transactions, the imports and fulfil:
\* the row before and the row after decide what is recalculated.
WriteTransaction(t, row, now) ==
    LET rows == {txn[t], row} \ {None}
        mid == Watched(Active, now)
        post == [b \in BudgetIds |-> IF b \in Budgeted
                    THEN Repaired([World EXCEPT !.txn[t] = row], mid[b], rows, now)
                    ELSE timeline[b]]
    IN /\ row # txn[t]
       /\ {txn[t], row} \cap {None} = {} => row.linked = txn[t].linked
       /\ \A b \in Active : ~Ahead(timeline[b], now)
       /\ \A b \in Budgeted :
            Frontiers(World, mid[b], rows, now) # {} => ~Ahead(mid[b], now)
       /\ txn' = [txn EXCEPT ![t] = row]
       /\ Emit(Active, mid, post, now)
       /\ UNCHANGED <<tree, clock, budget, remoded>>

-----------------------------------------------------------------------------
(* Categories.                                                                 *)

\* The budgets bs, before and after the tree and the transactions become w: rebuilt, and
\* advanced to the current period.
Rewritten(w, bs, now) ==
    LET mid == Watched(bs \cap Active, now)
        post == [b \in BudgetIds |->
                    IF b \in bs THEN Ensured(w, Rebuilt(w, mid[b]), now) ELSE timeline[b]]
    IN /\ \A b \in bs : ~Ahead(timeline[b], now)
       /\ Emit(bs \cap Active, mid, post, now)

CreateCategory(c, p, role) ==
    /\ MayCreate(c, p)
    /\ tree' = [tree EXCEPT ![c] = Placed(p, role, TRUE)]
    /\ UNCHANGED <<clock, txn, budget, timeline, announced, quiet, remoded>>

\* Mutant: only the new parent's budgets.
AffectedByArrival(c, p, role) ==
    {b \in Budgeted : \E q \in DOMAIN timeline[b].conf : p \in timeline[b].conf[q].scope}

\* affected_budgets_for_update; the measurement mode is the budget's present one.
AffectedByUpdate(c, p, role) ==
    LET moved == {tree[c].parent, p}
        changed == {c} \cup (IF tree[c].parent = None /\ p = None THEN Children({c}) ELSE {})
    IN {b \in Budgeted : \E q \in DOMAIN timeline[b].conf :
            LET scope == timeline[b].conf[q].scope IN
            \/ tree[c].parent # p /\ moved \cap scope # {}
            \/ /\ tree[c].role # role /\ budget[b].mode = "spending"
               /\ scope = {} \/ \E x \in changed : Covers(tree, scope, x)}

\* update_category, confirmed when it affects a budget.
UpdateCategory(c, p, role, now) ==
    /\ MayPlace(c, p)
    /\ LET updated == Updated(c, p, role) IN
        /\ updated # tree
        /\ tree' = updated
        /\ Rewritten([tree |-> updated, txn |-> txn],
                     AffectedByUpdate(c, p, updated[c].role), now)
    /\ UNCHANGED <<clock, txn, budget, remoded>>

\* analyze_deletion.
AffectedByDeletion(doomed) ==
    {b \in Budgeted : \E q \in DOMAIN timeline[b].conf :
        LET scope == timeline[b].conf[q].scope IN
        \/ \E x \in doomed : Covers(tree, scope, x)
        \/ /\ scope = {} /\ budget[b].mode = "spending"
           /\ \E x \in doomed : tree[x].role = "spending"}

Blocked(doomed, now) ==
    \E b \in Budgeted : now \in DOMAIN timeline[b].conf /\ timeline[b].conf[now].scope \cap doomed # {}

\* delete_categories, confirmed; a transaction that fulfilled an occurrence keeps its
\* category.
DeleteCategories(ids, strategy, now) ==
    LET doomed == Doomed(ids, strategy)
        txns == [t \in Transactions |->
                    IF txn[t] # None /\ txn[t].category \in doomed /\ ~txn[t].linked
                    THEN [txn[t] EXCEPT !.category = None] ELSE txn[t]]
        removed == Removed(ids, strategy)
    IN /\ ids \subseteq Live /\ MayDelete(ids, strategy)
       /\ ~Blocked(doomed, now)
       /\ tree' = removed /\ txn' = txns
       /\ Rewritten([tree |-> removed, txn |-> txns], AffectedByDeletion(doomed), now)
       /\ UNCHANGED <<clock, budget, remoded>>

-----------------------------------------------------------------------------
(* Budgets.                                                                    *)

NoTimeline == [conf |-> <<>>, res |-> <<>>]

\* create_budget: its first period, silently. The scope is JSON text: any ids are taken,
\* of categories gone or not there yet too.
CreateBudget(b, setting, now) ==
    LET conf == [p \in {now} |-> [setting EXCEPT !.scope = Canonical(tree, @)]]
    IN /\ budget[b] = None
       /\ budget' = [budget EXCEPT
            ![b] = [paused |-> FALSE, deleted |-> FALSE, mode |-> setting.mode]]
       /\ timeline' = [timeline EXCEPT
            ![b] = Recalculated(World, [conf |-> conf, res |-> <<>>], now, now)]
       /\ quiet' = quiet \cup {<<b, now>>}
       /\ UNCHANGED <<tree, clock, txn, announced, remoded>>

\* get_budget, list_budgets: the timeline is brought up to now, and the new period announced.
ReadBudget(b, now) ==
    LET tl == timeline[b]
        post == Current(World, tl, now)
    IN /\ b \in Budgeted /\ Stale(tl, now)
       /\ timeline' = [timeline EXCEPT ![b] = post]
       /\ announced' = announced \cup
            (IF budget[b].paused THEN {} ELSE StatusAlert(b, now, post.res[now].status))
       /\ UNCHANGED <<tree, clock, txn, budget, quiet, remoded>>

\* refresh_current_configuration: the current period only.
Reconfigured(w, tl, setting, now) ==
    Recalculated(w, [tl EXCEPT !.conf[now] = setting], now, now)

\* update_budget.
UpdateBudget(b, new, now) ==
    LET setting == [new EXCEPT !.scope = Canonical(tree, @)]
        mid == Watched({b}, now)
        post == [timeline EXCEPT ![b] = Reconfigured(World, mid[b], setting, now)]
    IN /\ b \in Budgeted /\ ~Ahead(timeline[b], now)
       /\ budget' = [budget EXCEPT ![b].mode = new.mode]
       /\ remoded' = IF new.mode = budget[b].mode THEN remoded ELSE remoded \cup {b}
       /\ IF budget[b].paused
          THEN timeline' = post /\ UNCHANGED <<announced, quiet>>
          ELSE Emit({b}, mid, post, now)
       /\ UNCHANGED <<tree, clock, txn>>

\* set_budget_paused; resuming announces the present status.
PauseBudget(b, now) ==
    /\ b \in Budgeted /\ ~Ahead(timeline[b], now)
    /\ budget' = [budget EXCEPT ![b].paused = TRUE]
    /\ timeline' = [timeline EXCEPT ![b] = Current(World, @, now)]
    /\ UNCHANGED <<tree, clock, txn, announced, quiet, remoded>>

ResumeBudget(b, now) ==
    LET post == Current(World, timeline[b], now) IN
    /\ b \in Budgeted /\ ~Ahead(timeline[b], now)
    /\ budget' = [budget EXCEPT ![b].paused = FALSE]
    /\ timeline' = [timeline EXCEPT ![b] = post]
    /\ announced' = announced \cup ResumeAlert(b, post, now)
    /\ quiet' = quiet \ {<<b, now>>}
    /\ UNCHANGED <<tree, clock, txn, remoded>>

\* delete_budget: the timeline is retained.
DeleteBudget(b) ==
    /\ b \in Budgeted
    /\ budget' = [budget EXCEPT ![b].deleted = TRUE]
    /\ UNCHANGED <<tree, clock, txn, timeline, announced, quiet, remoded>>

\* activate_default_generation: everything is valued anew, every budget rebuilt, and the
\* present status of each active one announced.
ActivateDefault(valued, now) ==
    LET txns == [t \in Transactions |->
                    IF txn[t] = None THEN None ELSE [txn[t] EXCEPT !.valued = t \in valued]]
        w == [tree |-> tree, txn |-> txns]
        post == [b \in BudgetIds |->
                    IF b \notin Budgeted THEN timeline[b]
                    ELSE IF b \in Active THEN Current(w, Rebuilt(w, timeline[b]), now)
                    ELSE Rebuilt(w, timeline[b])]
    IN /\ \A b \in Active : ~Ahead(timeline[b], now)
       /\ txn' = txns /\ txns # txn
       /\ timeline' = post
       /\ announced' = announced \cup
            UNION {ResumeAlert(b, post[b], now) : b \in Active}
       /\ quiet' = quiet \ {<<b, now>> : b \in Active}
       /\ UNCHANGED <<tree, clock, budget, remoded>>

\* The end of a period.
Tick ==
    /\ clock < MaxPeriod /\ clock' = clock + 1
    /\ UNCHANGED <<tree, txn, budget, timeline, announced, quiet, remoded>>

Init ==
    /\ tree = [c \in Categories |-> None]
    /\ clock = 1
    /\ txn = [t \in Transactions |-> None]
    /\ budget = [b \in BudgetIds |-> None]
    /\ timeline = [b \in BudgetIds |-> NoTimeline]
    /\ announced = {} /\ quiet = {} /\ remoded = {}

Next ==
    \/ \E c \in Categories, p \in Categories \cup {None}, role \in Roles :
        \/ CreateCategory(c, p, role)
        \/ \E now \in Sampled : UpdateCategory(c, p, role, now)
    \/ \E ids \in SUBSET Live \ {{}}, strategy \in Strategies, now \in Sampled :
        DeleteCategories(ids, strategy, now)
    \/ \E t \in Transactions, now \in Sampled :
        \/ WriteTransaction(t, None, now)
        \/ \E p \in Periods, c \in Live \cup {None}, e \in Entries :
            WriteTransaction(t, Dated(e, p, c), now)
    \/ \E valued \in SUBSET Transactions, now \in Sampled : ActivateDefault(valued, now)
    \/ \E b \in BudgetIds :
        \/ DeleteBudget(b)
        \/ \E now \in Sampled :
            \/ ReadBudget(b, now) \/ PauseBudget(b, now) \/ ResumeBudget(b, now)
            \/ \E s \in Settings : CreateBudget(b, s, now) \/ UpdateBudget(b, s, now)
    \/ Tick

Spec == Init /\ [][Next]_vars

-----------------------------------------------------------------------------
(* Properties.                                                                 *)

BudgetsTypeOK ==
    /\ clock \in Periods
    /\ \A b \in BudgetIds :
        /\ DOMAIN timeline[b].res = DOMAIN timeline[b].conf
        /\ budget[b] = None <=> DOMAIN timeline[b].conf = {}
        /\ budget[b] # None =>
            /\ DOMAIN timeline[b].conf = First(timeline[b])..Latest(timeline[b])
            /\ Latest(timeline[b]) <= clock
    /\ quiet \subseteq BudgetIds \X Periods
    /\ announced \subseteq BudgetIds \X Periods \X {"warning", "overspent"}

ResultsAgree(b) == timeline[b].res = Rebuilt(World, timeline[b]).res

\* What is stored of a period is what calculating the whole timeline from its first period
\* would give, in every period and whatever was written when: no frontier is too late, no
\* rollover is forgotten, no change of a category passes a budget by.  (Not for budgets
\* that have changed their measurement mode: which budgets a category's role affects is
\* decided by the present mode, so closed periods of the other one keep what they were.)
PeriodsAgree == \A b \in Budgeted \ remoded : ResultsAgree(b)

\* An active budget at its warning threshold or over its allowance has been announced to
\* be, unless that came with its creation or with a write that found its period over.
EveryStatusIsAnnounced ==
    \A b \in Active :
        LET tl == timeline[b]
            p == Latest(tl)
        IN <<b, p>> \notin quiet =>
            /\ tl.res[p].status = "overspent" => Critical(b, p)
            /\ tl.res[p].status = "warning" => Announced(b, p)

\* What may be projected of a transaction, the world with it, what that leaves pending in a
\* later period, and the comparison of what was forecast with what then is.
Projectable(t) ==
    IF txn[t] # None THEN {txn[t]}
    ELSE {Dated(e, p, c) :
            p \in clock..MaxPeriod, c \in Live \cup {None}, e \in {x \in Entries : x.valued}}

Written(t, row) == [World EXCEPT !.txn[t] = row]

PendingLater(w) ==
    \E u \in Transactions : w.txn[u] # None /\ w.txn[u].period > clock /\ ~w.txn[u].valued

ForecastKept(b, t, row) ==
    \A p \in clock..MaxPeriod :
        ForecastPeriods(b, {row} \ {txn[t]}, clock)[p] =
            Recalculated(Written(t, row), timeline[b], clock, MaxPeriod).res[p]

\* A forecast is kept: when what is projected is generated and nothing else happens, the
\* current and the later periods come to the results that were forecast, whatever carry the
\* current one was stored with.  (Not with a transaction in a later period whose rate is
\* pending: a forecast takes only the current period for incomplete.)
ForecastIsKept ==
    \A b \in Active : clock \in DOMAIN timeline[b].conf =>
        \A t \in Transactions : \A row \in Projectable(t) :
            PendingLater(Written(t, row)) \/ ForecastKept(b, t, row)

===============================================================================
