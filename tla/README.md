# Verification of zai

TLA+ models of [zai](../src/README.md), a local-first personal-finance application
written in Rust (crates `core`, `db`, `app`, a server, a Tauri shell and a web
frontend), with TLC runs over small instances and TLAPS proofs for every value of
the constants. Paths below are relative to `src/`; `R/` stands for
`crates/db/src/recurring_transactions/`, `C/` for
`crates/core/src/features/recurring_transactions/`.

1. [Inventory](#1-inventory) - 2. [Plan](#2-plan) - 3. [Modules](#3-modules-and-the-code-they-model) -
4. [Runs](#4-runs) - 5. [Proofs](#5-proofs) - 6. [Observations](#6-observations) -
7. [Not modelled](#7-not-modelled)

## 1. Inventory

The application is one process over one SQLite database. Services in `core` decide,
repositories in `db` read through a connection pool and write through a single writer
thread, `app` wires them together and runs the background tasks, `apps/server` and
`apps/tauri` expose the services to clients, which are told by broadcast events to read
again. Several clients may issue commands at the same time as the background tasks run.

| Component | State it keeps | What is hard, what makes it correct | Module |
|---|---|---|---|
| **Recurring schedule** (`C/schedule.rs`) | none, pure | clamped days of the month; every slot once, no drift | `RecurringSchedule` |
| **Occurrences**: processing, create, adopt, edit, lifecycle, recovery (`R/`, `C/`) | source row, schedule and template revisions, head, occurrences, failures, alerts | several workers share one queue of heads; commands read, decide and write later; each slot exactly once, in order, up to the total; parked slots are not bypassed | `RecurringOccurrences` |
| **Recurring supervisor** (`C/supervisor*.rs`) | wake permit, timers, status, durable delay alert | lost wake-ups, clock changes, failing alert writes, stop between occurrences | `RecurringSupervisor` |
| **Projection and bulk counts** (`C/projection/`, `C/bulk.rs`) | none | what is announced must be what is generated | `RecurringProjection` |
| **Writer** (`crates/db/src/write_actor.rs`) | bounded queue, one thread | full queue, lost reply after commit, panic of a job | `WriteActor` |
| **Domain alerts, live events, alert list** (`crates/db/src/domain_alerts/`, `apps/server/src/api/live_events.rs`, `apps/frontend/src/features/alerts/`) | alerts, bus, stream, list and count | events lost or late, refreshes that overtake each other; the list settles on what is saved | `AlertFeed` |
| **Currency lifecycle and jobs** (`crates/core/src/features/currency/`, `crates/db/src/currency/`) | currencies, default, jobs, generations | cancel races the drive through unfenced updates; restart in the middle; success means effect | `CurrencyJobs` |
| **Transaction import** (`import_service.rs`, `import_preview.rs`, `import_dedup.rs`) | preview store with tokens and bindings | commit of a stale or twice-used preview; no duplicate, rows arrive as read | `TransactionImport`, `ImportPreview` |
| **Exchange rates** (`exchange_rates/`, `currency_refresh.rs`) | accepted set, refresh state, alert | overlapping refreshes, outages; no update of the provider lost | `ExchangeRates` |
| **Money** (`crates/core/src/money/`) | none, pure | widths, rounding, limits; nearest quote, rounded once | `Money` |
| **Transactions, rate revisions, valuations** (`crates/db/src/transactions/`, `crates/db/src/valuations/`) | transactions, append-only revisions, generations of valuations | which revision is in force, in which currency a manual rate is read | `TransactionRates` |
| **Categories** (`transaction_categories/`) | two-level tree with roles | moves, role changes and imports race; two levels of one role | `CategoryTree`, `CategoryImport` |
| **Budgets** (`budgets/`) | budgets, stored periods, announced statuses | incremental repair against recalculation; every status announced; forecast kept | `Budgets` |
| **Server, shell, rest of the frontend, migrations, tools** | sessions, caches | adapters | - |

`PROJECT.json` names the sources and the status of each, and lists under *hazards* the
places where this code is hard to test, each with the properties aimed at it.

How they interact: every command ends in a closure on the writer, so a commit is one
action in every module. `TransactionImport` extends `CurrencyJobs` (a preview is a job and
shares the one-job index, the drives and the ledger). `AlertFeed` extends `WriteActor`.
`Budgets` and `CategoryImport` both extend `CategoryTree`, `ImportPreview` extends
`CategoryImport` (an import of rows brings its categories). `RecurringProjection` and
`RecurringLedger` extend `RecurringOccurrences`. Where modules meet without being composed
the meeting point is an environment action: the refresh a drive asks for is one step in
`CurrencyJobs` and a task in `ExchangeRates`; the publication of an observation is one
step in `TransactionRates`; a transaction becoming valued is a step in `Budgets`.

## 2. Plan

The order is by importance: recurring transactions move money unattended, so their
core came first.

1. *(done)* `RecurringSchedule`; `RecurringOccurrences` with its abstract specification
   `OccurrenceLedger` and the refinement `RecurringLedger`; `RecurringSupervisor`; their proofs.
2. *(done)* `CurrencyJobs` with `TransactionImport`; `ExchangeRates`; `TransactionRates`;
   `Money`; `CategoryTree` with `Budgets`; `CategoryImport` with `ImportPreview`;
   `WriteActor` with `AlertFeed`; `RecurringProjection`.
3. *(done, proofs)* the safety of `RecurringOccurrences`, `RecurringSupervisor`,
   `TransactionImport` with `CurrencyJobs`, `TransactionRates`, `ExchangeRates`, `Money`,
   `Budgets` with `CategoryTree`, and `AlertFeed` with `WriteActor`; the refinement `KeepsLedger`, with
   `HeadCoherent`, `PassedOnlyByHeadMoves`, `CatchUpAsForecast` and `WaitingComesDue`, under the edits and
   resumptions for which they hold.
   *(next, proofs)* `TwoLevelsOneRole` under imports of categories.
4. *(open)* restated allowances of budgets, later pages of the alert list.

Runs stay few: a new question is first put to an existing instance.

## 3. Modules and the code they model

### RecurringSchedule

The arithmetic of `C/schedule.rs`. A local time is a day number; the time of day is
carried through by the code unchanged. The calendar is abstract: months of two lengths
that alternate (so an anchor day is missing from some months), weeks and years of a
constant length. `ScheduledLocalAt`, `AddMonthsClamped` and `ClampDay` are the code's
functions of the same names; `AdvanceHeadPast` says where the loop of
`advance_head_past_observation` stops. `MCRecurringOccurrences` assumes
`SlotsFollowTheCalendar`, an independent day-by-day account of which days are slots, and
TLC evaluates it over every kind of rule in three runs.

### RecurringOccurrences

| Variable | Table |
|---|---|
| `sources` | `recurring_transactions` (lifecycle, total, `fulfilled_count`, `revision`) |
| `schedules`, `templates` | `recurring_schedule_revisions`, `recurring_template_revisions` |
| `heads` | `recurring_occurrence_heads` |
| `occurrences`, `failures` | `recurring_occurrences`, `recurring_generation_failures` |
| `alerts` | the `domain_alerts` of recurring transactions |
| `categories` | transaction categories not deleted |
| `commands` | what each worker is in the middle of; lost in a crash |
| `clock`, `faults` | the device's local clock; the number of faults so far (a bound) |

A command reads through the pool, decides and writes later, so it is several actions and
others run between them:

| Actions | Code |
|---|---|
| `BeginSlice`, `ProcessFulfill`, `ProcessPark`, `ProcessHeal`, `ProcessError`, `CaughtUp` | `run_processing_slice` over `process_one_due_occurrence`, by outcome |
| `Create`, `Adopt` | `create`, `adopt_existing_transaction` and the slice after it |
| `BeginUpdate`, `CommitUpdate`, `FailUpdate` | `update_inner` and the fenced write |
| `BeginLifecycle`, catch-up, `Recheck`, `Reread`, `CommitLifecycle`, `FailLifecycle` | `apply_lifecycle_status` and `apply_lifecycle_command` |
| `BeginRepair`, `CommitRepair`, `FailRepair`, `Retry` | repair and ordered retry |
| `DeleteCategory` | `uncategorize_unfulfilled` and the soft delete |
| `Tick`, `SetClockBack`, `Crash`, `Contention` | time; the device; the process ending at any point; the busy timeout |

Abstractions, beyond data:

- An error return leaves the database as it was (the transaction rolls back) and ends the
  command. A command whose client sends a revision that is already stale does nothing and
  is not an action.
- Reads a command makes one after the other before its first commit are one step where the
  commit is fenced by the revision read first. Only parking a failure changes rows without
  moving the revision; its interleaving with a later commit is kept.
- The clock sample an adoption's slice takes is the one at its commit.
- Equal due times of two sources are taken in any order (the code orders by random ids).
- Amounts, currencies, notes, budget and valuation writes of the same transaction are left
  to the other modules; deterministic generation errors other than a missing template or a
  deleted category are not modelled.

### OccurrenceLedger, RecurringLedger, RecurringProjection

`OccurrenceLedger` is what recurring transactions promise a user: for each of them a
ledger of dates, appended to in order, only while active, up to the total, final once
ended. `RecurringLedger` gives the refinement mapping (`KeepsLedger`), the fairness and
the liveness properties. `RecurringProjection` derives the forecast of a rolling window
(`enumerate_projected_slots`) and the counts a bulk command is confirmed with
(`count_due_from_head`, `count_waiting_due_behind`, eligibility) from the same rows, and
compares them with what the next generation does.

### RecurringSupervisor

The loop of `C/supervisor.rs` and `C/supervisor_rearm.rs`, one action per await point or
branch: the top of the loop, the two waits, the coalescing window, the run with the
alert of an earlier delay, the slice with its look at the shutdown flag, reconciling the
alert, the three ways to re-arm. What is due is one head, its time kept relative to the
clock so that the state space is finite while time passes. The permit of the `Notify`
is one bit, as in tokio. Assumption: the distance of two occurrences exceeds a run plus
the fallback (`Period`; days against minutes).

### CurrencyJobs, TransactionImport

Requests and background drives are both sequences of calls on one database: every write
commits alone, nothing holds across two calls. `jobs` is the jobs table with its one-job
unique index (`InsertJob` fails on it), `proc` what each request or drive remembers
between two calls, `generations` and `head` the valuation generations. A drive reads the
job, stages it, looks for a cancellation, does its work and writes the end; `update_job`
overwrites whatever is there, so two drives of one job and a cancellation race as in the
code. `Restart` ends the process: drives and requests are gone and a leftover running job
gets a new drive (`adopt_leftover_currency_jobs`). `TransactionImport` adds the previews:
classification against the ledger, the binding (file digest, default-currency revision,
coverage proof), the store with its tokens, the commit in one transaction that looks for
duplicates again, and what a restart forgets.

### ExchangeRates

An observation is how many times the provider has written it. A refresh takes the lock,
reads the accepted set and the state, plans a full or an incremental request, downloads
year by year while the provider goes on writing, validates completeness, and publishes the
set with its state in one transaction, or records not-modified or a failure. The supervisor
refreshes on its interval, a user may ask for a refresh now, a drive of a currency job may need
one. The first two then apply the outcome to the alert (`Apply`, `EnsureOpen`) outside the lock,
so that one may write it while another refreshes or writes it too; a drive does not touch it. The
alert's write may fail any number of times (`AlertWriteFails`); outages, failed publishes and
restarts are bounded by `MaxFaults`.

### TransactionRates

A transaction has a currency, a date and a sequence of revisions, each of a variant
(identity, automatic, manual, pending). Actions are create, import, update with the rate
decisions of `rate_write.rs`, deletion (also in bulk), the publication, correction or
withdrawal of an observation, and building, activating or discarding a generation. A rate is
the pair of observations it is computed from. A revision also remembers what no column holds:
the transaction's currency and, of a manual rate, the default it quotes, how often that had
changed and which generation was being built beside it. `missed` holds the transactions
written while the active generation was being built, which the code does not value (see
Observations); `FollowsLatestRevision` excepts them.

### Money

A rate is a positive decimal, coefficient over a power of ten. The widths are constants:
`MaxCoefficient` (i64), `MaxWide` (i128), `MaxMinorUnits`. `AskQuote` selects the
observations of a pair, `BringDown` is one iteration of the loop of `from_ratio`,
`FinishQuote` rounds, trims and parses or refuses, and the conversions use a quote as a
manual rate, the pair itself, or the newest observations of a projection.

### CategoryTree, Budgets

`CategoryTree` is the tree and what each write makes of it: placement, inheritance of
roles, promotion and deletion. `Budgets` composes it with transactions and budgets: every
write calculates which budgets it affects, from which period on (`AffectedBy...`), and
repairs their stored periods from that frontier, and raises the alerts of the changes of
status. A read or a command first extends the timeline to the current period. The clock a
command works with was sampled earlier (`Sampled`), so that a period may have ended since.
The forecast (`ForecastPeriods`) is computed beside the stored timeline, as in the code.

### CategoryImport, ImportPreview

An import of categories is planned against a reading of the categories (`PlanImport`) and
inserted later (`CommitImport`), where siblings that exist by then are reused and children
are mapped to them. Single edits are checked again inside their transaction and are one
step. `ImportPreview` classifies the rows of a file (import, duplicate, invalid, empty),
gives new categories placeholder identities, and commits categories and rows together;
`Export` writes the ledger as a file that may be read again.

### WriteActor, AlertFeed

`WriteActor` is the queue, the thread and the reply of each call: senders wait for a
place, a job is committed or rolled back, a panic ends the thread and drops the queue, and
a caller may go away wherever it is, which does not stop its job. `AlertFeed` conjoins what
jobs do to alerts and follows a change to the client: publication after the reply, the bus
that drops the oldest events, the web stream (which may break and reopen) or the desktop
forwarder, and the list controller with its overlapping refreshes (list and count are read
at two times), its optimistic updates and its filters.

## 4. Runs

| Run | Instance | What it shows |
|---|---|---|
| `LifecycleRaces` | 1 source of total 2, a category that may be deleted, 2 clients, 3 days, edits to every other day, one fault | `TypeOK`, `ExactlyOnce`, `HeadWhileOpen`, `EndIsFinal`, `SkippedStaySkipped`, `PassedOnlyByHeadMoves` under every interleaving of two commands and the supervisor; slots are parked between the steps of pauses, resumes and edits, and both commits that pass a parked slot happen |
| `EditsAndFailures` | 1 client, a category that may be deleted, monthly and daily drafts, edits to daily, totals 2 and 3, days 0..4 | `FiniteTotalRespected`, `HeadCoherent`, `AlertsAgree`, the refinement `KeepsLedger`, and the announcements `CatchUpAsForecast`, `WaitingComesDue` |
| `Progress` | an empty or a restored database, 2 sources, 1 client, one fault, fair workers | `EverythingDueIsHandled`, `LifecycleCommandsEnd`, `RepairedIsRetried`, `OneOccurrencePerTransaction` |
| `Supervisor` | window 1, fallback 3, re-arm 1; 2 faults, one command, clock jumps of 2 | `DueIsTakenUp` (no wake-up or due head is lost), `NoStaleAlert`, `StopsBetweenOccurrences` |
| `CurrencyJobs` | 2 currencies, 1 client, 2 drives, 2 jobs, 1 file of one row, one restart | `DefaultIsActiveTarget`, `SucceededTookEffect`, `RunningJobIsDriven`, `ImportsOnlyNewRows` |
| `ExchangeRates` | 1 currency, an observation in each of 2 years, the supervisor, a user's request and a drive, 2 versions, one fault, any number of failed alert writes | `NoUpdateLost`, `CatchesUp`, `AlertCloses` |
| `TransactionRates` | 1 transaction, 3 currencies, 2 dates, 2 revisions, 2 default changes | `FollowsLatestRevision`, `ManualRateKeepsItsQuote`, `RateFitsTransaction` |
| `Budgets` | 1 budget, 1 transaction, 2 categories, 2 periods, previous and cumulative rollover | `PeriodsAgree`, `EveryStatusIsAnnounced`, `ForecastIsKept` |
| `AlertFeed` | 1 web client, 1 producer, 2 alerts, queue, page and bus of one, one incident | `SettledFeedIsCurrent`, `CommandsEnd` |
| `CategoryImport` | 1 import of categories, 2 readers of files, 1 edit, 2 names | `TwoLevelsOneRole`, `ImportsMeet`, `RowsArriveAsRead` |
| `Money` | 2 significant digits, coefficients to 92, amounts to 9223, 128 bits scaled to 170141; 31 rates with every remainder and tie | `QuoteIsNearest`, `QuoteConvertsAlike`, `RoundedOnce` |
| `UnblockedImportCommits` | as `CategoryImport` | *violated*: see Observations |

*Bounds.* The recurring instances use months of 3 and 2 days, weeks of 2 and years of 2
months: monthly day 3 exists only in every other month. `MaxClock` days are enough for a
source to fall due, be generated, edited and fall due again, and for a finite total of 2
or 3 to complete. `MaxRevision` stops clients from starting a command on a source past that
revision; a command under way and the workers go on. `MaxFaults` (`MaxCrashes`,
`MaxIncidents`) bounds crashes, timeouts, failed reads and writes together: one is enough
to meet each at every point. In the supervisor `MaxRun` is how long a run may take and
`MaxOverdue` how far overdue a head is told apart. `MaxJobs`, `MaxSets` and `MaxRows` let a
job follow a job, a set be published after a generation was built, and a row be recorded
between preview and commit. `MaxVersion` in `ExchangeRates` lets the provider correct what was
downloaded; two years tell a full from an incremental request. `MaxEpoch` 2 lets a manual
rate be read in the default before the last one; `MaxRevisions` 2 lets one revision replace
another. Two periods are a closed and a current one, or a current and a forecast one. A
queue, a page and a bus of one overflow at the second entry; two writes and one incident
meet. `MaxEdits` and `MaxTransactions` let one edit come between a plan and its commit and
an export be read again. In `Money` the digits, the coefficient and the wide integer keep
the proportions of 18 digits, 64 and 128 bits, so that each limit is met. The constraint
`BudgetRemains` ends an instance whose only budget is deleted: nothing is checked of it.

*Deadlock* is checked in `ExchangeRates` and `TransactionRates`. Elsewhere the instances stop
by their bounds (the last day with nothing due, all commands, jobs or writes used up), and
the supervisor ends at shutdown.

*Symmetry* of clients, drives, categories, dates or currencies is used in runs without
liveness only.

*Fairness.*

- Recurring: `WF` of the supervisor's processing and of each client's begun command, which
  are tasks of one runtime whose writes pass through a first-in first-out queue. Clients need
  not start commands, the clock need not move, faults need not happen. That the supervisor
  keeps processing is what `RecurringSupervisor` shows of its loop (`DueIsTakenUp`), under
  fairness of the task, of the wake request of a committed command, and of time.
- `CurrencyJobs` states `WF` of requests and drives; the checked properties are safety.
- `ExchangeRates`: `WF` of each task's next step; `SF` of the supervisor's taking the lock,
  since its interval keeps ticking and a tokio mutex is handed over in order of arrival; `SF` of
  its applying an outcome, since the interval tries again and the write of an alert does not
  fail every time. Users and drives need not ask. The provider need not write, recover or
  fail: `CatchesUp` and `AlertCloses` assume it healthy in the end.
- `AlertFeed`: `WF` of the writer's thread; `SF` of a waiting sender, since the channel
  serves its permits in order of arrival. A caller may go away at any time.

*Exceptions* are written into the properties, each for a behaviour described below:
`Jammed` (a restored finite source that cannot be healed), `missed` and `beside`
(`TransactionRates`: written while the active generation was being built), two changes of the
default under a manual rate, an import's own rate date (`RateFitsTransaction`),
`remoded` and `quiet` (`Budgets`: a changed measurement mode; a status that came with the
creation of a budget or a write that found its period over), `untold` (`AlertFeed`: an
event dropped with its request, or before the first stream), `excused` (`CategoryImport`:
an edit came between plan and commit), a preview forgotten by a restart (`CurrencyJobs`).
`EditsAndFailures` has no resume, no second schedule edit over a pause and edits to interval
rules only, for the disagreements listed under recurring transactions.

`TypeOK` of the core module is checked and proved. The other modules state their types too
(`CurrencyTypeOK`, `RatesTypeOK`, `TransactionRatesTypeOK`, `BudgetsTypeOK`, `TypeOK` of the
supervisor); no run spends time on them, since their proofs contain them or, for
`CurrencyTypeOK` and `BudgetsTypeOK`, stronger typings of the same variables.

## 5. Proofs

Every theorem is about the specification the runs check, for any sets of sources, clients,
drives, categories, currencies and so on, and for any value of the bounds. What is assumed of
the constants is in the named `ASSUME`s of the modules, which TLC evaluates in the runs: they
give types, keep the values that stand for "nothing" apart from rows, and say of `Budgets`
that its transactions and of `AlertFeed` that its alerts are finitely many, of
`ExchangeRates` that its years are 1..n, of `Money` that the wide integer has no more than
`MostDigits` digits (`i128::MAX` has 39, and 18 significant digits allow 41), and of
`RecurringSupervisor` that occurrences are further apart than a run plus the fallback (days
against minutes).

### Recurring transactions

`RecurringOccurrencesProofs` begins with the calendar and the rows. For every calendar and
rule, a slot is a date and ordinal n is no earlier than day n - 1 (`SlotBound`); slots
strictly increase with the ordinal, whatever is clamped (`SlotsIncrease`: a clamped day
stays within its month and months follow each other); and so the set `AdvanceHeadPast`
searches holds a slot past the observation, and its result is one (`AdvanceHeadPastLands`).

It goes on to prove `TypeOK`, `ExactlyOnce`, `FiniteTotalRespected`,
`HeadWhileOpen`, `EndIsFinal`, `SkippedStaySkipped`, `OneOccurrencePerTransaction` and
`AlertsAgree`. None of these is inductive alone. The invariant `IInv` joins `TypeOK` with

- `SourceSound` of every source: positions 1..count are taken exactly once and no slot
  twice; a total is respected and a completed source has reached it; a source has a head
  exactly while open, and that head names a slot of one of its revisions; it has an open
  schedule revision and an open template segment. A fulfillment adds a new slot because it
  is tried only where no occurrence is recorded at the head, and a new position because
  the count is exact; healing, from such a state, finds no lagging count to repair.
  Restored databases, where it does, are covered by the run `Progress` alone;
- `CommandSound` of every worker's command. A new total is compared with the count when an
  edit begins and written when it commits. What makes that right is the fence: revisions
  only grow, every fulfillment raises the count together with the revision, so as long as
  the revision is the one read, the total still covers the count (`EditSound`).

Each action then has a lemma or a step, one conjunct at a time. `EndIsFinal` is an action
property and follows from `IInv` because an ended source has no head and processing takes
sources with one. `SkippedStaySkipped` follows because a paused source has a head that names
a slot, from which `SkippedHeadLands`, by `AdvanceHeadPastLands`, ends past the observation.
`OneOccurrencePerTransaction` is inductive beside it: a step records nothing, a generated
transaction, or one that no source has (`RecordsOne`). So is `AlertsAgree`: the steps that
change rows or alerts of a source are a fulfillment, a parking, a repair and an adoption,
and each keeps the two sets of slots alike (`AlertsMatch`).

### The ledger

The last part of `RecurringOccurrencesProofs` proves that `RecurringOccurrences` implements
`OccurrenceLedger` (`LedgerIsKept`), that heads stay coherent (`HeadsCoherent`) and that a
parked slot is passed by schedule edits and resumptions only (`ParkedIsPassedByHeadMoves`,
which assumes nothing of those two commits). None of the three holds of every
behaviour, because the code does otherwise in the places section 6 lists. That forecasts and
counts come true (`CatchUpsAsForecast`, `WaitingsComeDue`) is proved under the same
hypotheses, from the invariants. Each hypothesis excludes one of those places:

| Hypothesis | What it excludes | Used by |
|---|---|---|
| `EditsKeepDates` | an edit to "day n of every month" that asks for another day than n, whose head is set to day n of that month, perhaps in the past | all |
| `ResumesWithinTwo` | a resume of a source with three revisions or more, for which `skip_head_past_observation` changes revision once | `HeadsCoherent` |
| `ParkedHeadsStay` | a schedule edit or a resume that read its source before a slot was parked, and commits after it: parking does not bump the revision, so the fence lets it move the head past the failure | `WaitingsComeDue` |

The first is implied where all rules in use are intervals (`IntervalsKeepDates`), whence
`LedgerIsKeptByIntervals`, of every behaviour: edits, retries, crashes, faults and clock
changes are all in it. The run `EditsAndFailures` is bounded to behaviours that satisfy all
three.

The invariant is `OrderInv`, beside `IInv`. It says of every source (`InOrder`) that a
revision is closed no earlier than the next one starts, so that the one in force at a date
is the last to start by then, later at later dates; that revisions from the second on start
with their first slot; and that what is recorded comes before the head, by date and by
revision and ordinal. It says of a command that has decided on an edit that, as long as the
revision is the one it read, the date asked for is not before the head (`CommandInOrder`):
a step that moves a head also raises the revision (`HeadFenced`). The steps fall into a few
kinds of writes (`Writes`), and each kind keeps a history in order: an edit in place or one
that closes a revision (`RevisedInOrder`), a fulfillment (`RecordedInOrder`), a resume that
skips. Positions being exactly 1..count, the rows of a source map to a sequence of dates
(`EntriesByPosition`) to which a fulfillment appends one (`EntriesAppended`), a later one
since all rows come before the head; so each kind of write is a step of the ledger or a
stutter (`NextKeepsLedger`).
For the failures, `RecordedInv` says of every behaviour that a resolved one was recorded. So a
slot parked again finds its own failure and no other, and with `OrderInv` a slot that is
parked comes after all recorded ones. `HeadSteps` lists what may move a head: a fulfillment,
which resolves the failure of its slot, an end, or one of the two commits
`PassedOnlyByHeadMoves` names. `ParkedInv`, that an unresolved failure is always the slot at
the head, holds only where those two do not pass it.

A forecast and a count of due slots are sets of ordinals of one rule within a bounded
range. As slots strictly increase and ordinal n is no earlier than day n - 1, the range
never cuts off a slot that counts, so that going from one ordinal to the next takes away
exactly the slot of the first (`UpcomingFromNext`, `DueFromNext`), a finite total being used
up in step. The head is on a slot of its revision whenever one is generated (the code
checks it), and stays in the open revision, which is the last to start
(`NextInOpenRevision`). For `WaitingsComeDue`, `ParkedInv` says that the only unresolved
failure is the one of the head, so that both counts start at the same ordinal.

### The supervisor

`RecurringSupervisorProofs`: `StopsBetweenOccurrences` and `NoStaleAlert`. The invariant
(`SupervisorIInv`) says that an occurrence is entered only before the shutdown and that only
one is in flight (`InFlightAtMost`), that a run that has caught up has resolved the alert
(`CaughtUpIsClean`), and that whoever sleeps for the next head comes from such a run
(`AwaitedIsClean`).

### Currency jobs and imports

`TransactionImportProofs` is about the composition of jobs, previews and imports:
`DefaultIsActiveTarget`, `SucceededTookEffect`, `ImportsOnlyNewRows`, `RunningJobIsDriven`.
A request or drive reads, decides and writes later, so the invariant says for each of the
26 places it may stand at what is still true of what it read (`Faithful`). That holds
because some things are never taken back, whoever runs in between (`NothingTakenBack`): the
type and code of a job, the target of a generation and that it was activated, that a
currency is known, that the setup is over. `RunningJobIsDriven` has an invariant of its own
(`Unsettled`): the process that made a job, or adopted it, still holds it at a place from
which it will be ended.

### Exchange rates

`ExchangeRatesProofs`: `NoUpdateLost`. While a refresh is under way the property must be said
of what it has read so far, against the time it took before its first request, since that is
what the next request asks from (`UpToDate`); and the lock is what keeps the set and the
validators a refresh started from the current ones (`Exclusive`).

### Rates of transactions

`TransactionRatesProofs`: `FollowsLatestRevision`, `ManualRateKeepsItsQuote`,
`RateFitsTransaction`. There are two sets of valuations, the active one and the one a default
change has built; the same is said of both (`Current`), each but for the transactions
written beside it, so that activating hands one over to the other. The code guesses which
currency a manual rate quotes from its age; the theorem says the guess is the default at the
time it was written until the default has changed twice. The invariant ties age and history
together (`Placed`): what was written under the present default is not older than the active
generation, what was written under the last one is, unless it was written beside the active
one, and everything else is older than the generation being built.

### Money

`MoneyProofs`: `QuoteIsNearest`, `RoundedOnce`, `QuoteConvertsAlike`, for every number of
significant digits and every width of the integers, so for 18 digits, 64 and 128 bits
too, where TLC checks a scaled instance. The invariant (`MoneyInv`) is that of long
division (`DigitsKept`): the ratio shifted by the places worked out is the digits times the
denominator plus the remainder, which is smaller than the denominator, and as many
significant digits as are counted are there. The quote is then the digits rounded by the
next one, which is rounding by twice the remainder (`RoundedByRemainder`), and trimming
takes a power of ten that divides it (`ZerosTaken`, `DividesOut`). `round_half_even` gives
the nearest number by the same lemma (`RoundedQuotient`).

`QuoteConvertsAlike` adds up three errors (`QuoteOrRatio`): half a minor unit of either
conversion, and that of the quote. The last is at most half a unit too: an inexact quote
has 18 digits, so its relative error is no more than half of what one minor unit is of an
amount with fewer. Together they are at most one and a half, and what differs by
whole minor units and by less than two differs by one at most. What the prover needs of
`pow10` (`PowersOfTen`, `PowersGrow`, `PowersAdd`) comes from its definition by tables of
its first values.

### Budgets and categories

`BudgetsProofs`: `TwoLevelsOneRole`, `PeriodsAgree`, `EveryStatusIsAnnounced`, `ForecastIsKept`.
A timeline is sound if every result is calculated from the one before (`Chained`), and
configurations have one sound timeline (`SoundIsRebuilt`); so `PeriodsAgree` follows once
every write keeps soundness. A write recalculates a budget from a frontier, and what has to
be shown is that before the frontier, or of a budget passed by, nothing changed that a
period is calculated from (`CreatedIsAlike`, `UpdatedIsAlike`, `RemovedIsAlike`): whether a
transaction matches depends on its category's path only. The results of the latest period
need an invariant of their own (`LatestInv`), which holds of budgets with a changed
measurement mode too: from it the forecast, which starts at the stored result, agrees with
the recalculation (`ForecastIs`, by adding the projected amount to a sum). Announcements are
followed from write to write (`Told`).

Induction over numbers and finite sets is done by least elements: a set of counterexamples
has a smallest member (`LeastNatural`, `LeastElement`, `SmallestSet`, from the
well-foundedness the library proves), which the step excludes.

### Alerts and the writer

`AlertFeedProofs`: `SettledFeedIsCurrent`. A client may show something old only while a change
is on its way to it (`OnItsWay`): held by a caller that got its reply and has not published
yet, pending in its stream, lost with a stream that has to be opened again, or dropped with
its request (`untold`, the exception of the property). Each way a change arrives begins a
refresh, and a refresh that a newer one has superseded is dropped. So the invariant
(`UpToDate`) is said of the newest refresh alone: unless a change is on its way, what it has
read so far is as saved, and without a refresh what is shown is. A change becomes one on its
way when the writer replies, and no second reply overwrites the first, because a caller has
one message at most with the writer and waits for it (`Waits`).

### Only model-checked

- Liveness, which is out of the prover's reach: `DueIsTakenUp`, `EverythingDueIsHandled`,
  `LifecycleCommandsEnd`, `RepairedIsRetried`, `CatchesUp`, `AlertCloses`, `CommandsEnd`.
- `KeepsLedger` and `HeadCoherent` outside the hypotheses above are neither
  checked nor proved: they are violated there. What becomes of `CatchUpAsForecast` and
  `WaitingComesDue` there is open.
- Of `CategoryImport` and `ImportPreview`, `ImportsMeet`, `RowsArriveAsRead` and
  `TwoLevelsOneRole` under imports: rows are inserted by a fold, and what a fold leaves is
  shown by induction over the rows.

## 6. Observations

What was met while modelling: places where the code does something else than the
repository says, or something a reader may not expect. The first has a run that shows it;
the others were seen in a trace of one of the modules (with the exception or the bound
removed that keeps it out of the run above) or by reading.

**`UnblockedImportCommits`.** The preview of an import names new categories `cat-1`, `cat-2`
and so on (`crates/core/src/features/transactions/import_preview.rs:415`); the commit replaces only
identities that are missing (`import_service.rs:206`) and stores the others. The next import with
a new category finds `cat-1` taken and is refused as a conflict
(`crates/db/src/transaction_categories/import.rs:111`), whatever its names. The test
`placeholder_import_ids_are_replaced` (`import_service.rs:713`) looks at transactions only.

*Recurring transactions*

- An edit to "day n of every month" is validated with the date asked for, but the head is
  set to day n of that month (`R/edit.rs:63`), which may be in the past: "Next occurrence cannot
  be before the current head or edit observation" (`C/edit.rs:63`).
- `skip_head_past_observation` (`R/lifecycle.rs:222`) changes revision at most once. With three
  revisions a resume leaves a head whose revision is not in force at it; every later slice,
  of any source, fails with "Occurrence head schedule revision does not match effective
  revision".
- Category deletion and repair number split template segments above the open one; the next
  edit (`R/edit.rs:176`) needs a number that is taken and is refused by the UNIQUE constraint,
  though the source is editable (`R/edit_policy_tests.rs:182`).
- Parking a failure does not move the revision (`R/fulfill_prepare.rs:163`). An edit of the
  schedule decided before the parking commits after it and takes the head from the failed
  slot; a pause decided before it commits after it, and the resume that follows, which asks
  for no failure, skips the slot. Later occurrences are then generated, where a failure works
  "without allowing later occurrences of the same recurring transaction to bypass it"
  (CONTEXT.md:445). `LifecycleRaces` reaches both, and `PassedOnlyByHeadMoves` says that
  nothing else passes a parked slot.
- A stop that found the source paused commits on the source another client resumed since
  (`C/service_lifecycle.rs:141`), without "Active sources catch up through the frozen observation
  first" (line 123), and a due slot is dropped.
- Healing the last position of a finite total with a lagging count is refused by the table's
  CHECK, as the count is raised while the source is still active. That error ends every
  slice: one such source jams the processing of all (`Jammed` in `RecurringLedger`).
- A head that falls due while a run is on waits up to the fallback of a minute, since
  `R/queries.rs` looks for heads strictly after the clock, so the branch for a head already due
  in `C/supervisor_rearm.rs` is never taken.
- The number of due slots a bulk review shows counts a finite total by ordinal, so it is
  short once a pause has skipped slots, which do not use up the count (CONTEXT.md:381).
- Bulk commands refuse to resume or delete a source blocked by a failure; the single commands
  look at the failure only before a catch-up.
- A budget's forecast takes a later period with a pending transaction for complete
  (`C/projection/forecast.rs`).

*Currency jobs*

- A cancellation written after a drive's last check does not stop the activation, and
  `update_job` overwrites whatever it finds: the job ends succeeded although its user was
  told it is cancelled, or cancelled although the default has changed ("Cancel before activate
  leaves the old default", docs/choices.md:197; docs/multi-currency-release-gate.md:169).
- Disabling a currency while it becomes the default leaves a disabled default currency, which
  "cannot be disabled" (CONTEXT.md:143).
- A preview whose process ended keeps its job running, and every other currency job out,
  until the user cancels it.

*Transactions and rates*

- A transaction written while a generation is being built is not in it: after its
  activation it has no valuation, or that of an older revision, until it is written again.
- "Manual replacement without confirmation fails" (docs/multi-currency-release-gate.md:56;
  CONTEXT.md:170) is not what `decide_rate_write` does in two cases
  (`crates/core/src/features/transactions/rate_write.rs:24`): a bare `retryRateLookup` replaces a manual
  rate by what the lookup finds, and a change of the currency to the default replaces it by
  an identity. The first takes a client that still shows the rate as pending, and offers to
  retry (`transaction-detail-screen.tsx:91`), after another has entered one by hand. No property
  claims that a manual rate stays.
- A manual rate's currency is inferred from the age of the revision
  (`crates/db/src/valuations/cache.rs:212`): one kept over two default changes, one written during a
  change, and one imported for the default itself are read in a currency they do not quote,
  and the figure is shown as complete (docs/multi-currency-release-gate.md:58).
- A pending rate is not looked up again when its observation arrives; a corrected
  observation changes no valuation before the next write or generation.
- A manual rate that quotes the default before the present one is converted twice, and
  rounded to minor units each time.
- `from_ratio` takes zeros at the end of a whole part of 18 digits or more for zeros of a
  fraction (`FractionIsShown` in `Money`).

*Imports and categories*

- `update_category` finds deleted categories; an import fails altogether when an edit takes
  a name or a parent it planned for.

*Budgets*

- "Current category identities and hierarchy determine membership for every period"
  (CONTEXT.md:266), but which closed periods a category's change rewrites is decided by the
  budget's present measurement mode.
- An alert for a status that only the end of a period brought is not raised by the reading
  that advances the timeline.
- An active budget whose timeline is ahead of a clock set back fails every write of a
  transaction, whatever budget the transaction is in.

*Alerts*

- A request handler dropped after its commit publishes no event: the lists show the change
  at their next refresh only. A change made before a web client first opens its stream, and
  after its first page, is not shown either.
- A reopened alert keeps its `read_at`, so that it is neither unread nor counted.
- `mergeReconciledAlertPage` keeps rows of the previous page that no longer belong there;
  `loadOlder` may leave a gap when a refresh comes between.
- The failure alert of a refresh is written after the lock is released: an older refresh may
  open it after a newer one has resolved it, until the next tick.

*Process*

- The desktop shell's exit stops the recurring supervisor only
  (`apps/tauri/src/lib.rs:295`): the refresh supervisor and the drives are ended with the
  process, wherever they are, which is the restart the modules have.

## 7. Not modelled

- *Multi-currency activation and migrations*: they run once, in order, before anything else.
- *HTTP server, desktop shell, pages and forms*: adapters without state of their own; the
  handlers that start, cancel or drop work are part of the modules of that work.
- *Release tools and scripts.*
- Of the modelled components: texts, colours, notes, list filters and cursors; restated
  allowances of budgets in a former default currency; the unbound import of the transaction
  repository, which has no caller; the buses of recurring transactions and currency jobs,
  which work like that of alerts; the fan-out of bulk commands, which runs the modelled
  commands one by one.
