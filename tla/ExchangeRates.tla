----------------------------- MODULE ExchangeRates -----------------------------
(* The provider cache: refreshes download observations from the provider, one *)
(* refresh at a time, and replace the accepted set as a whole; a failure      *)
(* alert follows what the last refreshes told.                                *)
(*   crates/core/src/features/exchange_rates/{service,payload,request}.rs     *)
(*   crates/db/src/exchange_rates/repository.rs                               *)
(*   crates/app/src/{currency_refresh,ecb}.rs                                 *)
(*                                                                            *)
(* An observation is its currency, its date and a version: how many times the *)
(* provider has written it.  The decimals themselves are left out.            *)
EXTENDS Naturals, FiniteSets

CONSTANTS
    Obs,          \* the observations the provider may publish
    CurrencyOf,   \* [Obs -> approved currencies]
    YearOf,       \* [Obs -> Years]
    Years,        \* 1..n, the years of the provider's history
    Supervisor,   \* the refresh supervisor's task
    Drives,       \* drives of currency jobs
    Requests,     \* the users' requests to refresh now (retry_exchange_rate_refresh)
    Nil,
    MaxTime,      \* bound on the clock
    MaxVersion,   \* bound on the versions of an observation
    MaxFaults     \* bound on outages of the provider, failed publishes and restarts

ASSUME RatesAssumption ==
    /\ CurrencyOf \in [Obs -> {CurrencyOf[o] : o \in Obs}]
    /\ IsFiniteSet(Years) /\ Years = 1..Cardinality(Years) /\ YearOf \in [Obs -> Years]
    /\ Supervisor \notin Drives \cup Requests /\ Drives \cap Requests = {}
    /\ Nil \notin Obs \cup Drives \cup Requests \cup {Supervisor}
    /\ {MaxTime, MaxVersion, MaxFaults} \subseteq Nat /\ MaxVersion > 0

VARIABLES
    provider,   \* what the provider holds, with the second it last changed
    up,         \* the provider can be reached
    clock,      \* seconds
    accepted,   \* provider_heads: [Obs -> version], 0 absent; NoSet before the first set
    state,      \* provider_refresh_state
    added,      \* enabled_currencies, approved codes only: absent, enabled, disabled
    alert,      \* the refresh-failure alert is open
    lock,       \* inflight
    task,       \* each refresher's progress through its refresh
    faults      \* outages, failed publishes and restarts so far

vars == <<provider, up, clock, accepted, state, added, alert, lock, task, faults>>

Approved == {CurrencyOf[o] : o \in Obs}
Refreshers == Drives \cup Requests \cup {Supervisor}

NoSet == <<>>

Asleep == [pc |-> "idle", now |-> 0, previous |-> NoSet, after |-> 0, year |-> 0,
           parsed |-> <<>>, outcome |-> Nil]

At(r, pc) == task[r].pc = pc
\* The refresher goes on with nothing of what it has read.
Goto(r, pc) == task' = [task EXCEPT ![r] = [Asleep EXCEPT !.pc = pc]]

-----------------------------------------------------------------------------
(* Requests and answers.                                                      *)

\* An observation as the provider would answer now; a withdrawn one is a row
\* without a value.
Answer(o) == [version |-> provider[o].version, deleted |-> ~provider[o].live]

\* build_initial_requests: one request per year, without a validator, which sees
\* only what the provider holds.
YearPayload(y) == {o \in Obs : YearOf[o] = y /\ provider[o].live}

\* build_refresh_request: what changed at or after updatedAfter.  Nothing is
\* answered as 304 or 404, which classify_response takes for "not modified".
DeltaPayload(after) == {o \in Obs : provider[o].version > 0 /\ provider[o].stamp >= after}

\* Mutant: rows without a value are skipped.
MergedKeepingWithdrawn(previous, parsed) ==
    [o \in Obs |->
        IF o \in DOMAIN parsed /\ ~parsed[o].deleted THEN parsed[o].version
        ELSE IF previous = NoSet THEN 0 ELSE previous[o]]

\* validate_complete_set: the parsed rows over the previous set.
Merged(previous, parsed) ==
    [o \in Obs |->
        CASE o \notin DOMAIN parsed -> IF previous = NoSet THEN 0 ELSE previous[o]
          [] OTHER -> IF parsed[o].deleted THEN 0 ELSE parsed[o].version]

\* ... which must hold an observation of every approved currency.
CompleteSet(rates) == \A c \in Approved : \E o \in Obs : CurrencyOf[o] = c /\ rates[o] > 0

-----------------------------------------------------------------------------
(* provider_refresh_state and what the settings say of it.                    *)

\* retry_count is only compared with 1, so it stops at 2.
Failing(s) == [s EXCEPT !.failing = TRUE, !.retries = IF @ < 2 THEN @ + 1 ELSE 2]
Succeeding(s) == [s EXCEPT !.failing = FALSE, !.retries = 0]

StatusFailed == state.failing /\ state.retries > 1

\* apply_refresh_outcome: the enabled currencies other than EUR.
Affected == {c \in Approved : added[c] = "enabled" /\ StatusFailed}

\* has_ecb_retained_data: a set was accepted, or an approved currency was added.
Retained == accepted # NoSet \/ \E c \in Approved : added[c] # "absent"

-----------------------------------------------------------------------------
Init ==
    /\ provider = [o \in Obs |-> [version |-> 1, live |-> TRUE, stamp |-> 0]]
    /\ up = TRUE
    /\ clock = 1
    /\ accepted = NoSet
    /\ state = [failing |-> FALSE, retries |-> 0, after |-> 0]
    /\ added = [c \in Approved |-> "absent"]
    /\ alert = FALSE
    /\ lock = Nil
    /\ task = [r \in Refreshers |-> Asleep]
    /\ faults = 0

(* The provider.                                                              *)

\* An observation is published, corrected or withdrawn.
ProviderWrites(o, live) ==
    /\ provider[o].version < MaxVersion
    /\ live \/ provider[o].live
    /\ provider' = [provider EXCEPT ![o] = [version |-> @.version + 1, live |-> live, stamp |-> clock]]
    /\ UNCHANGED <<up, clock, accepted, state, added, alert, lock, task, faults>>

Outage ==
    /\ up /\ faults < MaxFaults
    /\ up' = FALSE /\ faults' = faults + 1
    /\ UNCHANGED <<provider, clock, accepted, state, added, alert, lock, task>>

Recovery ==
    /\ ~up /\ up' = TRUE
    /\ UNCHANGED <<provider, clock, accepted, state, added, alert, lock, task, faults>>

Second ==
    /\ clock < MaxTime /\ clock' = clock + 1
    /\ UNCHANGED <<provider, up, accepted, state, added, alert, lock, task, faults>>

\* Currencies are added and disabled by their jobs (CurrencyJobs).
SetCurrency(c) ==
    /\ added' = [added EXCEPT ![c] = IF @ = "enabled" THEN "disabled" ELSE "enabled"]
    /\ UNCHANGED <<provider, up, clock, accepted, state, alert, lock, task, faults>>

(* A refresh.                                                                 *)

LockFree == lock = Nil

\* tick (the timer, a wake or the start) has nothing to do without retained data; drives and
\* requests refresh unconditionally. Who waits for the lock might as well come when he gets
\* it: nothing is read before, but Retained, and that lasts.
Asks(r) == At(r, "idle") /\ (r = Supervisor => Retained)

\* refresh_with_progress: under the lock, the time is read, then the previous
\* set and the validators.
Begin(r) ==
    /\ Asks(r) /\ LockFree
    /\ lock' = r
    /\ task' = [task EXCEPT ![r] = [Asleep EXCEPT !.pc = "fetch", !.now = clock, !.previous = accepted,
                                    !.after = state.after, !.year = 1]]
    /\ UNCHANGED <<provider, up, clock, accepted, state, added, alert, faults>>

\* fetch_one and the loop around it.
Fetch(r) ==
    LET initial == task[r].previous = NoSet
        payload == IF initial THEN YearPayload(task[r].year) ELSE DeltaPayload(task[r].after)
        last == ~initial \/ task[r].year = Cardinality(Years)
    IN
    /\ At(r, "fetch")
    /\ \/ /\ up /\ (initial \/ payload # {})
          /\ task' = [task EXCEPT
                ![r].parsed = [o \in DOMAIN @ \cup payload |-> IF o \in payload THEN Answer(o) ELSE @[o]],
                ![r].year = IF last THEN @ ELSE @ + 1,
                ![r].pc = IF last THEN "validate" ELSE "fetch"]
       \/ up /\ ~initial /\ payload = {} /\ Goto(r, "notModified")
       \/ ~up /\ Goto(r, "fail")
    /\ UNCHANGED <<provider, up, clock, accepted, state, added, alert, lock, faults>>

\* Mutant: the next updatedAfter is the time the answer was stored.
MarkAtTheEnd(r) == clock
\* The next updatedAfter: the time read before the first request.
UpdatedAfter(r) == task[r].now

Release(r, outcome) ==
    /\ lock' = IF lock = r THEN Nil ELSE lock
    /\ task' = [task EXCEPT ![r] = IF r \in Drives THEN Asleep
                                   ELSE [Asleep EXCEPT !.pc = "apply", !.outcome = outcome]]

\* publish_set, or a set with the digest of the previous one, or an incomplete one.
Validate(r) ==
    LET rates == Merged(task[r].previous, task[r].parsed) IN
    /\ At(r, "validate")
    /\ IF ~CompleteSet(rates)
       THEN Goto(r, "fail") /\ UNCHANGED <<accepted, state, lock>>
       ELSE IF task[r].previous # NoSet /\ rates = task[r].previous
       THEN Goto(r, "notModified") /\ UNCHANGED <<accepted, state, lock>>
       ELSE /\ accepted' = rates
            /\ state' = [Succeeding(state) EXCEPT !.after = UpdatedAfter(r)]
            /\ Release(r, "published")
    /\ UNCHANGED <<provider, up, clock, added, alert, faults>>

\* The write of the new set fails: the transaction is rolled back and the
\* failure is recorded.
PublishFails(r) ==
    /\ At(r, "validate") /\ faults < MaxFaults
    /\ faults' = faults + 1
    /\ Goto(r, "fail")
    /\ UNCHANGED <<provider, up, clock, accepted, state, added, alert, lock>>

\* record_not_modified: the validators stay.
RecordNotModified(r) ==
    /\ At(r, "notModified")
    /\ state' = Succeeding(state)
    /\ Release(r, "notModified")
    /\ UNCHANGED <<provider, up, clock, accepted, added, alert, faults>>

\* record_failure.
RecordFailure(r) ==
    /\ At(r, "fail")
    /\ state' = Failing(state)
    /\ Release(r, "failed")
    /\ UNCHANGED <<provider, up, clock, accepted, added, alert, faults>>

(* run_provider_refresh: the supervisor and the requests apply the outcome to *)
(* the alert, outside the lock, so that one may apply while another refreshes *)
(* or applies; a drive only refreshes.                                        *)

\* Mutant: only a published set resolves the alert.
ResolvesIfPublished(outcome) == outcome = "published"
Resolves(outcome) == outcome \in {"published", "notModified"}

Apply(r) ==
    /\ At(r, "apply")
    /\ IF Resolves(task[r].outcome) THEN alert' = FALSE /\ Goto(r, "idle")
       ELSE Goto(r, IF Affected = {} THEN "idle" ELSE "open") /\ UNCHANGED alert
    /\ UNCHANGED <<provider, up, clock, accepted, state, added, lock, faults>>

\* ensure_open, on what the settings said.
EnsureOpen(r) ==
    /\ At(r, "open")
    /\ alert' = TRUE
    /\ Goto(r, "idle")
    /\ UNCHANGED <<provider, up, clock, accepted, state, added, lock, faults>>

\* The alert's row could not be written; run_provider_refresh drops the error, and the next
\* refresh tries again.
AlertWriteFails(r) ==
    /\ \/ At(r, "open")
       \/ At(r, "apply") /\ Resolves(task[r].outcome)
    /\ Goto(r, "idle")
    /\ UNCHANGED <<provider, up, clock, accepted, state, added, alert, lock, faults>>

\* The process ends and starts again: refreshes are lost, the lock with them.
Restart ==
    /\ faults < MaxFaults /\ faults' = faults + 1
    /\ lock' = Nil
    /\ task' = [r \in Refreshers |-> Asleep]
    /\ UNCHANGED <<provider, up, clock, accepted, state, added, alert>>

Proceed(r) ==
    \/ Fetch(r) \/ Validate(r)
    \/ RecordNotModified(r) \/ RecordFailure(r) \/ Apply(r) \/ EnsureOpen(r)

Next ==
    \/ \E o \in Obs, live \in BOOLEAN : ProviderWrites(o, live)
    \/ Outage \/ Recovery \/ Second
    \/ \E c \in Approved : SetCurrency(c)
    \/ \E r \in Refreshers : Begin(r) \/ Proceed(r) \/ PublishFails(r) \/ AlertWriteFails(r)
    \/ Restart

\* The runtime runs every task, and the lock is handed out in order of arrival;
\* the supervisor's interval keeps ticking, so that a write of the alert that failed is tried
\* again, and not all of them fail. Nobody else has to ask.
Fairness ==
    /\ SF_vars(Begin(Supervisor)) /\ SF_vars(Apply(Supervisor))
    /\ \A r \in Refreshers : WF_vars(Proceed(r))

Spec == Init /\ [][Next]_vars /\ Fairness

-----------------------------------------------------------------------------
(* Properties.                                                                *)

\* Types; only the holder of the lock is inside a refresh.
Versions == 0..MaxVersion
RateSets == {NoSet} \cup [Obs -> Versions]
Answers == UNION {[asked -> [version : Versions, deleted : BOOLEAN]] : asked \in SUBSET Obs}
Inside == {"fetch", "validate", "notModified", "fail"}
Task == [pc : {"idle", "apply", "open"} \cup Inside, now : Nat, previous : RateSets,
         after : Nat, year : Nat, parsed : Answers,
         outcome : {Nil, "published", "notModified", "failed"}]

RatesTypeOK ==
    /\ provider \in [Obs -> [version : Versions, live : BOOLEAN, stamp : Nat]]
    /\ accepted \in RateSets
    /\ state \in [failing : BOOLEAN, retries : 0..2, after : Nat]
    /\ clock \in Nat /\ faults \in Nat /\ up \in BOOLEAN /\ alert \in BOOLEAN
    /\ added \in [Approved -> {"absent", "enabled", "disabled"}]
    /\ lock \in Refreshers \cup {Nil}
    /\ task \in [Refreshers -> Task]
    /\ \A r \in Refreshers : task[r].pc \in Inside => lock = r

\* No update of the provider is ever lost: what the accepted set does not hold as
\* the provider has it will be in the answer to the next request, although the
\* provider writes while a refresh downloads, publishes or fails.
NoUpdateLost ==
    accepted # NoSet =>
        \A o \in Obs :
            \/ accepted[o] = IF provider[o].live THEN provider[o].version ELSE 0
            \/ provider[o].stamp >= state.after

HoldsProvider == \A o \in Obs : accepted[o] = IF provider[o].live THEN provider[o].version ELSE 0

Healthy == up /\ CompleteSet([o \in Obs |-> IF provider[o].live THEN provider[o].version ELSE 0])

\* While the provider stays reachable and complete, the accepted set comes to hold
\* what the provider holds, after any outage, failed write or restart.
CatchesUp == <>[](Healthy /\ Retained) => <>[](accepted # NoSet /\ HoldsProvider)

\* The alert ends up closed once the provider has recovered for good, whichever refresh
\* succeeded and whoever applied last: a drive's may be the one that publishes, after which
\* the supervisor's own only finds nothing new; a request that failed before may open the
\* alert after the supervisor resolved it; and a write of the alert may be lost.
AlertCloses == <>[](Healthy /\ Retained) => <>[]~alert

=============================================================================
