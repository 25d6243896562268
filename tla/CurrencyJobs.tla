---------------------------- MODULE CurrencyJobs ----------------------------
(* Currency jobs and the lifecycle of a currency: first use, adding,          *)
(* disabling, changing the default currency, cancelling.                      *)
(*   crates/core/src/features/currency/{service,service_lifecycle,models}.rs  *)
(*   crates/db/src/currency/{jobs,lifecycle,setup}.rs                         *)
(*   crates/db/src/valuations/generation.rs, crates/app/src/lib.rs            *)
(*                                                                            *)
(* A request and a background drive are both sequences of calls on one        *)
(* database: every write goes through the single writer and commits alone,    *)
(* every read sees the last commit, and nothing holds across two calls.  One  *)
(* action is one call (or one read and the decision taken from it).           *)
EXTENDS Naturals, Sequences, FiniteSets

CONSTANTS
    Currencies,       \* the codes of the manifest in play
    EUR,              \* the currency that needs no provider
    Keys,             \* duplicate keys of transactions (date, amount, currency, text)
    CurrencyOf,       \* [Keys -> Currencies]
    Clients,          \* requests of the HTTP server or the desktop shell
    Drives,           \* tasks spawned by spawn_currency_job_drive
    Nil,
    MaxJobs, MaxSets, MaxRows, MaxRevision, MaxCrashes    \* bounds of the exploration

ASSUME CurrencyAssumption ==
    /\ EUR \in Currencies
    /\ CurrencyOf \in [Keys -> Currencies]
    /\ Clients \cap Drives = {}
    /\ Nil \notin Currencies
    /\ {MaxJobs, MaxSets, MaxRows, MaxRevision, MaxCrashes} \subseteq Nat

VARIABLES
    settings,      \* currency_settings: default, setup, revision, disclosure
    currency,      \* enabled_currencies: absent, enabled or disabled
    jobs,          \* currency_jobs in the order of created_at
    generations,   \* valuation_generations and their transaction_valuations
    head,          \* valuation_heads of kind 'actual'
    accepted,      \* provider_heads: number of the accepted rate set, 0 if none
    ledger,        \* live transactions per duplicate key
    proc,          \* where each request or drive stands
    crashes        \* process restarts so far

coreVars == <<settings, currency, jobs, generations, head, accepted, ledger>>
jobVars == <<coreVars, proc, crashes>>

Procs == Clients \cup Drives
JobTypes == {"setup", "add", "change", "preview"}
Statuses == {"running", "succeeded", "failed", "cancelled"}
Idle == [pc |-> "idle", type |-> Nil, code |-> Nil, job |-> 0, generation |-> 0]

-----------------------------------------------------------------------------
(* What the calls read and write.                                             *)

RunningJobs == {j \in DOMAIN jobs : jobs[j].status = "running"}

\* running_job(): the one running row, 0 when there is none.
RunningJob == IF RunningJobs = {} THEN 0 ELSE CHOOSE j \in RunningJobs : TRUE

\* status(): the running job, else the latest.
StatusJob == IF RunningJobs = {} THEN Len(jobs) ELSE RunningJob

\* needs_provider(code): approved codes other than EUR; the others are refused
\* by require_supported, so every other code here is approved.
NeedsProvider(c) == c # EUR

\* prove_coverage(code): an accepted set covers every approved currency.
Covered(c) == NeedsProvider(c) => accepted > 0

\* The row insert_job writes (CurrencyJob::running).
NewJob(type, c) ==
    [type |-> type, code |-> c, status |-> "running", generation |-> 0]

\* The unique index currency_jobs_one_running refuses a second running row.
InsertRow(type, c) ==
    /\ RunningJobs = {}
    /\ jobs' = Append(jobs, NewJob(type, c))

\* update_job writes the status it was given over the row's own; only the unique
\* index stands in the way.
UpdateRefused(j, status) == status = "running" /\ RunningJobs \ {j} # {}

UpdateRow(j, status) == jobs' = [jobs EXCEPT ![j].status = status]

\* job_cancelled(): a fresh read of the row.
Cancelled(j) == jobs[j].status = "cancelled"

\* enable_currency_on: insert, or clear disabled_at.
Enable(c) == currency' = [currency EXCEPT ![c] = "enabled"]

\* build_actual_generation: every transaction is valued as it stands now.
Built(c, status) ==
    [target |-> c, prior |-> generations[head].target, status |-> status,
     revision |-> generations[head].revision + 1, valued |-> ledger]

\* Mutant: the old head is not superseded.
ActivatedBesideOld(gens, g) == [gens EXCEPT ![g].status = "active"]

\* activate_generation: the old head is superseded, g becomes active, the head
\* moves, and the settings follow, in one transaction.
Activated(gens, g) ==
    [i \in DOMAIN gens |->
        IF i = g THEN [gens[i] EXCEPT !.status = "active"]
        ELSE IF i = head THEN [gens[i] EXCEPT !.status = "superseded"]
        ELSE gens[i]]

ActivateGeneration(gens, g, c) ==
    /\ generations' = Activated(gens, g)
    /\ head' = g
    /\ settings' = [settings EXCEPT !.default = c, !.revision = @ + 1]

-----------------------------------------------------------------------------
\* A database just created, or one on which first use chose EUR before.
Init ==
    /\ settings \in [default : {EUR}, setup : BOOLEAN, revision : {1}, disclosure : {FALSE}]
    /\ currency = [c \in Currencies |-> IF c = EUR THEN "enabled" ELSE "absent"]
    /\ jobs = <<>>
    /\ generations = <<[target |-> EUR, prior |-> Nil, status |-> "active",
                        revision |-> 1, valued |-> [k \in Keys |-> 0]]>>
    /\ head = 1
    /\ accepted = 0
    /\ ledger = [k \in Keys |-> 0]
    /\ proc = [p \in Procs |-> Idle]
    /\ crashes = 0

At(p, pc) == proc[p].pc = pc

\* Bound: the requests under way may each insert one of MaxJobs rows.
RoomForJob == Len(jobs) + Cardinality({u \in Clients : proc[u].pc \in {"insert", "disclose"}}) < MaxJobs

Goto(p, pc) == proc' = [proc EXCEPT ![p].pc = pc]
Become(p, r) == proc' = [proc EXCEPT ![p] = r]
Finish(p) == Become(p, Idle)

-----------------------------------------------------------------------------
(* Requests.                                                                  *)

\* start_initial_setup: a running setup of the same code is adopted, any other
\* running job is a conflict, and without one a setup job is inserted.
StartInitialSetup(u, c) ==
    LET run == RunningJob IN
    /\ At(u, "idle")
    /\ run = 0 => RoomForJob
    /\ run # 0 => jobs[run].type = "setup" /\ jobs[run].code = c
    /\ Become(u, [Idle EXCEPT
          !.pc = IF run = 0 THEN "insert" ELSE IF settings.setup THEN "mark" ELSE "setup",
          !.type = "setup", !.code = c, !.job = run])
    /\ UNCHANGED <<coreVars, crashes>>

\* start_currency_addition up to its first write: setup, the disclosure, and a
\* running addition of the same code, which is driven again.
StartCurrencyAddition(u, c, confirm) ==
    LET run == RunningJob IN
    /\ At(u, "idle")
    /\ settings.setup
    /\ run = 0 => RoomForJob
    /\ NeedsProvider(c) => settings.disclosure \/ confirm
    /\ run # 0 => jobs[run].type = "add" /\ jobs[run].code = c
    /\ Become(u, [Idle EXCEPT
          !.pc = IF run # 0 THEN "spawn"
                 ELSE IF confirm /\ NeedsProvider(c) THEN "disclose" ELSE "insert",
          !.type = "add", !.code = c])
    /\ UNCHANGED <<coreVars, crashes>>

\* accept_provider_disclosure: the first acceptance stays.
AcceptProviderDisclosure(u) ==
    /\ At(u, "disclose")
    /\ settings' = [settings EXCEPT !.disclosure = TRUE]
    /\ Goto(u, "insert")
    /\ UNCHANGED <<currency, jobs, generations, head, accepted, ledger, crashes>>

\* start_default_currency_change: a change to the present default answers with
\* a finished job that is never stored; otherwise the code must be enabled now.
StartDefaultCurrencyChange(u, c) ==
    LET run == RunningJob IN
    /\ At(u, "idle")
    /\ settings.revision < MaxRevision
    /\ settings.setup
    /\ c # settings.default =>
          /\ run = 0 => RoomForJob
          /\ currency[c] = "enabled"
          /\ run # 0 => jobs[run].type = "change" /\ jobs[run].code = c
    /\ Become(u, [Idle EXCEPT
          !.pc = IF c = settings.default \/ run # 0 THEN "spawn" ELSE "insert",
          !.type = "change", !.code = c])
    /\ UNCHANGED <<coreVars, crashes>>

\* insert_job; the unique index turns a lost race into currencyJobConflict.
InsertJob(u) ==
    /\ At(u, "insert")
    /\ \/ /\ InsertRow(proc[u].type, proc[u].code)
          /\ proc' = [proc EXCEPT ![u].job = Len(jobs) + 1,
                ![u].pc = CASE proc[u].type = "setup" -> "setup"
                            [] proc[u].type = "preview" -> "store"
                            [] OTHER -> "spawn"]
       \/ /\ RunningJobs # {}
          /\ UNCHANGED jobs
          /\ Finish(u)
    /\ UNCHANGED <<settings, currency, generations, head, accepted, ledger, crashes>>

\* The handler spawns a drive and answers.
SpawnDrive(u, d) ==
    /\ At(u, "spawn")
    /\ At(d, "idle")
    /\ proc' = [proc EXCEPT ![u] = Idle, ![d] = [Idle EXCEPT !.pc = "status"]]
    /\ UNCHANGED <<coreVars, crashes>>

\* disable_currency reads the default and the row ...
DisableCurrency(u, c) ==
    /\ At(u, "idle")
    /\ settings.setup
    /\ settings.default # c
    /\ currency[c] = "enabled"
    /\ Become(u, [Idle EXCEPT !.pc = "disable", !.code = c])
    /\ UNCHANGED <<coreVars, crashes>>

\* ... and then writes disabled_at, on a row that is still enabled.
WriteDisabled(u) ==
    LET c == proc[u].code IN
    /\ At(u, "disable")
    /\ currency' = IF currency[c] = "enabled"
                   THEN [currency EXCEPT ![c] = "disabled"] ELSE currency
    /\ Finish(u)
    /\ UNCHANGED <<settings, jobs, generations, head, accepted, ledger, crashes>>

\* cancel_currency_job reads the job; a job that is over is returned as it is.
CancelCurrencyJob(u, j) ==
    /\ At(u, "idle")
    /\ jobs[j].status = "running"
    /\ Become(u, [Idle EXCEPT !.pc = "cancel", !.job = j])
    /\ UNCHANGED <<coreVars, crashes>>

\* finish_cancelled, written without looking again.
WriteCancelled(u) ==
    /\ At(u, "cancel")
    /\ UpdateRow(proc[u].job, "cancelled")
    /\ Finish(u)
    /\ UNCHANGED <<settings, currency, generations, head, accepted, ledger, crashes>>

-----------------------------------------------------------------------------
(* The drive.                                                                 *)

\* spawn_currency_job_drive: the type of the running or latest job decides.
\* The preview branch drives a preview only; see TransactionImport.
ReadStatus(d) ==
    LET j == StatusJob IN
    /\ At(d, "status")
    /\ Goto(d, IF j # 0 /\ jobs[j].type = "preview" THEN "previewRefresh"
               ELSE IF j # 0 /\ jobs[j].type = "add" /\ NeedsProvider(jobs[j].code)
               THEN "refresh" ELSE "drive")
    /\ UNCHANGED <<coreVars, crashes>>

\* refresh_reporting_progress: a new set is accepted or the old one stays.
RefreshRates(d) ==
    /\ proc[d].pc \in {"refresh", "previewRefresh"}
    /\ accepted' \in {accepted} \cup (IF accepted < MaxSets THEN {accepted + 1} ELSE {})
    /\ Goto(d, IF At(d, "refresh") THEN "drive" ELSE "previewDrive")
    /\ UNCHANGED <<settings, currency, jobs, generations, head, ledger, crashes>>

\* drive_running_job: the running job, whichever it is by now.  A preview is
\* "not driven here".
DriveRunningJob(d) ==
    LET j == RunningJob IN
    /\ At(d, "drive")
    /\ IF j = 0 \/ (j # 0 /\ jobs[j].type = "preview") THEN Finish(d)
       ELSE Become(d, [pc |-> IF jobs[j].type = "setup" THEN "setup" ELSE "stage",
                       type |-> jobs[j].type, code |-> jobs[j].code, job |-> j,
                       generation |-> jobs[j].generation])
    /\ UNCHANGED <<coreVars, crashes>>

\* stage_current = 1: the row becomes running again whatever it was.
WriteStage(d) ==
    LET j == proc[d].job IN
    /\ At(d, "stage")
    /\ \/ /\ ~UpdateRefused(j, "running")
          /\ UpdateRow(j, "running")
          /\ Goto(d, "check")
       \/ /\ UpdateRefused(j, "running")
          /\ UNCHANGED jobs
          /\ Finish(d)
    /\ UNCHANGED <<settings, currency, generations, head, accepted, ledger, crashes>>

\* job_cancelled between the stages of drive_add and drive_change_default.
CheckCancelled(d) ==
    /\ proc[d].pc \in {"check", "recheck"}
    /\ IF Cancelled(proc[d].job) THEN Finish(d)
       ELSE Goto(d, IF At(d, "check")
                    THEN CASE proc[d].type = "add" -> "prove"
                           [] proc[d].generation # 0 -> "recheck"
                           [] OTHER -> "build"
                    ELSE IF proc[d].type = "add" THEN "enable" ELSE "activate")
    /\ UNCHANGED <<coreVars, crashes>>

\* prove_coverage of the currency to add.
ProveCoverage(d) ==
    /\ At(d, "prove")
    /\ Goto(d, IF Covered(proc[d].code) THEN "recheck" ELSE "fail")
    /\ UNCHANGED <<coreVars, crashes>>

\* enable_currency.
EnableCurrency(d) ==
    /\ At(d, "enable")
    /\ Enable(proc[d].code)
    /\ Goto(d, "mark")
    /\ UNCHANGED <<settings, jobs, generations, head, accepted, ledger, crashes>>

\* begin_default_generation: an inactive generation is built and left ready.
BeginDefaultGeneration(d) ==
    /\ At(d, "build")
    /\ generations' = Append(generations, Built(proc[d].code, "ready"))
    /\ proc' = [proc EXCEPT ![d].pc = "attach", ![d].generation = Len(generations) + 1]
    /\ UNCHANGED <<settings, currency, jobs, head, accepted, ledger, crashes>>

\* attach_generation: a later drive of the same job finds it.
AttachGeneration(d) ==
    /\ At(d, "attach")
    /\ jobs' = [jobs EXCEPT ![proc[d].job].generation = proc[d].generation]
    /\ Goto(d, "recheck")
    /\ UNCHANGED <<settings, currency, generations, head, accepted, ledger, crashes>>

\* activate_default_generation: one transaction, nothing asked again.
ActivateDefaultGeneration(d) ==
    /\ At(d, "activate")
    /\ ActivateGeneration(generations, proc[d].generation, proc[d].code)
    /\ Goto(d, "mark")
    /\ UNCHANGED <<currency, jobs, accepted, ledger, crashes>>

\* complete_initial_setup, for a request or a drive: idempotent for the same
\* default, refused for another, otherwise one transaction.
CompleteInitialSetup(p) ==
    LET c == proc[p].code IN
    /\ At(p, "setup")
    /\ \/ /\ settings.setup
          /\ Goto(p, IF settings.default = c THEN "mark" ELSE "fail")
          /\ UNCHANGED <<settings, currency, generations, head>>
       \/ /\ ~settings.setup
          /\ Enable(c)
          /\ IF generations[head].target # c
             THEN LET built == Append(generations, Built(c, "ready")) IN
                  /\ generations' = Activated(built, Len(built))
                  /\ head' = Len(built)
                  /\ settings' = [settings EXCEPT !.default = c, !.setup = TRUE,
                                                  !.revision = @ + 1]
             ELSE /\ settings' = [settings EXCEPT !.default = c, !.setup = TRUE]
                  /\ UNCHANGED <<generations, head>>
          /\ Goto(p, "mark")
    /\ UNCHANGED <<jobs, accepted, ledger, crashes>>

\* Mutant: a failed drive reports success.
FinishJobSucceeded(p) ==
    /\ proc[p].pc \in {"mark", "fail"}
    /\ UpdateRow(proc[p].job, "succeeded")
    /\ Finish(p)
    /\ UNCHANGED <<settings, currency, generations, head, accepted, ledger, crashes>>

\* mark_job_succeeded and fail_job: unconditional updates by identity.
FinishJob(p) ==
    /\ proc[p].pc \in {"mark", "fail"}
    /\ UpdateRow(proc[p].job, IF At(p, "mark") THEN "succeeded" ELSE "failed")
    /\ Finish(p)
    /\ UNCHANGED <<settings, currency, generations, head, accepted, ledger, crashes>>

-----------------------------------------------------------------------------
(* The rest of the program, as far as the jobs notice it.                     *)

\* create_transaction: the currency must be enabled, and the row is valued in
\* the generation that is active at the write.
RecordTransaction(k) ==
    /\ settings.setup
    /\ currency[CurrencyOf[k]] = "enabled"
    /\ ledger[k] < MaxRows
    /\ ledger' = [ledger EXCEPT ![k] = @ + 1]
    /\ generations' = [generations EXCEPT ![head].valued[k] = @ + 1]
    /\ UNCHANGED <<settings, currency, jobs, head, accepted, proc, crashes>>

\* has_ecb_retained_data: the supervisor refreshes only for data it retains.
HasRetainedData == accepted > 0 \/ \E c \in Currencies : NeedsProvider(c) /\ currency[c] # "absent"

SupervisorRefresh ==
    /\ HasRetainedData
    /\ accepted < MaxSets
    /\ accepted' = accepted + 1
    /\ UNCHANGED <<settings, currency, jobs, generations, head, ledger, proc, crashes>>

\* Mutant: a job that is still running is left alone.
AdoptedNever(d) == [p \in Procs |-> Idle]

\* The process ends and starts again; adopt_leftover_currency_jobs spawns a
\* drive when a job is still running.
Adopted(d) == [p \in Procs |-> IF p = d /\ RunningJobs # {}
                               THEN [Idle EXCEPT !.pc = "status"] ELSE Idle]

Restart(d) ==
    /\ crashes < MaxCrashes
    /\ crashes' = crashes + 1
    /\ proc' = Adopted(d)
    /\ UNCHANGED coreVars

-----------------------------------------------------------------------------
Request(u) ==
    \/ \E c \in Currencies :
          \/ StartInitialSetup(u, c)
          \/ StartDefaultCurrencyChange(u, c)
          \/ DisableCurrency(u, c)
          \/ \E confirm \in BOOLEAN : StartCurrencyAddition(u, c, confirm)
    \/ \E j \in DOMAIN jobs : CancelCurrencyJob(u, j)

Respond(u) ==
    \/ AcceptProviderDisclosure(u)
    \/ InsertJob(u)
    \/ \E d \in Drives : SpawnDrive(u, d)
    \/ WriteDisabled(u)
    \/ WriteCancelled(u)
    \/ CompleteInitialSetup(u)
    \/ FinishJob(u)

Drive(d) ==
    \/ ReadStatus(d)
    \/ RefreshRates(d)
    \/ DriveRunningJob(d)
    \/ WriteStage(d)
    \/ CheckCancelled(d)
    \/ ProveCoverage(d)
    \/ EnableCurrency(d)
    \/ BeginDefaultGeneration(d)
    \/ AttachGeneration(d)
    \/ ActivateDefaultGeneration(d)
    \/ CompleteInitialSetup(d)
    \/ FinishJob(d)

CurrencyNext ==
    \/ \E u \in Clients : Request(u) \/ Respond(u)
    \/ \E d \in Drives : Drive(d) \/ Restart(d)
    \/ \E k \in Keys : RecordTransaction(k)
    \/ SupervisorRefresh

\* Threads and tasks run on: each pending request and each drive takes its
\* next step sooner or later.  Nobody has to ask for anything.
Fairness ==
    /\ \A u \in Clients : WF_jobVars(Respond(u))
    /\ \A d \in Drives : WF_jobVars(Drive(d))

CurrencySpec == Init /\ [][CurrencyNext]_jobVars /\ Fairness

-----------------------------------------------------------------------------
(* Properties.                                                                *)

\* Types of the rows and of what a process remembers.
CurrencyTypeOK ==
    /\ settings \in [default : Currencies, setup : BOOLEAN, revision : Nat, disclosure : BOOLEAN]
    /\ currency \in [Currencies -> {"absent", "enabled", "disabled"}]
    /\ jobs \in Seq([type : JobTypes, code : Currencies \cup {Nil}, status : Statuses,
                     generation : 0 .. Len(generations)])
    /\ generations \in Seq([target : Currencies, prior : Currencies \cup {Nil}, revision : Nat,
                            status : {"ready", "active", "superseded"}, valued : [Keys -> Nat]])
    /\ head \in DOMAIN generations
    /\ accepted \in Nat /\ crashes \in Nat /\ ledger \in [Keys -> Nat]
    /\ \A p \in Procs : proc[p].job \in 0 .. Len(jobs) /\ proc[p].generation \in 0 .. Len(generations)

\* The default currency, the head and the one active generation always name the
\* same currency: activate_generation and complete_initial_setup move all of
\* them in one transaction, whatever drives, setups and restarts interleave.
DefaultIsActiveTarget ==
    /\ settings.default = generations[head].target
    /\ \A g \in DOMAIN generations : generations[g].status = "active" <=> g = head

\* A job that reports success has had its effect: the added currency is known,
\* first use is over, the generation of a default change was once the head.
\* Drives of one job may overlap and a job may be revived and driven twice.
SucceededTookEffect ==
    \A j \in DOMAIN jobs : jobs[j].status = "succeeded" =>
        /\ jobs[j].type = "add" => currency[jobs[j].code] # "absent"
        /\ jobs[j].type = "setup" => settings.setup
        /\ jobs[j].type = "change" =>
              \E g \in DOMAIN generations :
                  generations[g].target = jobs[j].code /\ generations[g].status # "ready"

\* Someone who can still drive job j: a task not yet committed to a job, or a
\* process between reading the job and writing its end.
Driver(j, p) ==
    \/ proc[p].pc \in {"spawn", "status"}
    \/ proc[p].pc \in {"refresh", "drive"} /\ jobs[j].type # "preview"
    \/ proc[p].pc \in {"store", "previewRefresh", "previewDrive"} /\ jobs[j].type = "preview"
    \/ proc[p].pc \notin {"idle", "insert", "disclose", "disable", "cancel", "commit"} /\ proc[p].job = j

=============================================================================
