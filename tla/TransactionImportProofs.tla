------------------------ MODULE TransactionImportProofs ------------------------
(* The safety of currency jobs and imports, for every set of currencies,       *)
(* transactions, files, requests and drives, and every bound of the            *)
(* exploration.                                                                *)
(*                                                                             *)
(* A call reads, decides, and writes later; what it has decided is kept in     *)
(* proc.  The invariant therefore says, for every place a request or a drive   *)
(* can stand at, what is still true of the job and the generation it read      *)
(* (Faithful), and the proof rests on three things no step ever takes back     *)
(* (NothingTakenBack): the type and code of a job, the target of a generation, *)
(* and the effects a job can have.                                             *)
EXTENDS TransactionImport, TLAPS

-----------------------------------------------------------------------------
(* The invariant.                                                              *)

Places == {"idle", "insert", "disclose", "setup", "mark", "fail", "spawn", "store", "disable",
           "cancel", "commit", "status", "refresh", "drive", "stage", "check", "recheck",
           "prove", "enable", "build", "attach", "activate", "previewRefresh", "previewDrive",
           "previewStage", "previewProve", "previewFail"}

JobRow == [type : JobTypes, code : Currencies \cup {Nil}, status : Statuses, generation : Nat]

GenerationRow == [target : Currencies, prior : Currencies \cup {Nil}, revision : Nat,
                  status : {"ready", "active", "superseded"}, valued : [Keys -> Nat]]

ProcState == [pc : Places, type : JobTypes \cup {Nil}, code : Currencies \cup {Nil},
              job : Nat, generation : Nat]

Typed ==
    /\ settings \in [default : Currencies, setup : BOOLEAN, revision : Nat, disclosure : BOOLEAN]
    /\ currency \in [Currencies -> {"absent", "enabled", "disabled"}]
    /\ jobs \in Seq(JobRow)
    /\ generations \in Seq(GenerationRow) /\ head \in DOMAIN generations
    /\ accepted \in Nat /\ crashes \in Nat /\ ledger \in [Keys -> Nat]
    /\ proc \in [Procs -> ProcState]
    /\ imported \in [Keys -> Nat]

\* What a job that reports success must have brought about.
Effect(type, c) ==
    /\ type = "add" => currency[c] # "absent"
    /\ type = "setup" => settings.setup
    /\ type = "change" =>
          \E g \in DOMAIN generations : generations[g].target = c /\ generations[g].status # "ready"

\* A generation that was built is one for the code it was built for.
BuiltFor(g, c) == g # 0 => g \in DOMAIN generations /\ generations[g].target = c

\* Only a preview has no currency; a generation attached to a job is one for its code;
\* and success has had its effect.
Sound(j) ==
    /\ jobs[j].type # "preview" => jobs[j].code \in Currencies
    /\ BuiltFor(jobs[j].generation, jobs[j].code)
    /\ jobs[j].status = "succeeded" => Effect(jobs[j].type, jobs[j].code)

\* Where a process works on a job it has read: the type of job it works on there.
Stages == {"stage", "check", "recheck"}
WorksOn(pc) ==
    CASE pc \in Stages -> {"add", "change"}
      [] pc = "setup" -> {"setup"}
      [] pc \in {"prove", "enable"} -> {"add"}
      [] pc \in {"build", "attach", "activate"} -> {"change"}
      [] pc \in {"store", "previewStage", "previewProve", "previewFail"} -> {"preview"}
      [] pc \in {"mark", "fail"} -> JobTypes
      [] OTHER -> {}

\* The places where a process holds a job it will write to.
Working == {"stage", "check", "recheck", "setup", "prove", "enable", "build", "attach", "activate",
            "store", "previewStage", "previewProve", "previewFail", "mark", "fail"}

\* What process p remembers is still so.
Faithful(p) ==
    /\ proc[p].pc \in {"insert", "disclose"} =>
          /\ proc[p].type \in JobTypes
          /\ proc[p].type # "preview" => proc[p].code \in Currencies
          /\ proc[p].generation = 0
    /\ proc[p].pc = "cancel" => proc[p].job \in DOMAIN jobs
    /\ proc[p].pc \in Working =>
          /\ proc[p].job \in DOMAIN jobs
          /\ proc[p].type \in WorksOn(proc[p].pc)
          /\ proc[p].type = jobs[proc[p].job].type
          /\ proc[p].type # "preview" => proc[p].code = jobs[proc[p].job].code
          /\ proc[p].type # "preview" => BuiltFor(proc[p].generation, proc[p].code)
    /\ proc[p].pc \in {"attach", "activate"} => proc[p].generation # 0
    /\ proc[p].pc = "recheck" /\ proc[p].type = "change" => proc[p].generation # 0
    /\ proc[p].pc = "mark" => Effect(proc[p].type, proc[p].code)

\* currency_jobs_one_running.
OneRunning == \A i, j \in RunningJobs : i = j

\* Previews are stored under the identities of jobs.
StoredTokens == DOMAIN store \subseteq DOMAIN jobs

DataInv ==
    /\ Typed
    /\ DefaultIsActiveTarget
    /\ OneRunning
    /\ \A j \in DOMAIN jobs : Sound(j)
    /\ \A p \in Procs : Faithful(p)

-----------------------------------------------------------------------------
(* What the calls do to the rows they write.                                   *)

\* Writing one element of a sequence keeps the rest of it.
LEMMA ExceptElement ==
    ASSUME NEW S, NEW s \in Seq(S), NEW i \in DOMAIN s, NEW e \in S
    PROVE  /\ [s EXCEPT ![i] = e] \in Seq(S)
           /\ DOMAIN [s EXCEPT ![i] = e] = DOMAIN s
           /\ [s EXCEPT ![i] = e][i] = e
           /\ \A k \in DOMAIN s : k # i => [s EXCEPT ![i] = e][k] = s[k]
OBVIOUS

\* Appending an element keeps the sequence before it.
LEMMA AppendElement ==
    ASSUME NEW S, NEW s \in Seq(S), NEW e \in S
    PROVE  /\ Append(s, e) \in Seq(S)
           /\ DOMAIN Append(s, e) = DOMAIN s \cup {Len(s) + 1}
           /\ Len(s) + 1 \notin DOMAIN s /\ Len(s) + 1 # 0 /\ Len(s) + 1 \in Nat
           /\ Append(s, e)[Len(s) + 1] = e
           /\ \A k \in DOMAIN s : Append(s, e)[k] = s[k]
<1>1. DOMAIN s = 1..Len(s) /\ Len(s) \in Nat
  OBVIOUS
<1> QED BY <1>1

\* running_job() is 0, or a running job.
LEMMA RunningJobRuns ==
    ASSUME Typed
    PROVE  /\ RunningJob = 0 <=> RunningJobs = {}
           /\ RunningJob # 0 => RunningJob \in RunningJobs
           /\ RunningJobs \subseteq DOMAIN jobs /\ DOMAIN jobs \subseteq Nat \ {0}
<1>1. RunningJobs \subseteq DOMAIN jobs /\ DOMAIN jobs \subseteq Nat \ {0}
  <2>1. DOMAIN jobs = 1..Len(jobs) /\ Len(jobs) \in Nat
    BY DEF Typed
  <2> QED BY <2>1 DEF RunningJobs
<1>2. RunningJobs # {} => (CHOOSE j \in RunningJobs : TRUE) \in RunningJobs
  OBVIOUS
<1> QED BY <1>1, <1>2 DEF RunningJob

\* status() is 0, or some job: the running one if there is one.
LEMMA StatusJobExists ==
    ASSUME Typed
    PROVE  /\ StatusJob # 0 => StatusJob \in DOMAIN jobs
           /\ RunningJobs # {} => StatusJob = RunningJob
<1>1. jobs \in Seq(JobRow) /\ DOMAIN jobs = 1..Len(jobs) /\ Len(jobs) \in Nat
  BY DEF Typed
<1> QED BY <1>1, RunningJobRuns DEF StatusJob

\* Updating the status of a job leaves everything else of all of them.
LEMMA UpdateRowEffect ==
    ASSUME Typed, NEW j \in DOMAIN jobs, NEW status \in Statuses, UpdateRow(j, status)
    PROVE  /\ jobs' \in Seq(JobRow) /\ DOMAIN jobs' = DOMAIN jobs
           /\ jobs'[j].status = status
           /\ \A k \in DOMAIN jobs : k # j => jobs'[k] = jobs[k]
           /\ \A k \in DOMAIN jobs : /\ jobs'[k].type = jobs[k].type
                                     /\ jobs'[k].code = jobs[k].code
                                     /\ jobs'[k].generation = jobs[k].generation
<1> DEFINE row == [jobs[j] EXCEPT !.status = status]
<1>1. jobs \in Seq(JobRow) /\ jobs[j] \in JobRow
  BY DEF Typed
<1>2. row \in JobRow /\ row.status = status /\ row.type = jobs[j].type
      /\ row.code = jobs[j].code /\ row.generation = jobs[j].generation
  BY <1>1 DEF JobRow
<1>3. jobs' = [jobs EXCEPT ![j] = row]
  BY DEF UpdateRow
<1> HIDE DEF row
<1> QED BY <1>1, <1>2, <1>3, ExceptElement

\* Inserting a job appends it, running and without a generation.
LEMMA InsertRowEffect ==
    ASSUME Typed, NEW type \in JobTypes, NEW c \in Currencies \cup {Nil}, InsertRow(type, c)
    PROVE  /\ jobs' \in Seq(JobRow) /\ DOMAIN jobs' = DOMAIN jobs \cup {Len(jobs) + 1}
           /\ Len(jobs) + 1 \notin DOMAIN jobs /\ Len(jobs) + 1 \in Nat \ {0}
           /\ jobs'[Len(jobs) + 1].type = type /\ jobs'[Len(jobs) + 1].code = c
           /\ jobs'[Len(jobs) + 1].status = "running" /\ jobs'[Len(jobs) + 1].generation = 0
           /\ \A k \in DOMAIN jobs : jobs'[k] = jobs[k]
           /\ RunningJobs = {}
<1> DEFINE row == NewJob(type, c)
<1>1. row \in JobRow /\ row.type = type /\ row.code = c /\ row.status = "running"
      /\ row.generation = 0
  BY DEF NewJob, JobRow, Statuses
<1>2. jobs \in Seq(JobRow) /\ jobs' = Append(jobs, row) /\ RunningJobs = {}
  BY DEF Typed, InsertRow
<1> HIDE DEF row
<1> QED BY <1>1, <1>2, AppendElement

\* Activating a generation changes statuses only: the old head is superseded.
LEMMA ActivatedEffect ==
    ASSUME NEW gens \in Seq(GenerationRow), NEW g \in DOMAIN gens
    PROVE  /\ Activated(gens, g) \in Seq(GenerationRow)
           /\ DOMAIN Activated(gens, g) = DOMAIN gens
           /\ \A i \in DOMAIN gens :
                 /\ Activated(gens, g)[i].target = gens[i].target
                 /\ Activated(gens, g)[i].status =
                       IF i = g THEN "active" ELSE IF i = head THEN "superseded" ELSE gens[i].status
<1> DEFINE row(i) == IF i = g THEN [gens[i] EXCEPT !.status = "active"]
                     ELSE IF i = head THEN [gens[i] EXCEPT !.status = "superseded"]
                     ELSE gens[i]
<1>1. DOMAIN gens = 1..Len(gens) /\ Len(gens) \in Nat
  OBVIOUS
<1>2. ASSUME NEW i \in DOMAIN gens
      PROVE  /\ row(i) \in GenerationRow /\ row(i).target = gens[i].target
             /\ row(i).status =
                   IF i = g THEN "active" ELSE IF i = head THEN "superseded" ELSE gens[i].status
  <2>1. gens[i] \in GenerationRow
    OBVIOUS
  <2> QED BY <2>1 DEF GenerationRow
<1>3. Activated(gens, g) = [i \in 1..Len(gens) |-> row(i)]
  BY <1>1 DEF Activated
<1> HIDE DEF row
<1>4. [i \in 1..Len(gens) |-> row(i)] \in Seq(GenerationRow)
  BY <1>1, <1>2
<1> QED BY <1>1, <1>2, <1>3, <1>4

\* Revaluing the head changes nothing else of any generation.
LEMMA RevaluedEffect ==
    ASSUME Typed, NEW valued \in [Keys -> Nat],
           generations' = [generations EXCEPT ![head].valued = valued]
    PROVE  /\ generations' \in Seq(GenerationRow) /\ DOMAIN generations' = DOMAIN generations
           /\ \A g \in DOMAIN generations : /\ generations'[g].target = generations[g].target
                                            /\ generations'[g].status = generations[g].status
<1> DEFINE row == [generations[head] EXCEPT !.valued = valued]
<1>1. generations \in Seq(GenerationRow) /\ head \in DOMAIN generations
      /\ generations[head] \in GenerationRow
  BY DEF Typed
<1>2. row \in GenerationRow /\ row.target = generations[head].target
      /\ row.status = generations[head].status
  BY <1>1 DEF GenerationRow
<1>3. generations' = [generations EXCEPT ![head] = row]
  OBVIOUS
<1> HIDE DEF row
<1> QED BY <1>1, <1>2, <1>3, ExceptElement, SMTT(30)

\* build_actual_generation: one more row, of the target asked for.
LEMMA BuiltEffect ==
    ASSUME Typed, NEW c \in Currencies
    PROVE  LET built == Append(generations, Built(c, "ready"))
               new == Len(generations) + 1
           IN  /\ built \in Seq(GenerationRow)
               /\ DOMAIN built = DOMAIN generations \cup {new} /\ new = Len(built)
               /\ new \notin DOMAIN generations /\ new # 0 /\ new \in Nat
               /\ built[new].target = c /\ built[new].status = "ready"
               /\ \A g \in DOMAIN generations : built[g] = generations[g]
<1> DEFINE row == Built(c, "ready")
<1>1. generations \in Seq(GenerationRow) /\ generations[head] \in GenerationRow
      /\ ledger \in [Keys -> Nat]
  BY DEF Typed
<1>2. row \in GenerationRow /\ row.target = c /\ row.status = "ready"
  BY <1>1 DEF Built, GenerationRow
<1>3. Len(Append(generations, row)) = Len(generations) + 1
  BY <1>1
<1> HIDE DEF row
<1>4. /\ Append(generations, row) \in Seq(GenerationRow)
      /\ DOMAIN Append(generations, row) = DOMAIN generations \cup {Len(generations) + 1}
      /\ Len(generations) + 1 \notin DOMAIN generations
      /\ Len(generations) + 1 # 0 /\ Len(generations) + 1 \in Nat
      /\ Append(generations, row)[Len(generations) + 1] = row
      /\ \A k \in DOMAIN generations : Append(generations, row)[k] = generations[k]
  BY <1>1, <1>2, AppendElement
<1> QED BY <1>2, <1>3, <1>4 DEF row

-----------------------------------------------------------------------------
(* What no step takes back, and what follows for everyone who did not move.    *)

NothingTakenBack ==
    /\ \A j \in DOMAIN jobs :
          j \in DOMAIN jobs' /\ jobs'[j].type = jobs[j].type /\ jobs'[j].code = jobs[j].code
    /\ \A g \in DOMAIN generations :
          /\ g \in DOMAIN generations' /\ generations'[g].target = generations[g].target
          /\ generations[g].status # "ready" => generations'[g].status # "ready"
    /\ \A c \in Currencies : currency[c] # "absent" => currency'[c] # "absent"
    /\ settings.setup => settings'.setup

\* What a process that does not move remembers stays so.
LEMMA FaithfulStays ==
    ASSUME NothingTakenBack, NEW p \in Procs, \A j \in DOMAIN jobs : Sound(j),
           proc'[p] = proc[p], Faithful(p)
    PROVE  Faithful(p)'
<1> DEFINE r == proc[p]
<1>1. r.pc = "mark" => Effect(r.type, r.code)'
  <2> SUFFICES ASSUME r.pc = "mark" PROVE Effect(r.type, r.code)'
    OBVIOUS
  <2>1. Effect(r.type, r.code) /\ (r.type = "add" => r.code \in Currencies)
    BY DEF Faithful, Working, Sound
  <2> QED BY <2>1 DEF NothingTakenBack, Effect
<1>2. r.pc \in Working =>
          /\ r.job \in DOMAIN jobs'
          /\ r.type = jobs'[r.job].type
          /\ r.type # "preview" => r.code = jobs'[r.job].code
          /\ r.type # "preview" => BuiltFor(r.generation, r.code)'
  BY DEF NothingTakenBack, BuiltFor, Faithful
<1> QED BY <1>1, <1>2 DEF Faithful, NothingTakenBack

\* A job whose row is not written stays sound.
LEMMA SoundStays ==
    ASSUME NothingTakenBack, NEW j \in DOMAIN jobs, jobs'[j] = jobs[j], Sound(j)
    PROVE  Sound(j)'
<1>1. jobs[j].type = "add" => jobs[j].code \in Currencies
  BY DEF Sound
<1> QED BY <1>1 DEF NothingTakenBack, Sound, BuiltFor, Effect

\* A step of process p alone.
Moves(p) == proc' \in [Procs -> ProcState] /\ \A q \in Procs \ {p} : proc'[q] = proc[q]

LEMMA BecomeMoves ==
    ASSUME Typed, NEW p \in Procs, NEW r \in ProcState, Become(p, r)
    PROVE  Moves(p) /\ proc'[p] = r
BY DEF Typed, Become, Moves

LEMMA GotoMoves ==
    ASSUME Typed, NEW p \in Procs, NEW pc \in Places, Goto(p, pc)
    PROVE  /\ Moves(p) /\ proc'[p].pc = pc
           /\ proc'[p].type = proc[p].type /\ proc'[p].code = proc[p].code
           /\ proc'[p].job = proc[p].job /\ proc'[p].generation = proc[p].generation
BY DEF Typed, Goto, Moves, ProcState

\* Where a process holds nothing it will rely on.
Light == {"idle", "spawn", "disable", "commit", "status", "refresh", "drive",
          "previewRefresh", "previewDrive"}

LEMMA LightIsFaithful ==
    ASSUME NEW p \in Procs, proc'[p].pc \in Light PROVE Faithful(p)'
BY DEF Faithful, Working, Light

\* Where it will insert the job it was asked for.
LEMMA AskingIsFaithful ==
    ASSUME NEW p \in Procs, proc'[p].pc \in {"insert", "disclose"}, proc'[p].type \in JobTypes,
           proc'[p].type # "preview" => proc'[p].code \in Currencies, proc'[p].generation = 0
    PROVE  Faithful(p)'
BY DEF Faithful, Working

\* A process that has finished remembers nothing.
LEMMA FinishMoves ==
    ASSUME Typed, NEW p \in Procs, Finish(p)
    PROVE  Moves(p) /\ proc'[p] = Idle /\ Faithful(p)'
<1>1. Idle \in ProcState /\ Idle.pc = "idle"
  BY DEF Idle, ProcState, Places
<1>2. Moves(p) /\ proc'[p] = Idle
  BY <1>1, BecomeMoves DEF Finish
<1> QED BY <1>1, <1>2, LightIsFaithful DEF Light

\* Whatever a step of process p writes, only p has to be looked at.
LEMMA OthersStayFaithful ==
    ASSUME DataInv, NothingTakenBack, NEW p \in Procs, Moves(p), Faithful(p)'
    PROVE  \A q \in Procs : Faithful(q)'
<1> SUFFICES ASSUME NEW q \in Procs, q # p PROVE Faithful(q)'
  OBVIOUS
<1> QED BY FaithfulStays DEF DataInv, Moves

\* A step that writes no row.
LEMMA QuietStep ==
    ASSUME DataInv, NEW p \in Procs, Moves(p), Faithful(p)',
           UNCHANGED <<settings, currency, jobs, generations, head, ledger, crashes, imported>>,
           accepted' \in Nat
    PROVE  DataInv'
<1>1. NothingTakenBack
  BY DEF NothingTakenBack
<1>2. \A q \in Procs : Faithful(q)'
  BY <1>1, OthersStayFaithful
<1>3. \A j \in DOMAIN jobs' : Sound(j)'
  BY <1>1, SoundStays DEF DataInv
<1>4. Typed'
  BY DEF DataInv, Typed, Moves
<1> QED BY <1>2, <1>3, <1>4 DEF DataInv, DefaultIsActiveTarget, OneRunning, RunningJobs

-----------------------------------------------------------------------------
(* Steps that only read and decide.                                            *)

\* start_initial_setup remembers the running setup of the same code, or nothing.
LEMMA StartInitialSetupKeeps ==
    ASSUME DataInv, UNCHANGED imported, NEW u \in Clients, NEW c \in Currencies,
           StartInitialSetup(u, c)
    PROVE  DataInv'
<1> DEFINE r == [Idle EXCEPT
          !.pc = IF RunningJob = 0 THEN "insert" ELSE IF settings.setup THEN "mark" ELSE "setup",
          !.type = "setup", !.code = c, !.job = RunningJob]
<1>1. RunningJob \in Nat /\ (RunningJob # 0 => RunningJob \in DOMAIN jobs)
  BY RunningJobRuns DEF DataInv
<1>2. r \in ProcState /\ r.type = "setup" /\ r.code = c /\ r.job = RunningJob /\ r.generation = 0
      /\ r.pc = IF RunningJob = 0 THEN "insert" ELSE IF settings.setup THEN "mark" ELSE "setup"
  BY <1>1 DEF Idle, ProcState, Places, JobTypes
<1>3. Become(u, r) /\ UNCHANGED <<coreVars, crashes>>
      /\ (RunningJob # 0 => jobs[RunningJob].type = "setup" /\ jobs[RunningJob].code = c)
  BY DEF StartInitialSetup
<1> HIDE DEF r
<1>4. u \in Procs /\ Moves(u) /\ proc'[u] = r
  BY <1>2, <1>3, BecomeMoves DEF Procs, DataInv
<1>5. Faithful(u)'
  BY <1>1, <1>2, <1>3, <1>4
     DEF Faithful, WorksOn, Working, Stages, JobTypes, BuiltFor, Effect, coreVars
<1> QED BY <1>3, <1>4, <1>5, QuietStep DEF coreVars, DataInv, Typed

\* The other requests remember only what they were asked for.
LEMMA RequestKeeps ==
    ASSUME DataInv, UNCHANGED imported, NEW u \in Clients, Request(u)
    PROVE  DataInv'
<1>1. u \in Procs /\ Typed /\ accepted \in Nat
  BY DEF Procs, DataInv, Typed
<1>2. ASSUME NEW r \in ProcState, Become(u, r), UNCHANGED <<coreVars, crashes>>,
             r.pc \in Light \/ /\ r.pc \in {"insert", "disclose"} /\ r.type \in JobTypes
                               /\ r.code \in Currencies /\ r.generation = 0
      PROVE  DataInv'
  <2>1. Moves(u) /\ proc'[u] = r
    BY <1>1, <1>2, BecomeMoves
  <2>2. Faithful(u)'
    BY <1>1, <1>2, <2>1, LightIsFaithful, AskingIsFaithful
  <2> QED BY <1>1, <1>2, <2>1, <2>2, QuietStep DEF coreVars
<1>3. ASSUME NEW c \in Currencies, StartInitialSetup(u, c) PROVE DataInv'
  BY <1>3, StartInitialSetupKeeps
<1>4. ASSUME NEW c \in Currencies, StartDefaultCurrencyChange(u, c) PROVE DataInv'
  <2> DEFINE r == [Idle EXCEPT
          !.pc = IF c = settings.default \/ RunningJob # 0 THEN "spawn" ELSE "insert",
          !.type = "change", !.code = c]
  <2>1. Become(u, r) /\ UNCHANGED <<coreVars, crashes>>
    BY <1>4 DEF StartDefaultCurrencyChange
  <2>2. r \in ProcState /\ r.pc \in {"spawn", "insert"} /\ r.type = "change" /\ r.code = c
        /\ r.generation = 0
    BY DEF Idle, ProcState, Places, JobTypes
  <2> QED BY <1>2, <2>1, <2>2 DEF Light, JobTypes
<1>5. ASSUME NEW c \in Currencies, DisableCurrency(u, c) PROVE DataInv'
  <2> DEFINE r == [Idle EXCEPT !.pc = "disable", !.code = c]
  <2>1. Become(u, r) /\ UNCHANGED <<coreVars, crashes>>
    BY <1>5 DEF DisableCurrency
  <2>2. r \in ProcState /\ r.pc = "disable"
    BY DEF Idle, ProcState, Places
  <2> QED BY <1>2, <2>1, <2>2 DEF Light
<1>6. ASSUME NEW c \in Currencies, NEW confirm \in BOOLEAN, StartCurrencyAddition(u, c, confirm)
      PROVE  DataInv'
  <2> DEFINE r == [Idle EXCEPT
          !.pc = IF RunningJob # 0 THEN "spawn"
                 ELSE IF confirm /\ NeedsProvider(c) THEN "disclose" ELSE "insert",
          !.type = "add", !.code = c]
  <2>1. Become(u, r) /\ UNCHANGED <<coreVars, crashes>>
    BY <1>6 DEF StartCurrencyAddition
  <2>2. r \in ProcState /\ r.pc \in {"spawn", "disclose", "insert"} /\ r.type = "add" /\ r.code = c
        /\ r.generation = 0
    BY DEF Idle, ProcState, Places, JobTypes
  <2> QED BY <1>2, <2>1, <2>2 DEF Light, JobTypes
<1>7. ASSUME NEW j \in DOMAIN jobs, CancelCurrencyJob(u, j) PROVE DataInv'
  <2> DEFINE r == [Idle EXCEPT !.pc = "cancel", !.job = j]
  <2>1. Become(u, r) /\ UNCHANGED <<coreVars, crashes>>
    BY <1>7 DEF CancelCurrencyJob
  <2>2. r \in ProcState /\ r.pc = "cancel" /\ r.job = j
    BY <1>1, RunningJobRuns DEF Idle, ProcState, Places
  <2>3. Moves(u) /\ proc'[u] = r
    BY <1>1, <2>1, <2>2, BecomeMoves
  <2>4. Faithful(u)'
    BY <2>1, <2>2, <2>3 DEF Faithful, Working, coreVars
  <2> QED BY <1>1, <2>1, <2>3, <2>4, QuietStep DEF coreVars
<1> QED BY <1>3, <1>4, <1>5, <1>6, <1>7 DEF Request

\* A drive that reads the status, or the running job, or that finds its currency
\* covered, and asks whether its job was cancelled.
LEMMA DriveReads ==
    ASSUME DataInv, UNCHANGED imported, NEW d \in Procs,
           ReadStatus(d) \/ RefreshRates(d) \/ DriveRunningJob(d)
               \/ CheckCancelled(d) \/ ProveCoverage(d)
    PROVE  DataInv'
<1>1. Typed /\ accepted \in Nat /\ Faithful(d) /\ proc[d] \in ProcState
  BY DEF DataInv, Typed
<1>2. ASSUME NEW pc \in Places, Goto(d, pc), pc \in Light, accepted' \in Nat,
             UNCHANGED <<settings, currency, jobs, generations, head, ledger, crashes>>
      PROVE  DataInv'
  <2>1. Moves(d) /\ Faithful(d)'
    BY <1>1, <1>2, GotoMoves, LightIsFaithful
  <2> QED BY <1>2, <2>1, QuietStep
<1>3. CASE ReadStatus(d)
  <2> DEFINE pc == IF StatusJob # 0 /\ jobs[StatusJob].type = "preview" THEN "previewRefresh"
                   ELSE IF StatusJob # 0 /\ jobs[StatusJob].type = "add"
                               /\ NeedsProvider(jobs[StatusJob].code)
                   THEN "refresh" ELSE "drive"
  <2>1. Goto(d, pc) /\ UNCHANGED <<coreVars, crashes>>
    BY <1>3 DEF ReadStatus
  <2>2. pc \in Places /\ pc \in Light
    BY DEF Places, Light
  <2> QED BY <1>1, <1>2, <2>1, <2>2 DEF coreVars
<1>4. CASE RefreshRates(d)
  <2>1. accepted' \in Nat
    BY <1>1, <1>4 DEF RefreshRates
  <2>2. Goto(d, "drive") \/ Goto(d, "previewDrive")
    BY <1>4 DEF RefreshRates
  <2>3. {"drive", "previewDrive"} \subseteq Places \cap Light
    BY DEF Places, Light
  <2> QED BY <1>2, <1>4, <2>1, <2>2, <2>3 DEF RefreshRates
<1>5. CASE DriveRunningJob(d)
  <2>1. UNCHANGED <<coreVars, crashes>>
    BY <1>5 DEF DriveRunningJob
  <2>2. CASE Finish(d)
    BY <1>1, <2>1, <2>2, FinishMoves, QuietStep DEF coreVars
  <2>3. CASE ~Finish(d)
    <3> DEFINE j == RunningJob
               r == [pc |-> IF jobs[j].type = "setup" THEN "setup" ELSE "stage",
                     type |-> jobs[j].type, code |-> jobs[j].code, job |-> j,
                     generation |-> jobs[j].generation]
    <3>1. j # 0 /\ jobs[j].type # "preview" /\ Become(d, r)
      BY <1>5, <2>3 DEF DriveRunningJob
    <3>2. j \in DOMAIN jobs /\ j \in Nat /\ jobs[j] \in JobRow
      BY <1>1, <3>1, RunningJobRuns DEF Typed
    <3>3. r \in ProcState
      BY <3>2 DEF JobRow, ProcState, Places
    <3>4. Moves(d) /\ proc'[d] = r
      BY <1>1, <3>1, <3>3, BecomeMoves
    <3>5. r.type \in WorksOn(r.pc) /\ r.pc \in Working /\ r.pc \in {"setup", "stage"}
      BY <3>1, <3>2 DEF JobRow, JobTypes, WorksOn, Stages, Working
    <3>6. BuiltFor(proc[d].generation, proc[d].code)'
      <4>1. BuiltFor(jobs[j].generation, jobs[j].code)
        BY <3>2 DEF DataInv, Sound
      <4> QED BY <2>1, <3>4, <4>1 DEF BuiltFor, coreVars
    <3>7. Faithful(d)'
      <4>1. /\ proc'[d].pc \in Working /\ proc'[d].pc \in {"setup", "stage"}
            /\ proc'[d].type \in WorksOn(proc'[d].pc)
            /\ proc'[d].job = j /\ proc'[d].type = jobs[j].type /\ proc'[d].code = jobs[j].code
        BY <3>4, <3>5
      <4> QED BY <2>1, <3>2, <3>6, <4>1 DEF Faithful, coreVars
    <3> QED BY <1>1, <2>1, <3>4, <3>7, QuietStep DEF coreVars
  <2> QED BY <2>2, <2>3
<1>6. ASSUME NEW pc \in Working, Goto(d, pc), UNCHANGED <<coreVars, crashes>>,
             proc[d].pc \in Working, proc[d].type \in WorksOn(pc),
             pc \in {"attach", "activate"} => proc[d].generation # 0,
             pc = "recheck" /\ proc[d].type = "change" => proc[d].generation # 0,
             pc # "mark"
      PROVE  DataInv'
  <2>1. pc \in Places /\ pc \notin {"insert", "disclose", "cancel"}
    BY DEF Working, Places
  <2>2. /\ Moves(d) /\ proc'[d].pc = pc
        /\ proc'[d].type = proc[d].type /\ proc'[d].code = proc[d].code
        /\ proc'[d].job = proc[d].job /\ proc'[d].generation = proc[d].generation
    BY <1>1, <1>6, <2>1, GotoMoves
  <2>3. Faithful(d)'
    BY <1>1, <1>6, <2>1, <2>2 DEF Faithful, BuiltFor, coreVars
  <2> QED BY <1>1, <1>6, <2>2, <2>3, QuietStep DEF coreVars
<1>7. CASE CheckCancelled(d)
  <2>1. UNCHANGED <<coreVars, crashes>>
    BY <1>7 DEF CheckCancelled
  <2>2. CASE Finish(d)
    BY <1>1, <2>1, <2>2, FinishMoves, QuietStep DEF coreVars
  <2>3. CASE ~Finish(d)
    <3> DEFINE pc == IF proc[d].pc = "check"
                     THEN CASE proc[d].type = "add" -> "prove"
                            [] proc[d].generation # 0 -> "recheck"
                            [] OTHER -> "build"
                     ELSE IF proc[d].type = "add" THEN "enable" ELSE "activate"
    <3>1. Goto(d, pc) /\ proc[d].pc \in {"check", "recheck"}
      BY <1>7, <2>3 DEF CheckCancelled, At
    <3>2. proc[d].pc \in Working /\ proc[d].type \in {"add", "change"}
      BY <1>1, <3>1 DEF Faithful, Working, WorksOn, Stages
    <3>3. /\ pc \in Working /\ proc[d].type \in WorksOn(pc) /\ pc # "mark" /\ pc # "attach"
          /\ pc = "activate" => proc[d].generation # 0
          /\ pc = "recheck" /\ proc[d].type = "change" => proc[d].generation # 0
      BY <1>1, <3>1, <3>2 DEF Faithful, Working, WorksOn, Stages
    <3> QED BY <1>6, <2>1, <3>1, <3>2, <3>3
  <2> QED BY <2>2, <2>3
<1>8. CASE ProveCoverage(d)
  <2> DEFINE pc == IF Covered(proc[d].code) THEN "recheck" ELSE "fail"
  <2>1. Goto(d, pc) /\ proc[d].pc = "prove" /\ UNCHANGED <<coreVars, crashes>>
    BY <1>8 DEF ProveCoverage, At
  <2>2. proc[d].pc \in Working /\ proc[d].type = "add"
    BY <1>1, <2>1 DEF Faithful, Working, WorksOn, Stages
  <2>3. pc \in Working /\ proc[d].type \in WorksOn(pc) /\ pc \in {"recheck", "fail"}
    BY <2>2 DEF Working, WorksOn, Stages, JobTypes
  <2> QED BY <1>6, <2>1, <2>2, <2>3
<1> QED BY <1>3, <1>4, <1>5, <1>7, <1>8

-----------------------------------------------------------------------------
(* Steps that write a job.                                                     *)

\* The status of one job is written, by the process that has read it.  "running" may be
\* written over anything the index allows, "succeeded" only where the effect is there.
LEMMA StatusStep ==
    ASSUME DataInv, NEW p \in Procs, Moves(p), NEW j \in DOMAIN jobs, NEW status \in Statuses,
           UpdateRow(j, status),
           UNCHANGED <<settings, currency, generations, head, accepted, ledger, crashes, imported>>,
           status = "running" => RunningJobs \subseteq {j},
           status = "succeeded" => Effect(jobs[j].type, jobs[j].code)
    PROVE  NothingTakenBack /\ DOMAIN jobs' = DOMAIN jobs /\ (Faithful(p)' => DataInv')
<1>1. /\ jobs' \in Seq(JobRow) /\ DOMAIN jobs' = DOMAIN jobs
      /\ jobs'[j].status = status
      /\ \A k \in DOMAIN jobs : k # j => jobs'[k] = jobs[k]
      /\ \A k \in DOMAIN jobs : /\ jobs'[k].type = jobs[k].type
                                /\ jobs'[k].code = jobs[k].code
                                /\ jobs'[k].generation = jobs[k].generation
  BY UpdateRowEffect DEF DataInv
<1>2. NothingTakenBack
  BY <1>1 DEF NothingTakenBack
<1>3. ASSUME NEW k \in DOMAIN jobs' PROVE Sound(k)'
  <2>1. CASE k # j
    BY <1>1, <1>2, <2>1, SoundStays DEF DataInv
  <2>2. CASE k = j
    BY <1>1, <2>2 DEF DataInv, Sound, BuiltFor, Effect
  <2> QED BY <2>1, <2>2
<1>4. OneRunning'
  BY <1>1 DEF DataInv, OneRunning, RunningJobs
<1>5. Typed'
  BY <1>1 DEF DataInv, Typed, Moves
<1>6. DefaultIsActiveTarget'
  BY DEF DataInv, DefaultIsActiveTarget
<1>7. ASSUME Faithful(p)' PROVE DataInv'
  BY <1>2, <1>3, <1>4, <1>5, <1>6, <1>7, OthersStayFaithful DEF DataInv
<1> QED BY <1>1, <1>2, <1>7

\* The ends of jobs: finish_cancelled, mark_job_succeeded and fail_job.
LEMMA EndsKeep ==
    ASSUME DataInv, UNCHANGED imported, NEW p \in Procs,
           WriteCancelled(p) \/ FinishJob(p) \/ FailPreview(p)
    PROVE  DataInv'
<1>1. Typed /\ Faithful(p)
  BY DEF DataInv
<1>2. Finish(p) /\ UNCHANGED <<settings, currency, generations, head, accepted, ledger, crashes>>
  BY DEF WriteCancelled, FinishJob, FailPreview
<1>3. Moves(p) /\ Faithful(p)'
  BY <1>1, <1>2, FinishMoves
<1>4. CASE WriteCancelled(p)
  <2>1. proc[p].job \in DOMAIN jobs /\ UpdateRow(proc[p].job, "cancelled")
    BY <1>1, <1>4 DEF Faithful, WriteCancelled, At
  <2> QED BY <1>2, <1>3, <2>1, StatusStep DEF Statuses
<1>5. CASE FailPreview(p)
  <2>1. proc[p].job \in DOMAIN jobs /\ UpdateRow(proc[p].job, "failed")
    BY <1>1, <1>5 DEF Faithful, FailPreview, At, Working
  <2> QED BY <1>2, <1>3, <2>1, StatusStep DEF Statuses
<1>6. CASE FinishJob(p)
  <2> DEFINE j == proc[p].job
  <2>1. j \in DOMAIN jobs /\ proc[p].type = jobs[j].type
        /\ (proc[p].type # "preview" => proc[p].code = jobs[j].code)
    BY <1>1, <1>6 DEF Faithful, FinishJob, Working
  <2>2. CASE At(p, "mark")
    <3>1. Effect(jobs[j].type, jobs[j].code)
      BY <1>1, <2>1, <2>2 DEF Faithful, At, Effect
    <3>2. UpdateRow(j, "succeeded")
      BY <1>6, <2>2 DEF FinishJob
    <3> QED BY <1>2, <1>3, <2>1, <3>1, <3>2, StatusStep DEF Statuses
  <2>3. CASE ~At(p, "mark")
    <3>1. UpdateRow(j, "failed")
      BY <1>6, <2>3 DEF FinishJob
    <3> QED BY <1>2, <1>3, <2>1, <3>1, StatusStep DEF Statuses
  <2> QED BY <2>2, <2>3
<1> QED BY <1>4, <1>5, <1>6

\* stage_current = 1: a job in hand becomes the running one again, or the index refuses.
LEMMA StagesKeep ==
    ASSUME DataInv, UNCHANGED imported, NEW p \in Procs, WriteStage(p) \/ WritePreviewStage(p)
    PROVE  DataInv'
<1> DEFINE j == proc[p].job
<1>1. Typed /\ Faithful(p) /\ accepted \in Nat /\ proc[p].pc \in {"stage", "previewStage"}
  BY DEF DataInv, Typed, WriteStage, WritePreviewStage, At
<1>2. UNCHANGED <<settings, currency, generations, head, accepted, ledger, crashes>>
  BY DEF WriteStage, WritePreviewStage
<1>3. CASE Finish(p) /\ UNCHANGED jobs
  BY <1>1, <1>2, <1>3, FinishMoves, QuietStep
<1>4. CASE ~(Finish(p) /\ UNCHANGED jobs)
  <2> DEFINE pc == IF proc[p].pc = "stage" THEN "check" ELSE "previewProve"
  <2>1. Goto(p, pc) /\ UpdateRow(j, "running") /\ ~UpdateRefused(j, "running")
    BY <1>4 DEF WriteStage, WritePreviewStage, At
  <2>2. /\ Moves(p) /\ proc'[p].pc = pc
        /\ proc'[p].type = proc[p].type /\ proc'[p].code = proc[p].code
        /\ proc'[p].job = j /\ proc'[p].generation = proc[p].generation
    <3>1. pc \in Places
      BY DEF Places
    <3> QED BY <1>1, <2>1, <3>1, GotoMoves
  <2>3. j \in DOMAIN jobs /\ proc[p].type \in WorksOn(pc) /\ pc \in Working
    BY <1>1 DEF Faithful, Working, WorksOn, Stages
  <2>4. NothingTakenBack /\ DOMAIN jobs' = DOMAIN jobs /\ (Faithful(p)' => DataInv')
    <3>1. RunningJobs \subseteq {j}
      BY <2>1 DEF UpdateRefused
    <3> QED BY <1>2, <2>1, <2>2, <2>3, <3>1, StatusStep DEF Statuses
  <2>5. Faithful(p)'
    <3>1. /\ proc[p].type = jobs[j].type
          /\ proc[p].type # "preview" => proc[p].code = jobs[j].code
          /\ proc[p].type # "preview" => BuiltFor(proc[p].generation, proc[p].code)
      BY <1>1 DEF Faithful, Working
    <3>2. proc[p].type # "preview" => BuiltFor(proc[p].generation, proc[p].code)'
      BY <1>2, <2>2, <3>1 DEF BuiltFor
    <3> QED BY <2>2, <2>3, <2>4, <3>1, <3>2 DEF Faithful, NothingTakenBack
  <2> QED BY <2>4, <2>5
<1> QED BY <1>3, <1>4

\* insert_job: the new row is the only running one, and its request goes on with it.
LEMMA InsertJobKeeps ==
    ASSUME DataInv, UNCHANGED imported, NEW u \in Procs, InsertJob(u)
    PROVE  DataInv'
<1> DEFINE new == Len(jobs) + 1
           pc == CASE proc[u].type = "setup" -> "setup"
                   [] proc[u].type = "preview" -> "store"
                   [] OTHER -> "spawn"
<1>1. Typed /\ Faithful(u) /\ accepted \in Nat /\ proc[u] \in ProcState /\ proc[u].pc = "insert"
  BY DEF DataInv, Typed, InsertJob, At
<1>2. UNCHANGED <<settings, currency, generations, head, accepted, ledger, crashes>>
  BY DEF InsertJob
<1>3. CASE UNCHANGED jobs /\ Finish(u)
  BY <1>1, <1>2, <1>3, FinishMoves, QuietStep
<1>4. CASE ~(UNCHANGED jobs /\ Finish(u))
  <2>1. /\ InsertRow(proc[u].type, proc[u].code)
        /\ proc' = [proc EXCEPT ![u].job = new, ![u].pc = pc]
    BY <1>4 DEF InsertJob
  <2>2. /\ proc[u].type \in JobTypes /\ proc[u].code \in Currencies \cup {Nil}
        /\ proc[u].type # "preview" => proc[u].code \in Currencies
        /\ proc[u].generation = 0
    BY <1>1 DEF Faithful, ProcState
  <2>3. /\ jobs' \in Seq(JobRow) /\ DOMAIN jobs' = DOMAIN jobs \cup {new}
        /\ new \notin DOMAIN jobs /\ new \in Nat \ {0}
        /\ jobs'[new].type = proc[u].type /\ jobs'[new].code = proc[u].code
        /\ jobs'[new].status = "running" /\ jobs'[new].generation = 0
        /\ \A k \in DOMAIN jobs : jobs'[k] = jobs[k]
        /\ RunningJobs = {}
    BY <1>1, <2>1, <2>2, InsertRowEffect
  <2>4. /\ Moves(u) /\ proc'[u].pc = pc /\ proc'[u].job = new
        /\ proc'[u].type = proc[u].type /\ proc'[u].code = proc[u].code
        /\ proc'[u].generation = 0
    <3> DEFINE r == [proc[u] EXCEPT !.job = new, !.pc = pc]
    <3>1. r \in ProcState /\ r.pc = pc /\ r.job = new /\ r.type = proc[u].type
          /\ r.code = proc[u].code /\ r.generation = 0
      BY <1>1, <2>2, <2>3 DEF ProcState, Places
    <3>2. Become(u, r)
      BY <2>1 DEF Become
    <3> HIDE DEF r
    <3> QED BY <1>1, <3>1, <3>2, BecomeMoves
  <2>5. NothingTakenBack
    BY <1>2, <2>3 DEF NothingTakenBack
  <2>6. Faithful(u)'
    <3>1. CASE pc = "spawn"
      BY <2>4, <3>1, LightIsFaithful DEF Light
    <3>2. CASE pc # "spawn"
      <4>1. pc \in {"setup", "store"} /\ pc \in Working /\ proc[u].type \in WorksOn(pc)
        BY <3>2 DEF Working, WorksOn, Stages
      <4>2. BuiltFor(proc[u].generation, proc[u].code)'
        BY <2>4 DEF BuiltFor
      <4> QED BY <2>3, <2>4, <4>1, <4>2 DEF Faithful
    <3> QED BY <3>1, <3>2
  <2>7. ASSUME NEW k \in DOMAIN jobs' PROVE Sound(k)'
    <3>1. CASE k \in DOMAIN jobs
      BY <2>3, <2>5, <3>1, SoundStays DEF DataInv
    <3>2. CASE k = new
      BY <2>2, <2>3, <3>2 DEF Sound, BuiltFor
    <3> QED BY <2>3, <3>1, <3>2
  <2>8. OneRunning'
    BY <2>3 DEF OneRunning, RunningJobs
  <2>9. Typed' /\ DefaultIsActiveTarget'
    BY <1>2, <2>3, <2>4 DEF DataInv, Typed, Moves, DefaultIsActiveTarget
  <2> QED BY <2>4, <2>5, <2>6, <2>7, <2>8, <2>9, OthersStayFaithful DEF DataInv
<1> QED BY <1>3, <1>4

\* attach_generation: the generation was built for the code of the job.
LEMMA AttachGenerationKeeps ==
    ASSUME DataInv, UNCHANGED imported, NEW d \in Procs, AttachGeneration(d)
    PROVE  DataInv'
<1> DEFINE j == proc[d].job
           g == proc[d].generation
           row == [jobs[j] EXCEPT !.generation = g]
<1>1. Typed /\ Faithful(d) /\ proc[d] \in ProcState /\ proc[d].pc = "attach" /\ Goto(d, "recheck")
      /\ jobs' = [jobs EXCEPT ![j] = row]
  BY DEF DataInv, Typed, AttachGeneration, At
<1>2. UNCHANGED <<settings, currency, generations, head, accepted, ledger, crashes>>
  BY DEF AttachGeneration
<1>3. /\ j \in DOMAIN jobs /\ g \in Nat /\ g # 0 /\ proc[d].type = "change"
      /\ jobs[j].type = "change" /\ proc[d].code = jobs[j].code /\ BuiltFor(g, jobs[j].code)
  BY <1>1 DEF Faithful, Working, WorksOn, Stages, ProcState
<1>4. /\ row \in JobRow /\ row.generation = g /\ row.type = jobs[j].type
      /\ row.code = jobs[j].code /\ row.status = jobs[j].status
      /\ jobs \in Seq(JobRow)
  <2>1. jobs \in Seq(JobRow) /\ jobs[j] \in JobRow
    BY <1>1, <1>3 DEF Typed
  <2> QED BY <1>3, <2>1 DEF JobRow
<1>5. /\ jobs' \in Seq(JobRow) /\ DOMAIN jobs' = DOMAIN jobs /\ jobs'[j] = row
      /\ \A k \in DOMAIN jobs : k # j => jobs'[k] = jobs[k]
  <2> HIDE DEF row
  <2> QED BY <1>1, <1>3, <1>4, ExceptElement
<1>6. /\ Moves(d) /\ proc'[d].pc = "recheck"
      /\ proc'[d].type = proc[d].type /\ proc'[d].code = proc[d].code
      /\ proc'[d].job = j /\ proc'[d].generation = g
  BY <1>1, GotoMoves DEF Places
<1> HIDE DEF row
<1>7. NothingTakenBack
  BY <1>2, <1>4, <1>5 DEF NothingTakenBack
<1>8. Faithful(d)'
  <2>1. BuiltFor(proc[d].generation, proc[d].code)'
    BY <1>2, <1>3, <1>6 DEF BuiltFor
  <2> QED BY <1>3, <1>4, <1>5, <1>6, <2>1 DEF Faithful, Working, WorksOn, Stages
<1>9. ASSUME NEW k \in DOMAIN jobs' PROVE Sound(k)'
  <2>1. CASE k # j
    BY <1>5, <1>7, <2>1, SoundStays DEF DataInv
  <2>2. CASE k = j
    BY <1>2, <1>3, <1>4, <1>5, <2>2 DEF DataInv, Sound, BuiltFor, Effect
  <2> QED BY <2>1, <2>2
<1>10. OneRunning'
  BY <1>4, <1>5 DEF DataInv, OneRunning, RunningJobs
<1>11. Typed' /\ DefaultIsActiveTarget'
  BY <1>2, <1>5, <1>6 DEF DataInv, Typed, Moves, DefaultIsActiveTarget
<1> QED BY <1>6, <1>7, <1>8, <1>9, <1>10, <1>11, OthersStayFaithful DEF DataInv

-----------------------------------------------------------------------------
(* Steps that write the settings, a currency, a generation or the ledger.      *)

\* Without a write to the jobs they stay sound, and as many of them run as before.
LEMMA JobsKept ==
    ASSUME DataInv, NothingTakenBack, UNCHANGED jobs
    PROVE  OneRunning' /\ \A j \in DOMAIN jobs' : Sound(j)'
<1>1. \A j \in DOMAIN jobs' : Sound(j)'
  BY SoundStays DEF DataInv
<1> QED BY <1>1 DEF DataInv, OneRunning, RunningJobs

\* accept_provider_disclosure: nothing depends on it being absent.
LEMMA AcceptProviderDisclosureKeeps ==
    ASSUME DataInv, UNCHANGED imported, NEW u \in Procs, AcceptProviderDisclosure(u)
    PROVE  DataInv'
<1>1. Typed /\ Faithful(u) /\ proc[u].pc = "disclose" /\ Goto(u, "insert")
      /\ UNCHANGED <<currency, jobs, generations, head, accepted, ledger, crashes>>
  BY DEF DataInv, AcceptProviderDisclosure, At
<1>2. /\ settings' \in [default : Currencies, setup : BOOLEAN, revision : Nat, disclosure : BOOLEAN]
      /\ settings'.default = settings.default /\ settings'.setup = settings.setup
  BY <1>1 DEF Typed, AcceptProviderDisclosure
<1>3. /\ Moves(u) /\ proc'[u].pc = "insert" /\ proc'[u].type = proc[u].type
      /\ proc'[u].code = proc[u].code /\ proc'[u].generation = proc[u].generation
  BY <1>1, GotoMoves DEF Places
<1>4. Faithful(u)'
  BY <1>1, <1>3, AskingIsFaithful DEF Faithful
<1>5. NothingTakenBack
  BY <1>1, <1>2 DEF NothingTakenBack
<1>6. Typed' /\ DefaultIsActiveTarget'
  BY <1>1, <1>2, <1>3 DEF DataInv, Typed, Moves, DefaultIsActiveTarget
<1> QED BY <1>1, <1>3, <1>4, <1>5, <1>6, JobsKept, OthersStayFaithful DEF DataInv

\* enable_currency and disable_currency: a currency that is known stays known.
LEMMA CurrencyWritesKeep ==
    ASSUME DataInv, UNCHANGED imported, NEW p \in Procs, WriteDisabled(p) \/ EnableCurrency(p)
    PROVE  DataInv'
<1>1. Typed /\ Faithful(p) /\ currency \in [Currencies -> {"absent", "enabled", "disabled"}]
      /\ UNCHANGED <<settings, jobs, generations, head, accepted, ledger, crashes>>
  BY DEF DataInv, Typed, WriteDisabled, EnableCurrency
<1>2. /\ currency' \in [Currencies -> {"absent", "enabled", "disabled"}]
      /\ \A c \in Currencies : currency[c] # "absent" => currency'[c] # "absent"
  BY <1>1 DEF WriteDisabled, EnableCurrency, Enable
<1>3. NothingTakenBack
  BY <1>1, <1>2 DEF NothingTakenBack
<1>4. Moves(p) /\ Faithful(p)'
  <2>1. CASE WriteDisabled(p)
    BY <1>1, <2>1, FinishMoves DEF WriteDisabled
  <2>2. CASE EnableCurrency(p)
    <3>1. proc[p].pc = "enable" /\ Goto(p, "mark") /\ currency' = [currency EXCEPT ![proc[p].code] = "enabled"]
      BY <2>2 DEF EnableCurrency, At, Enable
    <3>2. /\ Moves(p) /\ proc'[p].pc = "mark"
          /\ proc'[p].type = proc[p].type /\ proc'[p].code = proc[p].code
          /\ proc'[p].job = proc[p].job /\ proc'[p].generation = proc[p].generation
      BY <1>1, <3>1, GotoMoves DEF Places
    <3>3. /\ proc[p].job \in DOMAIN jobs /\ proc[p].type = "add" /\ proc[p].type \in JobTypes
          /\ proc[p].type = jobs[proc[p].job].type /\ proc[p].code = jobs[proc[p].job].code
          /\ BuiltFor(proc[p].generation, proc[p].code)
      BY <1>1, <3>1 DEF Faithful, Working, WorksOn, Stages, JobTypes
    <3>4. proc[p].code \in Currencies
      BY <3>3 DEF DataInv, Sound
    <3>5. Effect(proc[p].type, proc[p].code)'
      BY <1>1, <3>1, <3>2, <3>3, <3>4 DEF Effect
    <3>6. BuiltFor(proc[p].generation, proc[p].code)'
      BY <1>1, <3>2, <3>3 DEF BuiltFor
    <3>7. Faithful(p)'
      BY <1>1, <3>2, <3>3, <3>5, <3>6 DEF Faithful, Working, WorksOn, Stages
    <3> QED BY <3>2, <3>7
  <2> QED BY <2>1, <2>2
<1>5. Typed' /\ DefaultIsActiveTarget'
  BY <1>1, <1>2, <1>4 DEF DataInv, Typed, Moves, DefaultIsActiveTarget
<1> QED BY <1>1, <1>3, <1>4, <1>5, JobsKept, OthersStayFaithful DEF DataInv

\* begin_default_generation: the new row is ready, of the code of the job, and not the head.
LEMMA BeginDefaultGenerationKeeps ==
    ASSUME DataInv, UNCHANGED imported, NEW d \in Procs, BeginDefaultGeneration(d)
    PROVE  DataInv'
<1> DEFINE new == Len(generations) + 1
           c == proc[d].code
<1>1. Typed /\ Faithful(d) /\ proc[d] \in ProcState /\ proc[d].pc = "build"
      /\ UNCHANGED <<settings, currency, jobs, head, accepted, ledger, crashes>>
      /\ generations' = Append(generations, Built(c, "ready"))
      /\ proc' = [proc EXCEPT ![d].pc = "attach", ![d].generation = new]
  BY DEF DataInv, Typed, BeginDefaultGeneration, At
<1>2. /\ proc[d].job \in DOMAIN jobs /\ proc[d].type = "change"
      /\ proc[d].type = jobs[proc[d].job].type /\ c = jobs[proc[d].job].code
  BY <1>1 DEF Faithful, Working, WorksOn, Stages
<1>3. c \in Currencies
  BY <1>2 DEF DataInv, Sound
<1>4. /\ generations' \in Seq(GenerationRow) /\ DOMAIN generations' = DOMAIN generations \cup {new}
      /\ new \notin DOMAIN generations /\ new # 0 /\ new \in Nat
      /\ generations'[new].target = c /\ generations'[new].status = "ready"
      /\ \A g \in DOMAIN generations : generations'[g] = generations[g]
  BY <1>1, <1>3, BuiltEffect
<1>5. /\ Moves(d) /\ proc'[d].pc = "attach" /\ proc'[d].generation = new
      /\ proc'[d].type = proc[d].type /\ proc'[d].code = c /\ proc'[d].job = proc[d].job
  <2> DEFINE r == [proc[d] EXCEPT !.pc = "attach", !.generation = new]
  <2>1. r \in ProcState /\ r.pc = "attach" /\ r.generation = new /\ r.type = proc[d].type
        /\ r.code = c /\ r.job = proc[d].job
    BY <1>1, <1>4 DEF ProcState, Places
  <2>2. Become(d, r)
    BY <1>1 DEF Become
  <2> HIDE DEF r
  <2> QED BY <1>1, <2>1, <2>2, BecomeMoves
<1>6. NothingTakenBack
  BY <1>1, <1>4 DEF NothingTakenBack
<1>7. Faithful(d)'
  <2>1. BuiltFor(proc[d].generation, proc[d].code)'
    BY <1>4, <1>5 DEF BuiltFor
  <2> QED BY <1>1, <1>2, <1>4, <1>5, <2>1 DEF Faithful, Working, WorksOn, Stages
<1>8. DefaultIsActiveTarget'
  <2>1. head \in DOMAIN generations /\ DefaultIsActiveTarget
    BY DEF DataInv, Typed
  <2> QED BY <1>1, <1>4, <2>1 DEF DefaultIsActiveTarget
<1>9. Typed'
  BY <1>1, <1>4, <1>5 DEF Typed, Moves
<1> QED BY <1>1, <1>5, <1>6, <1>7, <1>8, <1>9, JobsKept, OthersStayFaithful DEF DataInv

\* The settings a switch of the default writes.
SettingsOf(c, setup) ==
    /\ settings' \in [default : Currencies, setup : BOOLEAN, revision : Nat, disclosure : BOOLEAN]
    /\ settings'.default = c /\ settings'.setup = setup

LEMMA SettingsWritten ==
    ASSUME Typed, NEW c \in Currencies, NEW setup \in BOOLEAN, NEW revision \in Nat,
           settings' = [settings EXCEPT !.default = c, !.setup = setup, !.revision = revision]
    PROVE  SettingsOf(c, setup)
BY DEF Typed, SettingsOf

\* activate_default_generation: head, active generation and settings move together, and
\* the change has had its effect.
LEMMA ActivateDefaultGenerationKeeps ==
    ASSUME DataInv, UNCHANGED imported, NEW d \in Procs, ActivateDefaultGeneration(d)
    PROVE  DataInv'
<1> DEFINE new == proc[d].generation
           c == proc[d].code
<1>1. Typed /\ Faithful(d) /\ proc[d].pc = "activate" /\ Goto(d, "mark")
      /\ UNCHANGED <<currency, jobs, accepted, ledger, crashes>>
      /\ generations' = Activated(generations, new) /\ head' = new
      /\ settings' = [settings EXCEPT !.default = c, !.revision = @ + 1]
  BY DEF DataInv, ActivateDefaultGeneration, ActivateGeneration, At
<1>2. /\ proc[d].job \in DOMAIN jobs /\ proc[d].type = "change"
      /\ proc[d].type = jobs[proc[d].job].type /\ c = jobs[proc[d].job].code
      /\ new \in DOMAIN generations /\ generations[new].target = c
  BY <1>1 DEF Faithful, Working, WorksOn, Stages, BuiltFor
<1>3. c \in Currencies /\ generations \in Seq(GenerationRow) /\ head \in DOMAIN generations
  BY <1>1, <1>2 DEF DataInv, Sound, Typed
<1>4. /\ generations' \in Seq(GenerationRow) /\ DOMAIN generations' = DOMAIN generations
      /\ \A i \in DOMAIN generations :
            /\ generations'[i].target = generations[i].target
            /\ generations'[i].status =
                  IF i = new THEN "active" ELSE IF i = head THEN "superseded" ELSE generations[i].status
  BY <1>1, <1>2, <1>3, ActivatedEffect
<1>5. SettingsOf(c, settings.setup)
  <2>1. settings.revision + 1 \in Nat
    BY <1>1 DEF Typed
  <2> HIDE DEF c
  <2> QED BY <1>1, <1>3, <2>1, Zenon DEF Typed, SettingsOf
<1>6. /\ Moves(d) /\ proc'[d].pc = "mark"
      /\ proc'[d].type = proc[d].type /\ proc'[d].code = c
      /\ proc'[d].job = proc[d].job /\ proc'[d].generation = new
  BY <1>1, GotoMoves DEF Places
<1>7. NothingTakenBack
  BY <1>1, <1>4, <1>5 DEF NothingTakenBack, SettingsOf
<1>8. Faithful(d)'
  <2>1. BuiltFor(proc[d].generation, proc[d].code)'
    BY <1>2, <1>4, <1>6 DEF BuiltFor
  <2>2. Effect(proc[d].type, proc[d].code)'
    BY <1>2, <1>4, <1>6 DEF Effect
  <2> QED BY <1>1, <1>2, <1>6, <2>1, <2>2 DEF Faithful, Working, WorksOn, Stages, JobTypes
<1>9. DefaultIsActiveTarget'
  BY <1>1, <1>2, <1>4, <1>5 DEF DefaultIsActiveTarget, SettingsOf, DataInv
<1>10. Typed'
  BY <1>1, <1>2, <1>4, <1>5, <1>6 DEF Typed, Moves, SettingsOf
<1> QED BY <1>1, <1>6, <1>7, <1>8, <1>9, <1>10, JobsKept, OthersStayFaithful DEF DataInv

\* complete_initial_setup: done before, or everything in one transaction.
LEMMA CompleteInitialSetupKeeps ==
    ASSUME DataInv, UNCHANGED imported, NEW p \in Procs, CompleteInitialSetup(p)
    PROVE  DataInv'
<1> DEFINE c == proc[p].code
           built == Append(generations, Built(c, "ready"))
           new == Len(generations) + 1
<1>1. Typed /\ Faithful(p) /\ proc[p].pc = "setup"
      /\ UNCHANGED <<jobs, accepted, ledger, crashes>>
  BY DEF DataInv, CompleteInitialSetup, At
<1>2. /\ proc[p].job \in DOMAIN jobs /\ proc[p].type = "setup"
      /\ proc[p].type = jobs[proc[p].job].type /\ c = jobs[proc[p].job].code
      /\ BuiltFor(proc[p].generation, c)
  BY <1>1 DEF Faithful, Working, WorksOn, Stages
<1>3. /\ c \in Currencies /\ generations \in Seq(GenerationRow) /\ head \in DOMAIN generations
      /\ currency \in [Currencies -> {"absent", "enabled", "disabled"}]
      /\ DefaultIsActiveTarget
  BY <1>1, <1>2 DEF DataInv, Sound, Typed
<1>4. CASE settings.setup
  <2> DEFINE pc == IF settings.default = c THEN "mark" ELSE "fail"
  <2>1. Goto(p, pc) /\ UNCHANGED <<coreVars, crashes>>
    BY <1>1, <1>4 DEF CompleteInitialSetup, coreVars
  <2>2. pc \in Places
    BY DEF Places
  <2>3. /\ Moves(p) /\ proc'[p].pc = pc /\ proc'[p].type = "setup" /\ proc'[p].code = c
        /\ proc'[p].job = proc[p].job /\ proc'[p].generation = proc[p].generation
    BY <1>1, <1>2, <2>1, <2>2, GotoMoves
  <2>4. BuiltFor(proc[p].generation, proc[p].code)' /\ Effect(proc[p].type, proc[p].code)'
    BY <1>2, <1>4, <2>1, <2>3 DEF BuiltFor, Effect, coreVars
  <2>5. Faithful(p)'
    BY <1>2, <2>1, <2>3, <2>4 DEF Faithful, Working, WorksOn, Stages, JobTypes, coreVars
  <2> QED BY <1>1, <2>1, <2>3, <2>5, QuietStep DEF coreVars, Typed
<1>5. CASE ~settings.setup
  <2>1. Goto(p, "mark") /\ currency' = [currency EXCEPT ![c] = "enabled"]
    BY <1>5 DEF CompleteInitialSetup, Enable
  <2>2. /\ currency' \in [Currencies -> {"absent", "enabled", "disabled"}]
        /\ \A x \in Currencies : currency[x] # "absent" => currency'[x] # "absent"
    BY <1>3, <2>1
  <2>3. /\ Moves(p) /\ proc'[p].pc = "mark" /\ proc'[p].type = "setup" /\ proc'[p].code = c
        /\ proc'[p].job = proc[p].job /\ proc'[p].generation = proc[p].generation
    BY <1>1, <1>2, <2>1, GotoMoves DEF Places
  <2>4. /\ generations' \in Seq(GenerationRow) /\ head' \in DOMAIN generations'
        /\ SettingsOf(c, TRUE) /\ DefaultIsActiveTarget'
        /\ \A g \in DOMAIN generations :
              /\ g \in DOMAIN generations' /\ generations'[g].target = generations[g].target
              /\ generations[g].status # "ready" => generations'[g].status # "ready"
    <3>1. CASE generations[head].target = c
      <4>1. settings' = [settings EXCEPT !.default = c, !.setup = TRUE]
            /\ UNCHANGED <<generations, head>>
        BY <1>5, <3>1 DEF CompleteInitialSetup
      <4>2. SettingsOf(c, TRUE)
        <5>1. settings.revision \in Nat
          BY <1>1 DEF Typed
        <5>2. settings' = [settings EXCEPT !.default = c, !.setup = TRUE,
                                           !.revision = settings.revision]
          BY <1>1, <4>1 DEF Typed
        <5> QED BY <1>1, <1>3, <5>1, <5>2, SettingsWritten
      <4> QED BY <1>3, <3>1, <4>1, <4>2 DEF DefaultIsActiveTarget, SettingsOf
    <3>2. CASE generations[head].target # c
      <4>1. settings' = [settings EXCEPT !.default = c, !.setup = TRUE, !.revision = @ + 1]
            /\ generations' = Activated(built, Len(built)) /\ head' = Len(built)
        BY <1>5, <3>2 DEF CompleteInitialSetup
      <4>2. SettingsOf(c, TRUE)
        <5>1. settings.revision + 1 \in Nat
          BY <1>1 DEF Typed
        <5> QED BY <1>1, <1>3, <4>1, <5>1, SettingsWritten
      <4>3. /\ built \in Seq(GenerationRow) /\ DOMAIN built = DOMAIN generations \cup {new}
            /\ Len(built) = new /\ new \notin DOMAIN generations
            /\ built[new].target = c
            /\ \A g \in DOMAIN generations : built[g] = generations[g]
        BY <1>1, <1>3, BuiltEffect
      <4> HIDE DEF built, new
      <4>4. /\ generations' \in Seq(GenerationRow) /\ DOMAIN generations' = DOMAIN built
            /\ \A i \in DOMAIN built :
                  /\ generations'[i].target = built[i].target
                  /\ generations'[i].status =
                        IF i = new THEN "active" ELSE IF i = head THEN "superseded" ELSE built[i].status
        BY <4>1, <4>3, ActivatedEffect
      <4>5. DefaultIsActiveTarget'
        BY <1>3, <4>1, <4>2, <4>3, <4>4 DEF DefaultIsActiveTarget, SettingsOf
      <4> QED BY <1>3, <4>1, <4>2, <4>3, <4>4, <4>5
    <3> QED BY <3>1, <3>2
  <2>5. NothingTakenBack
    BY <1>1, <2>2, <2>4 DEF NothingTakenBack, SettingsOf
  <2>6. Faithful(p)'
    <3>1. BuiltFor(proc[p].generation, proc[p].code)' /\ Effect(proc[p].type, proc[p].code)'
      BY <1>2, <2>3, <2>4 DEF BuiltFor, Effect, SettingsOf
    <3> QED BY <1>1, <1>2, <2>3, <3>1 DEF Faithful, Working, WorksOn, Stages, JobTypes
  <2>7. Typed'
    BY <1>1, <2>2, <2>3, <2>4 DEF Typed, Moves, SettingsOf
  <2> QED BY <1>1, <2>3, <2>4, <2>5, <2>6, <2>7, JobsKept, OthersStayFaithful DEF DataInv
<1> QED BY <1>4, <1>5

\* create_transaction: a row more in the ledger and in the active generation.
LEMMA RecordTransactionKeeps ==
    ASSUME DataInv, UNCHANGED imported, NEW k \in Keys, RecordTransaction(k)
    PROVE  DataInv'
<1> DEFINE valued == [generations[head].valued EXCEPT ![k] = @ + 1]
<1>1. Typed /\ UNCHANGED <<settings, currency, jobs, head, accepted, proc, crashes>>
      /\ ledger' = [ledger EXCEPT ![k] = @ + 1]
      /\ generations' = [generations EXCEPT ![head].valued = valued]
  BY DEF DataInv, RecordTransaction
<1>2. valued \in [Keys -> Nat]
  <2>1. generations[head] \in GenerationRow
    BY <1>1 DEF Typed
  <2> QED BY <2>1 DEF GenerationRow
<1> HIDE DEF valued
<1>3. /\ generations' \in Seq(GenerationRow) /\ DOMAIN generations' = DOMAIN generations
      /\ \A g \in DOMAIN generations : /\ generations'[g].target = generations[g].target
                                       /\ generations'[g].status = generations[g].status
  BY <1>1, <1>2, RevaluedEffect
<1>4. NothingTakenBack
  BY <1>1, <1>3 DEF NothingTakenBack
<1>5. Typed'
  BY <1>1, <1>3 DEF Typed
<1>6. DefaultIsActiveTarget'
  BY <1>1, <1>3 DEF DataInv, Typed, DefaultIsActiveTarget
<1>7. \A q \in Procs : Faithful(q)'
  BY <1>1, <1>4, FaithfulStays DEF DataInv
<1> QED BY <1>1, <1>4, <1>5, <1>6, <1>7, JobsKept DEF DataInv

-----------------------------------------------------------------------------
(* Imports, drives handed over, refreshes and restarts.                        *)

\* A request that previews, or stores its preview, or takes one up to commit it, holds
\* nothing about a job but the preview's identity.
LEMMA PreviewReads ==
    ASSUME DataInv, StoredTokens, NEW u \in Clients, ImportRequest(u) \/ StorePreview(u)
    PROVE  DataInv'
<1>1. u \in Procs /\ Typed /\ accepted \in Nat
  BY DEF Procs, DataInv, Typed
<1>2. ASSUME NEW f \in Files, NEW confirm \in BOOLEAN, Preview(u, f, confirm) PROVE DataInv'
  <2> DEFINE rows == ImportableRows(f)
             prepare == CurrenciesToEnable(rows)
             r == [Idle EXCEPT !.type = "preview",
                      !.pc = IF confirm /\ ProviderCodes(prepare) # {} THEN "disclose" ELSE "insert"]
  <2>1. Become(u, r) /\ UNCHANGED <<coreVars, crashes, imported>>
    BY <1>2 DEF Preview
  <2>2. r \in ProcState /\ r.pc \in {"insert", "disclose"} /\ r.type = "preview" /\ r.generation = 0
    BY DEF Idle, ProcState, Places, JobTypes
  <2> HIDE DEF r
  <2>3. Moves(u) /\ proc'[u] = r
    BY <1>1, <2>1, <2>2, BecomeMoves
  <2>4. Faithful(u)'
    BY <1>1, <2>2, <2>3, AskingIsFaithful DEF JobTypes
  <2> QED BY <1>1, <2>1, <2>3, <2>4, QuietStep DEF coreVars
<1>3. ASSUME NEW t \in DOMAIN store, Commit(u, t) PROVE DataInv'
  <2> DEFINE r == [Idle EXCEPT !.pc = "commit", !.job = t]
  <2>1. Become(u, r) /\ UNCHANGED <<coreVars, crashes, imported>>
    BY <1>3 DEF Commit
  <2>2. r \in ProcState /\ r.pc = "commit"
    <3>1. t \in Nat
      BY <1>1, RunningJobRuns DEF StoredTokens
    <3> QED BY <3>1 DEF Idle, ProcState, Places
  <2> HIDE DEF r
  <2>3. Moves(u) /\ proc'[u] = r
    BY <1>1, <2>1, <2>2, BecomeMoves
  <2> QED BY <1>1, <2>1, <2>2, <2>3, LightIsFaithful, QuietStep DEF coreVars, Light
<1>4. CASE StorePreview(u)
  <2> DEFINE pc == IF ProviderCodes(draft[u].prepare) = {} THEN "previewDrive" ELSE "spawn"
  <2>1. Goto(u, pc) /\ UNCHANGED <<coreVars, crashes, imported>>
    BY <1>4 DEF StorePreview
  <2>2. pc \in Places /\ pc \in Light
    BY DEF Places, Light
  <2> HIDE DEF pc
  <2>3. Moves(u) /\ proc'[u].pc = pc
    BY <1>1, <2>1, <2>2, GotoMoves
  <2> QED BY <1>1, <2>1, <2>2, <2>3, LightIsFaithful, QuietStep DEF coreVars
<1> QED BY <1>2, <1>3, <1>4 DEF ImportRequest

\* A preview that is driven: the running job is one, and nothing is claimed of its success.
LEMMA PreviewIsDriven ==
    ASSUME DataInv, NEW p \in Procs, DriveRunningPreview(p) \/ ProvePreview(p)
    PROVE  DataInv'
<1>1. Typed /\ Faithful(p) /\ accepted \in Nat /\ proc[p] \in ProcState
      /\ UNCHANGED <<coreVars, crashes, imported>>
  BY DEF DataInv, Typed, DriveRunningPreview, ProvePreview
<1>2. CASE Finish(p)
  BY <1>1, <1>2, FinishMoves, QuietStep DEF coreVars
<1>3. CASE DriveRunningPreview(p) /\ ~Finish(p)
  <2> DEFINE j == RunningJob
             r == [Idle EXCEPT !.pc = "previewStage", !.type = "preview", !.job = j]
  <2>1. j # 0 /\ jobs[j].type = "preview" /\ Become(p, r)
    BY <1>3 DEF DriveRunningPreview
  <2>2. j \in DOMAIN jobs /\ j \in Nat
    BY <1>1, <2>1, RunningJobRuns
  <2>3. r \in ProcState /\ r.pc = "previewStage" /\ r.type = "preview" /\ r.job = j
    BY <2>2 DEF Idle, ProcState, Places, JobTypes
  <2>4. Moves(p) /\ proc'[p] = r
    BY <1>1, <2>1, <2>3, BecomeMoves
  <2>5. /\ proc'[p].pc = "previewStage" /\ proc'[p].type = "preview" /\ proc'[p].job = j
        /\ UNCHANGED jobs
    BY <1>1, <2>3, <2>4 DEF coreVars
  <2> HIDE DEF j, r
  <2>6. Faithful(p)'
    BY <2>1, <2>2, <2>5 DEF Faithful, Working, WorksOn, Stages
  <2> QED BY <1>1, <2>4, <2>6, QuietStep DEF coreVars
<1>4. CASE ProvePreview(p) /\ ~Finish(p)
  <2> DEFINE pc == IF \A c \in ProviderCodes(store[proc[p].job].prepare) : Covered(c)
                   THEN "mark" ELSE "previewFail"
  <2>1. Goto(p, pc) /\ proc[p].pc = "previewProve"
    BY <1>4 DEF ProvePreview, At
  <2>2. pc \in {"mark", "previewFail"} /\ pc \in Places
    BY DEF Places
  <2> HIDE DEF pc
  <2>3. /\ Moves(p) /\ proc'[p].pc = pc
        /\ proc'[p].type = proc[p].type /\ proc'[p].code = proc[p].code
        /\ proc'[p].job = proc[p].job /\ proc'[p].generation = proc[p].generation
    BY <1>1, <2>1, <2>2, GotoMoves
  <2>4. proc[p].type = "preview" /\ proc[p].job \in DOMAIN jobs /\ proc[p].type = jobs[proc[p].job].type
    BY <1>1, <2>1 DEF Faithful, Working, WorksOn, Stages
  <2>5. Effect(proc[p].type, proc[p].code)'
    BY <2>3, <2>4 DEF Effect
  <2>6. Faithful(p)'
    BY <1>1, <2>2, <2>3, <2>4, <2>5 DEF Faithful, Working, WorksOn, Stages, JobTypes, coreVars
  <2> QED BY <1>1, <2>3, <2>6, QuietStep DEF coreVars
<1> QED BY <1>2, <1>3, <1>4

\* commit_bound_import: currencies, rows and their valuations in one transaction.
LEMMA CommitBoundImportKeeps ==
    ASSUME DataInv, NEW u \in Procs, CommitBoundImport(u)
    PROVE  DataInv'
<1> DEFINE rows == NewRows(draft[u].rows)
           add(f) == [k \in Keys |-> IF k \in rows THEN f[k] + 1 ELSE f[k]]
<1>1. Typed /\ accepted \in Nat /\ Finish(u) /\ UNCHANGED <<settings, jobs, head, accepted, crashes>>
  BY DEF DataInv, Typed, CommitBoundImport
<1>2. Moves(u) /\ Faithful(u)'
  BY <1>1, FinishMoves
<1>3. CASE UNCHANGED <<currency, ledger, imported, generations>>
  BY <1>1, <1>2, <1>3, QuietStep
<1>4. CASE ~UNCHANGED <<currency, ledger, imported, generations>>
  <2>1. /\ currency' = [c \in Currencies |->
                          IF c \in draft[u].prepare THEN "enabled" ELSE currency[c]]
        /\ ledger' = add(ledger) /\ imported' = add(imported)
        /\ generations' = [generations EXCEPT ![head].valued = add(generations[head].valued)]
    BY <1>4 DEF CommitBoundImport
  <2>2. ASSUME NEW f \in [Keys -> Nat] PROVE add(f) \in [Keys -> Nat]
    OBVIOUS
  <2>3. generations[head].valued \in [Keys -> Nat]
    <3>1. generations[head] \in GenerationRow
      BY <1>1 DEF Typed
    <3> QED BY <3>1 DEF GenerationRow
  <2> HIDE DEF add
  <2>4. add(generations[head].valued) \in [Keys -> Nat]
    BY <2>2, <2>3
  <2>5. /\ generations' \in Seq(GenerationRow) /\ DOMAIN generations' = DOMAIN generations
        /\ \A g \in DOMAIN generations : /\ generations'[g].target = generations[g].target
                                         /\ generations'[g].status = generations[g].status
    BY <1>1, <2>1, <2>4, RevaluedEffect
  <2>6. ledger' \in [Keys -> Nat] /\ imported' \in [Keys -> Nat]
    BY <1>1, <2>1, <2>2 DEF Typed
  <2>7. /\ currency' \in [Currencies -> {"absent", "enabled", "disabled"}]
        /\ \A c \in Currencies : currency[c] # "absent" => currency'[c] # "absent"
    BY <1>1, <2>1 DEF Typed
  <2>8. NothingTakenBack
    BY <1>1, <2>5, <2>7 DEF NothingTakenBack
  <2>9. Typed'
    BY <1>1, <1>2, <2>5, <2>6, <2>7 DEF Typed, Moves
  <2>10. DefaultIsActiveTarget'
    BY <1>1, <2>5 DEF DataInv, Typed, DefaultIsActiveTarget
  <2> QED BY <1>1, <1>2, <2>8, <2>9, <2>10, JobsKept, OthersStayFaithful DEF DataInv
<1> QED BY <1>3, <1>4

\* The handler hands over to a drive; neither holds anything.
LEMMA SpawnDriveKeeps ==
    ASSUME DataInv, UNCHANGED imported, NEW u \in Clients, NEW d \in Drives, SpawnDrive(u, d)
    PROVE  DataInv'
<1> DEFINE r == [Idle EXCEPT !.pc = "status"]
<1>1. Typed /\ proc' = [proc EXCEPT ![u] = Idle, ![d] = r] /\ UNCHANGED <<coreVars, crashes>>
  BY DEF DataInv, SpawnDrive
<1>2. Idle \in ProcState /\ Idle.pc = "idle" /\ r \in ProcState /\ r.pc = "status"
  BY DEF Idle, ProcState, Places
<1> HIDE DEF r
<1>3. /\ proc' \in [Procs -> ProcState]
      /\ \A q \in Procs : q # u /\ q # d => proc'[q] = proc[q]
      /\ proc'[u].pc \in Light /\ proc'[d].pc \in Light
  BY <1>1, <1>2 DEF Typed, Procs, Light
<1>4. NothingTakenBack
  BY <1>1 DEF NothingTakenBack, coreVars
<1>5. \A q \in Procs : Faithful(q)'
  BY <1>3, <1>4, FaithfulStays, LightIsFaithful DEF DataInv
<1>6. Typed' /\ DefaultIsActiveTarget'
  BY <1>1, <1>3 DEF DataInv, Typed, DefaultIsActiveTarget, coreVars
<1> QED BY <1>1, <1>4, <1>5, <1>6, JobsKept DEF DataInv, coreVars

\* After a restart nobody remembers anything; at most one drive will read again.
LEMMA RestartKeeps ==
    ASSUME DataInv, UNCHANGED imported, NEW d \in Drives, Restart(d)
    PROVE  DataInv'
<1> DEFINE r == [Idle EXCEPT !.pc = "status"]
<1>1. Typed /\ proc' = Adopted(d) /\ crashes' = crashes + 1 /\ UNCHANGED coreVars
  BY DEF DataInv, Restart
<1>2. Idle \in ProcState /\ Idle.pc = "idle" /\ r \in ProcState /\ r.pc = "status"
  BY DEF Idle, ProcState, Places
<1>3. proc' \in [Procs -> ProcState] /\ \A q \in Procs : proc'[q] \in {Idle, r}
  BY <1>1, <1>2 DEF Adopted
<1> HIDE DEF r
<1>4. \A q \in Procs : Faithful(q)'
  BY <1>2, <1>3, LightIsFaithful DEF Light
<1>5. NothingTakenBack
  BY <1>1 DEF NothingTakenBack, coreVars
<1>6. Typed' /\ DefaultIsActiveTarget'
  BY <1>1, <1>3 DEF DataInv, Typed, DefaultIsActiveTarget, coreVars
<1> QED BY <1>1, <1>4, <1>5, <1>6, JobsKept DEF DataInv, coreVars

\* A refresh of the supervisor only adds a set.
LEMMA SupervisorRefreshKeeps ==
    ASSUME DataInv, UNCHANGED imported, SupervisorRefresh
    PROVE  DataInv'
<1>1. Typed /\ accepted' = accepted + 1
      /\ UNCHANGED <<settings, currency, jobs, generations, head, ledger, proc, crashes>>
  BY DEF DataInv, SupervisorRefresh
<1>2. NothingTakenBack
  BY <1>1 DEF NothingTakenBack
<1>3. \A q \in Procs : Faithful(q)'
  BY <1>1, <1>2, FaithfulStays DEF DataInv
<1>4. Typed' /\ DefaultIsActiveTarget'
  BY <1>1 DEF DataInv, Typed, DefaultIsActiveTarget
<1> QED BY <1>1, <1>2, <1>3, <1>4, JobsKept DEF DataInv

-----------------------------------------------------------------------------
(* The invariant is inductive.                                                 *)

\* What a step of a request or a drive writes to the jobs: nothing, a status, a
\* generation, or a row more.
LEMMA JobsWritten ==
    ASSUME NEW p, Request(p) \/ Respond(p) \/ Drive(p) \/ ImportRequest(p) \/ ImportRespond(p)
                     \/ PreviewStep(p) \/ Restart(p)
    PROVE  \/ UNCHANGED jobs
           \/ \E j, status : UpdateRow(j, status)
           \/ \E j, g : jobs' = [jobs EXCEPT ![j].generation = g]
           \/ \E type, c : InsertRow(type, c)
<1>1. CASE Request(p) \/ ImportRequest(p) \/ Restart(p)
  BY <1>1, Zenon DEF Request, StartInitialSetup, StartDefaultCurrencyChange, DisableCurrency,
     StartCurrencyAddition, CancelCurrencyJob, ImportRequest, Preview, Commit, Restart, coreVars
<1>2. CASE Respond(p)
  BY <1>2, Zenon DEF Respond, AcceptProviderDisclosure, InsertJob, SpawnDrive, WriteDisabled,
     WriteCancelled, CompleteInitialSetup, FinishJob, coreVars
<1>3. CASE Drive(p)
  BY <1>3, Zenon DEF Drive, ReadStatus, RefreshRates, DriveRunningJob, WriteStage, CheckCancelled,
     ProveCoverage, EnableCurrency, BeginDefaultGeneration, AttachGeneration,
     ActivateDefaultGeneration, CompleteInitialSetup, FinishJob, coreVars
<1>4. CASE ImportRespond(p) \/ PreviewStep(p)
  BY <1>4, Zenon DEF ImportRespond, StorePreview, PreviewStep, DriveRunningPreview,
     WritePreviewStage, ProvePreview, FailPreview, CommitBoundImport, coreVars
<1> QED BY <1>1, <1>2, <1>3, <1>4

\* No step removes a job or changes its type ...
JobsGrown ==
    DOMAIN jobs \subseteq DOMAIN jobs' /\ \A k \in DOMAIN jobs : jobs'[k].type = jobs[k].type

LEMMA JobsGrow == Typed /\ [Next]_vars => JobsGrown
<1> SUFFICES ASSUME Typed, [Next]_vars PROVE JobsGrown
  OBVIOUS
<1> USE DEF JobsGrown
<1>1. jobs \in Seq(JobRow)
  BY DEF Typed
<1>2. \/ UNCHANGED jobs
      \/ \E p : Request(p) \/ Respond(p) \/ Drive(p) \/ ImportRequest(p) \/ ImportRespond(p)
                    \/ PreviewStep(p) \/ Restart(p)
  BY Zenon DEF Next, RestartForgets, RecordTransaction, SupervisorRefresh, vars, jobVars, coreVars
<1>3. ASSUME NEW type, NEW c, InsertRow(type, c) PROVE JobsGrown
  <2>1. jobs' = Append(jobs, NewJob(type, c))
    BY <1>3 DEF InsertRow
  <2> QED BY <1>1, <2>1
<1>4. \A k \in DOMAIN jobs : jobs[k] \in JobRow
  BY <1>1
<1>5. ASSUME NEW j, NEW status, UpdateRow(j, status) PROVE JobsGrown
  BY <1>4, <1>5 DEF UpdateRow, JobRow
<1>6. ASSUME NEW j, NEW g, jobs' = [jobs EXCEPT ![j].generation = g] PROVE JobsGrown
  BY <1>4, <1>6 DEF JobRow
<1>7. CASE UNCHANGED jobs
  BY <1>7
<1> QED BY <1>2, <1>3, <1>5, <1>6, <1>7, JobsWritten, Zenon

\* ... and a preview is stored under the identity of its own.
LEMMA StoredTokensStay == DataInv /\ StoredTokens /\ [Next]_vars => StoredTokens'
<1> SUFFICES ASSUME DataInv, StoredTokens, [Next]_vars PROVE StoredTokens'
  OBVIOUS
<1>1. DOMAIN jobs \subseteq DOMAIN jobs'
  BY JobsGrow DEF DataInv, JobsGrown
<1>2. ASSUME NEW u \in Clients, StorePreview(u) PROVE DOMAIN store' \subseteq DOMAIN jobs
  <2>1. proc[u].job \in DOMAIN jobs
    BY <1>2 DEF DataInv, Faithful, StorePreview, At, Working, Procs
  <2>2. DOMAIN store' = DOMAIN store \cup {proc[u].job}
    BY <1>2 DEF StorePreview
  <2> QED BY <2>1, <2>2 DEF StoredTokens
<1>3. ASSUME NEW u \in Clients, ImportRequest(u) PROVE DOMAIN store' \subseteq DOMAIN store
  BY <1>3 DEF ImportRequest, Preview, Commit, Pruned
<1>4. ASSUME NEW p, PreviewStep(p) PROVE DOMAIN store' \subseteq DOMAIN store
  BY <1>4 DEF PreviewStep, DriveRunningPreview, WritePreviewStage, ProvePreview, FailPreview,
     Abandon, Without
<1>5. ASSUME NEW u, CommitBoundImport(u) PROVE DOMAIN store' \subseteq DOMAIN store
  BY <1>5 DEF CommitBoundImport, Without
<1>6. ASSUME NEW d, RestartForgets(d) PROVE DOMAIN store' = {}
  BY <1>6 DEF RestartForgets
<1>7. CASE UNCHANGED store
  BY <1>1, <1>7 DEF StoredTokens
<1> QED BY <1>1, <1>2, <1>3, <1>4, <1>5, <1>6, <1>7
        DEF Next, ImportRespond, StoredTokens, importVars, vars

\* A database just created satisfies it.
LEMMA InitInv == ImportInit => DataInv /\ StoredTokens
<1> SUFFICES ASSUME ImportInit PROVE DataInv /\ StoredTokens
  OBVIOUS
<1> DEFINE first == [target |-> EUR, prior |-> Nil, status |-> "active", revision |-> 1,
                     valued |-> [k \in Keys |-> 0]]
<1>1. jobs = <<>> /\ generations = <<first>> /\ head = 1 /\ proc = [p \in Procs |-> Idle]
      /\ store = <<>>
  BY DEF ImportInit, Init
<1>2. first \in GenerationRow /\ first.target = EUR /\ first.status = "active"
  BY CurrencyAssumption DEF GenerationRow
<1> HIDE DEF first
<1>3. generations \in Seq(GenerationRow) /\ DOMAIN generations = {1} /\ generations[1] = first
  BY <1>1, <1>2
<1>4. jobs \in Seq(JobRow) /\ DOMAIN jobs = {}
  BY <1>1
<1>5. Idle \in ProcState /\ Idle.pc = "idle"
  BY DEF Idle, ProcState, Places
<1>6. settings \in [default : Currencies, setup : BOOLEAN, revision : Nat, disclosure : BOOLEAN]
      /\ settings.default = EUR
  <2>1. settings \in [default : {EUR}, setup : BOOLEAN, revision : {1}, disclosure : {FALSE}]
    BY DEF ImportInit, Init
  <2>2. {EUR} \subseteq Currencies /\ {1} \subseteq Nat /\ {FALSE} \subseteq BOOLEAN
    BY CurrencyAssumption
  <2> QED BY <2>1, <2>2, Zenon
<1>7. Typed
  BY <1>1, <1>3, <1>4, <1>5, <1>6, CurrencyAssumption DEF ImportInit, Init, Typed
<1>8. \A p \in Procs : Faithful(p)
  BY <1>1, <1>5 DEF Faithful, Working
<1>9. DefaultIsActiveTarget
  BY <1>1, <1>2, <1>3, <1>6 DEF DefaultIsActiveTarget
<1>10. StoredTokens
  BY <1>1 DEF StoredTokens
<1> QED BY <1>4, <1>7, <1>8, <1>9, <1>10 DEF DataInv, OneRunning, RunningJobs

\* Every step preserves it.
LEMMA NextKeeps == DataInv /\ StoredTokens /\ [Next]_vars => DataInv'
<1> SUFFICES ASSUME DataInv, StoredTokens, [Next]_vars PROVE DataInv'
  OBVIOUS
<1>1. Clients \subseteq Procs /\ Drives \subseteq Procs
  BY DEF Procs
<1>2. ASSUME NEW u \in Clients, Request(u), UNCHANGED importVars PROVE DataInv'
  BY <1>2, RequestKeeps DEF importVars
<1>3. ASSUME NEW u \in Clients, Respond(u), UNCHANGED importVars PROVE DataInv'
  BY <1>1, <1>3, AcceptProviderDisclosureKeeps, InsertJobKeeps, SpawnDriveKeeps,
     CurrencyWritesKeep, EndsKeep, CompleteInitialSetupKeeps DEF Respond, importVars
<1>4. ASSUME NEW d \in Drives, Drive(d), UNCHANGED importVars PROVE DataInv'
  BY <1>1, <1>4, DriveReads, StagesKeep, CurrencyWritesKeep, BeginDefaultGenerationKeeps,
     AttachGenerationKeeps, ActivateDefaultGenerationKeeps, CompleteInitialSetupKeeps, EndsKeep
     DEF Drive, importVars
<1>5. ASSUME NEW u \in Clients, ImportRequest(u) PROVE DataInv'
  BY <1>5, PreviewReads
<1>6. ASSUME NEW p \in Procs, PreviewStep(p) PROVE DataInv'
  <2>1. CASE DriveRunningPreview(p) \/ ProvePreview(p)
    BY <2>1, PreviewIsDriven
  <2>2. CASE WritePreviewStage(p)
    BY <2>2, StagesKeep DEF WritePreviewStage
  <2>3. CASE FailPreview(p)
    BY <2>3, EndsKeep DEF FailPreview
  <2> QED BY <1>6, <2>1, <2>2, <2>3 DEF PreviewStep
<1>7. ASSUME NEW u \in Clients, ImportRespond(u) PROVE DataInv'
  BY <1>1, <1>6, <1>7, PreviewReads, CommitBoundImportKeeps DEF ImportRespond
<1>8. ASSUME NEW d \in Drives, RestartForgets(d) PROVE DataInv'
  BY <1>8, RestartKeeps DEF RestartForgets
<1>9. CASE (\E k \in Keys : RecordTransaction(k) /\ UNCHANGED importVars)
           \/ (SupervisorRefresh /\ UNCHANGED importVars)
  BY <1>9, RecordTransactionKeeps, SupervisorRefreshKeeps DEF importVars
<1>10. CASE UNCHANGED vars
  <2>1. UNCHANGED <<settings, currency, jobs, generations, head, accepted, ledger, proc, crashes,
                    imported>>
    BY <1>10 DEF vars, jobVars, coreVars, importVars
  <2>2. NothingTakenBack
    BY <2>1 DEF NothingTakenBack
  <2>3. (\A q \in Procs : Faithful(q)') /\ Typed' /\ DefaultIsActiveTarget'
    BY <2>1, <2>2, FaithfulStays DEF DataInv, Typed, DefaultIsActiveTarget
  <2> QED BY <2>1, <2>2, <2>3, JobsKept DEF DataInv
<1> QED BY <1>1, <1>2, <1>3, <1>4, <1>5, <1>6, <1>7, <1>8, <1>9, <1>10 DEF Next

LEMMA DataInvariant == Spec => [](DataInv /\ StoredTokens)
BY InitInv, NextKeeps, StoredTokensStay, PTL DEF Spec

\* The default currency, the head and the one active generation name the same currency in
\* every reachable state (DefaultIsActiveTarget), however drives of one job overlap, jobs
\* are revived and cancelled, and restarts fall between the calls.
THEOREM DefaultFollowsHead == Spec => []DefaultIsActiveTarget
<1>1. DataInv => DefaultIsActiveTarget
  BY DEF DataInv
<1> QED BY <1>1, DataInvariant, PTL

\* A job that reports success has had its effect in every reachable state
\* (SucceededTookEffect): mark_job_succeeded is written unconditionally, by a process that
\* stands behind the effect and whose job and generation have not changed under it.
THEOREM SuccessHasItsEffect == Spec => []SucceededTookEffect
<1>1. DataInv => SucceededTookEffect
  BY DEF DataInv, Sound, Effect, SucceededTookEffect
<1> QED BY <1>1, DataInvariant, PTL

\* An import inserts no row the ledger holds at its commit (ImportsOnlyNewRows), and each of
\* its rows once: commit_bound_import filters the duplicates inside its transaction.
THEOREM OnlyNewRowsAreImported == Spec => ImportsOnlyNewRows
<1> DEFINE OnlyNew == \A k \in Keys : imported'[k] > imported[k] =>
                          ledger[k] = 0 /\ imported'[k] = imported[k] + 1
<1>1. ASSUME Typed, [Next]_vars PROVE OnlyNew
  <2>1. ledger \in [Keys -> Nat] /\ imported \in [Keys -> Nat]
    BY <1>1 DEF Typed
  <2>2. CASE UNCHANGED imported
    BY <2>1, <2>2
  <2>3. ASSUME NEW u \in Clients, CommitBoundImport(u), ~UNCHANGED imported PROVE OnlyNew
    <3> DEFINE rows == NewRows(draft[u].rows)
    <3>1. imported' = [k \in Keys |-> IF k \in rows THEN imported[k] + 1 ELSE imported[k]]
      BY <2>3 DEF CommitBoundImport
    <3>2. \A k \in rows : k \in Keys => ~(ledger[k] > 0)
      BY DEF NewRows, ExistingKeys
    <3> QED BY <2>1, <3>1, <3>2
  <2>4. UNCHANGED imported \/ \E u \in Clients : CommitBoundImport(u)
    BY <1>1, Zenon DEF Next, importVars, vars, ImportRequest, Preview, Commit, PreviewStep,
       DriveRunningPreview, WritePreviewStage, ProvePreview, FailPreview, ImportRespond,
       StorePreview, RestartForgets
  <2> QED BY <2>2, <2>3, <2>4
<1>2. DataInv /\ [Next]_vars => [OnlyNew]_vars
  BY <1>1 DEF DataInv
<1> QED BY <1>2, DataInvariant, PTL DEF Spec, ImportsOnlyNewRows

-----------------------------------------------------------------------------
(* Whoever drives a running job.                                               *)

\* A step of process p alone, as far as the places go.
Alone(p) == \A q \in Procs \ {p} : proc'[q] = proc[q]

\* Places from which no job is driven.
Bystander == {"idle", "insert", "disclose", "disable", "cancel", "commit"}

LEMMA BystandersDriveNothing ==
    ASSUME NEW p, proc[p].pc \in Bystander, NEW j PROVE ~Driver(j, p)
BY DEF Driver, Bystander

\* A running job stays driven over a step of p if p drives what it made run, and goes on
\* driving what it drove, or there is a forgotten preview to blame.
LEMMA StaysDriven ==
    ASSUME RunningJobIsDriven, JobsGrown, NEW p \in Procs, Alone(p),
           \A k \in RunningJobs' : k \in RunningJobs \/ Driver(k, p)',
           \A k \in RunningJobs' : k \in RunningJobs /\ Driver(k, p) =>
               Driver(k, p)' \/ (jobs[k].type = "preview" /\ k \notin DOMAIN store'),
           \A k \in DOMAIN store' : k \in DOMAIN store \/ Driver(k, p)'
    PROVE  RunningJobIsDriven'
<1> SUFFICES ASSUME NEW k \in RunningJobs',
                    ~(jobs'[k].type = "preview" /\ k \notin DOMAIN store')
             PROVE  \E q \in Procs : Driver(k, q)'
  BY DEF RunningJobIsDriven
<1>1. CASE Driver(k, p)'
  BY <1>1
<1>2. CASE ~Driver(k, p)'
  <2>1. k \in RunningJobs /\ k \in DOMAIN jobs /\ jobs'[k].type = jobs[k].type
    BY <1>2 DEF RunningJobs, JobsGrown
  <2>2. ~(jobs[k].type = "preview" /\ k \notin DOMAIN store)
    BY <1>2, <2>1
  <2>3. PICK q \in Procs : Driver(k, q)
    BY <2>1, <2>2 DEF RunningJobIsDriven
  <2>4. q # p
    BY <1>2, <2>1, <2>3
  <2>5. proc'[q] = proc[q]
    BY <2>4 DEF Alone
  <2>6. Driver(k, q)'
    BY <2>1, <2>3, <2>5 DEF Driver
  <2> QED BY <2>6
<1> QED BY <1>1, <1>2

\* Bystanders that write no job and store no preview change nothing about it.
LEMMA BystandersStep ==
    ASSUME RunningJobIsDriven, JobsGrown, NEW p \in Procs, Alone(p), proc[p].pc \in Bystander,
           UNCHANGED jobs, DOMAIN store' \subseteq DOMAIN store
    PROVE  RunningJobIsDriven'
<1>1. RunningJobs' = RunningJobs
  BY DEF RunningJobs
<1> QED BY <1>1, BystandersDriveNothing, StaysDriven

\* Writing the status of a job decides whether it runs, and nothing about the others.
LEMMA RunningAfterUpdate ==
    ASSUME Typed, NEW j \in DOMAIN jobs, NEW status \in Statuses, UpdateRow(j, status)
    PROVE  RunningJobs' = IF status = "running" THEN RunningJobs \cup {j} ELSE RunningJobs \ {j}
<1>1. /\ DOMAIN jobs' = DOMAIN jobs /\ jobs'[j].status = status
      /\ \A k \in DOMAIN jobs : k # j => jobs'[k] = jobs[k]
  BY UpdateRowEffect
<1> QED BY <1>1 DEF RunningJobs

\* Requests are bystanders until they have inserted their job.
LEMMA RequestsDrive ==
    ASSUME DataInv, RunningJobIsDriven, JobsGrown, NEW u \in Clients,
           \/ (Request(u) \/ AcceptProviderDisclosure(u) \/ WriteDisabled(u)) /\ UNCHANGED store
           \/ ImportRequest(u) \/ CommitBoundImport(u)
    PROVE  RunningJobIsDriven'
<1>1. u \in Procs /\ proc \in [Procs -> ProcState]
  BY DEF Procs, DataInv, Typed
<1>2. proc[u].pc \in Bystander
  BY DEF Bystander, At, Request, StartInitialSetup, StartCurrencyAddition,
     StartDefaultCurrencyChange, DisableCurrency, CancelCurrencyJob, AcceptProviderDisclosure,
     WriteDisabled, ImportRequest, Preview, Commit, CommitBoundImport
<1>3. UNCHANGED jobs
  BY Zenon DEF coreVars, Request, StartInitialSetup, StartCurrencyAddition,
     StartDefaultCurrencyChange, DisableCurrency, CancelCurrencyJob, AcceptProviderDisclosure,
     WriteDisabled, ImportRequest, Preview, Commit, CommitBoundImport
<1>4. DOMAIN store' \subseteq DOMAIN store
  BY ZenonT(40) DEF ImportRequest, Preview, Commit, CommitBoundImport, Pruned, Without
<1>5. \E r : proc' = [proc EXCEPT ![u] = r]
  <2>1. Request(u) => \E r : Become(u, r)
    BY DEF Request, StartInitialSetup, StartCurrencyAddition,
       StartDefaultCurrencyChange, DisableCurrency, CancelCurrencyJob
  <2>2. ImportRequest(u) => \E r : Become(u, r)
    BY DEF ImportRequest, Preview, Commit
  <2>3. AcceptProviderDisclosure(u) \/ WriteDisabled(u) \/ CommitBoundImport(u) => \E r : Become(u, r)
    BY DEF AcceptProviderDisclosure, WriteDisabled, CommitBoundImport, Finish, Goto, Become
  <2> QED BY <2>1, <2>2, <2>3 DEF Become
<1>6. Alone(u)
  BY <1>1, <1>5 DEF Alone
<1> QED BY <1>1, <1>2, <1>3, <1>4, <1>6, BystandersStep

\* Whoever works on a job drives that one and no other, and goes on with it until it is over
\* or forgotten.
LEMMA WorkerStep ==
    ASSUME RunningJobIsDriven, JobsGrown, NEW p \in Procs, Alone(p),
           proc[p].pc \in Working \ {"store"}, DOMAIN store' \subseteq DOMAIN store,
           RunningJobs' \subseteq RunningJobs \cup {proc[p].job},
           \/ proc'[p].pc \in Working /\ proc'[p].job = proc[p].job
           \/ proc[p].job \notin RunningJobs'
           \/ /\ RunningJobs' \subseteq RunningJobs
              /\ jobs[proc[p].job].type = "preview" /\ proc[p].job \notin DOMAIN store'
    PROVE  RunningJobIsDriven'
<1>1. ASSUME NEW k, Driver(k, p) PROVE k = proc[p].job
  BY <1>1 DEF Driver, Working
<1>2. ASSUME NEW k, proc'[p].pc \in Working, proc'[p].job = k PROVE Driver(k, p)'
  BY <1>2 DEF Driver, Working
<1>3. CASE proc'[p].pc \in Working /\ proc'[p].job = proc[p].job
  <2>1. \A k : k = proc[p].job => Driver(k, p)'
    BY <1>2, <1>3
  <2> QED BY <1>1, <2>1, StaysDriven
<1>4. CASE proc[p].job \notin RunningJobs'
  <2>1. \A k \in RunningJobs' : k \in RunningJobs /\ ~Driver(k, p)
    BY <1>1, <1>4
  <2> QED BY <2>1, StaysDriven
<1>5. CASE /\ RunningJobs' \subseteq RunningJobs
           /\ jobs[proc[p].job].type = "preview" /\ proc[p].job \notin DOMAIN store'
  BY <1>1, <1>5, StaysDriven
<1> QED BY <1>3, <1>4, <1>5

\* The drive's stages, and the end of a job.
LEMMA StagesDrive ==
    ASSUME DataInv, RunningJobIsDriven, JobsGrown, NEW p \in Procs,
           \/ \/ WriteStage(p) \/ CheckCancelled(p) \/ ProveCoverage(p) \/ EnableCurrency(p)
              \/ BeginDefaultGeneration(p) \/ AttachGeneration(p) \/ ActivateDefaultGeneration(p)
              \/ CompleteInitialSetup(p) \/ FinishJob(p)
           \/ WritePreviewStage(p) \/ ProvePreview(p) \/ FailPreview(p),
           DOMAIN store' \subseteq DOMAIN store
    PROVE  RunningJobIsDriven'
<1> DEFINE j == proc[p].job
<1>1. Typed /\ Faithful(p) /\ OneRunning /\ proc \in [Procs -> ProcState]
  BY DEF DataInv, Typed
<1>2. proc[p].pc \in Working \ {"store"}
  BY DEF Working, At, WriteStage, CheckCancelled, ProveCoverage, EnableCurrency,
     BeginDefaultGeneration, AttachGeneration, ActivateDefaultGeneration, CompleteInitialSetup,
     FinishJob, WritePreviewStage, ProvePreview, FailPreview
<1>3. j \in DOMAIN jobs /\ proc[p].type = jobs[j].type
  BY <1>1, <1>2 DEF Faithful
<1>4. Alone(p)
  BY <1>1, Zenon DEF Alone, Goto, Become, Finish, WriteStage, CheckCancelled, ProveCoverage,
     EnableCurrency, BeginDefaultGeneration, AttachGeneration, ActivateDefaultGeneration,
     CompleteInitialSetup, FinishJob, WritePreviewStage, ProvePreview, FailPreview
<1>5. UNCHANGED jobs => RunningJobs' = RunningJobs
  BY DEF RunningJobs
<1>6. ASSUME NEW pc \in Working, Goto(p, pc) PROVE proc'[p].pc \in Working /\ proc'[p].job = j
  BY <1>1, <1>6 DEF Goto, ProcState
<1>7. UpdateRefused(j, "running") => j \notin RunningJobs
  BY <1>1 DEF UpdateRefused, OneRunning
<1>8. CASE WriteStage(p) \/ WritePreviewStage(p)
  <2>1. CASE UpdateRow(j, "running")
    <3>1. RunningJobs' = RunningJobs \cup {j}
      BY <1>1, <1>3, <2>1, RunningAfterUpdate DEF Statuses
    <3>2. Goto(p, "check") \/ Goto(p, "previewProve") \/ (UNCHANGED jobs /\ UpdateRefused(j, "running"))
      BY <1>8 DEF WriteStage, WritePreviewStage
    <3>3. UNCHANGED jobs /\ UpdateRefused(j, "running") => FALSE
      BY <1>5, <1>7, <3>1
    <3> QED BY <1>2, <1>4, <1>6, <3>1, <3>2, <3>3, WorkerStep DEF Working
  <2>2. CASE ~UpdateRow(j, "running")
    <3>1. UNCHANGED jobs /\ UpdateRefused(j, "running")
      BY <1>8, <2>2 DEF WriteStage, WritePreviewStage
    <3> QED BY <1>2, <1>4, <1>5, <1>7, <3>1, WorkerStep
  <2> QED BY <2>1, <2>2
<1>9. CASE CheckCancelled(p)
  <2>1. Cancelled(j) => j \notin RunningJobs
    BY DEF Cancelled, RunningJobs
  <2>2. UNCHANGED jobs
    BY <1>9 DEF CheckCancelled, coreVars
  <2>3. Cancelled(j) \/ \E pc \in Working : Goto(p, pc)
    BY <1>9 DEF CheckCancelled, Working
  <2> QED BY <1>2, <1>4, <1>5, <1>6, <2>1, <2>2, <2>3, WorkerStep
<1>10. CASE ProveCoverage(p) \/ EnableCurrency(p) \/ ActivateDefaultGeneration(p)
            \/ CompleteInitialSetup(p)
  <2>1. UNCHANGED jobs
    BY <1>10, Zenon DEF ProveCoverage, EnableCurrency, ActivateDefaultGeneration,
       CompleteInitialSetup, coreVars
  <2>2. \E pc \in Working : Goto(p, pc)
    BY <1>10 DEF ProveCoverage, EnableCurrency, ActivateDefaultGeneration,
       CompleteInitialSetup, Working
  <2> QED BY <1>2, <1>4, <1>5, <1>6, <2>1, <2>2, WorkerStep
<1>11. CASE BeginDefaultGeneration(p)
  <2>1. UNCHANGED jobs
    BY <1>11 DEF BeginDefaultGeneration
  <2>2. proc'[p].pc = "attach" /\ proc'[p].job = j
    BY <1>1, <1>11 DEF BeginDefaultGeneration, ProcState
  <2> QED BY <1>2, <1>4, <1>5, <2>1, <2>2, WorkerStep DEF Working
<1>12. CASE AttachGeneration(p)
  <2>1. jobs' = [jobs EXCEPT ![j].generation = proc[p].generation] /\ Goto(p, "recheck")
    BY <1>12 DEF AttachGeneration
  <2>2. \A k \in DOMAIN jobs : jobs[k] \in JobRow
    BY <1>1 DEF Typed
  <2>3. RunningJobs' = RunningJobs
    BY <2>1, <2>2 DEF RunningJobs, JobRow
  <2> QED BY <1>2, <1>4, <1>6, <2>1, <2>3, WorkerStep DEF Working
<1>13. CASE FinishJob(p) \/ FailPreview(p)
  <2>1. PICK status \in {"succeeded", "failed"} : UpdateRow(j, status)
    BY <1>13 DEF FinishJob, FailPreview
  <2>2. RunningJobs' = RunningJobs \ {j}
    BY <1>1, <1>3, <2>1, RunningAfterUpdate DEF Statuses
  <2> QED BY <1>2, <1>4, <2>2, WorkerStep
<1>14. CASE ProvePreview(p)
  <2>1. UNCHANGED jobs /\ jobs[j].type = "preview"
    BY <1>1, <1>2, <1>3, <1>14 DEF ProvePreview, coreVars, Faithful, WorksOn, At, Stages
  <2>2. j \notin DOMAIN store \/ \E pc \in Working : Goto(p, pc)
    BY <1>14 DEF ProvePreview, Working
  <2> QED BY <1>2, <1>4, <1>5, <1>6, <2>1, <2>2, WorkerStep
<1> QED BY <1>8, <1>9, <1>10, <1>11, <1>12, <1>13, <1>14

\* insert_job drives the job it inserted; finish_cancelled leaves one job less to drive.
LEMMA InsertAndCancelDrive ==
    ASSUME DataInv, RunningJobIsDriven, JobsGrown, NEW u \in Clients,
           InsertJob(u) \/ WriteCancelled(u), UNCHANGED store
    PROVE  RunningJobIsDriven'
<1>1. u \in Procs /\ Typed /\ Faithful(u) /\ proc \in [Procs -> ProcState]
  BY DEF Procs, DataInv, Typed
<1>2. proc[u].pc \in Bystander
  BY DEF InsertJob, WriteCancelled, At, Bystander
<1>3. Alone(u)
  BY <1>1 DEF Alone, InsertJob, WriteCancelled, Finish, Become
<1>4. CASE WriteCancelled(u)
  <2>1. proc[u].job \in DOMAIN jobs
    BY <1>1, <1>4 DEF WriteCancelled, At, Faithful
  <2>2. RunningJobs' = RunningJobs \ {proc[u].job}
    BY <1>1, <1>4, <2>1, RunningAfterUpdate DEF WriteCancelled, Statuses
  <2> QED BY <1>1, <1>2, <1>3, <2>2, BystandersDriveNothing, StaysDriven
<1>5. CASE InsertJob(u) /\ InsertRow(proc[u].type, proc[u].code)
  <2> DEFINE new == Len(jobs) + 1
             pc == CASE proc[u].type = "setup" -> "setup"
                     [] proc[u].type = "preview" -> "store"
                     [] OTHER -> "spawn"
  <2>1. proc[u].type \in JobTypes /\ proc[u].code \in Currencies \cup {Nil}
    BY <1>1, <1>5 DEF InsertJob, At, Faithful, ProcState
  <2>2. /\ DOMAIN jobs' = DOMAIN jobs \cup {new} /\ jobs'[new].type = proc[u].type
        /\ \A k \in DOMAIN jobs : jobs'[k] = jobs[k]
    BY <1>1, <1>5, <2>1, InsertRowEffect
  <2>3. RunningJobs' \subseteq RunningJobs \cup {new}
    BY <2>2 DEF RunningJobs
  <2>4. proc' = [proc EXCEPT ![u].job = new, ![u].pc = pc]
    <3>1. RunningJobs = {}
      BY <1>5 DEF InsertRow
    <3> QED BY <1>5, <3>1 DEF InsertJob
  <2>5. proc'[u].job = new /\ proc'[u].pc = pc
    BY <1>1, <2>4 DEF ProcState
  <2>6. ASSUME NEW k \in RunningJobs', k = new PROVE Driver(k, u)'
    BY <2>1, <2>2, <2>5, <2>6 DEF Driver
  <2>7. \A k \in RunningJobs' : k \in RunningJobs \/ Driver(k, u)'
    BY <2>3, <2>6
  <2> QED BY <1>1, <1>2, <1>3, <2>7, BystandersDriveNothing, StaysDriven
<1>6. CASE UNCHANGED jobs
  BY <1>1, <1>2, <1>3, <1>6, BystandersStep
<1> QED BY <1>4, <1>5, <1>6 DEF InsertJob

\* A drive that has not settled on a job remembers none, except that a preview's own request
\* remembers that preview.
Roving == {"status", "refresh", "drive", "previewRefresh"}

Unsettled ==
    \A p \in Procs :
        /\ proc[p].pc \in Roving => proc[p].job = 0
        /\ proc[p].pc = "previewDrive" /\ proc[p].job # 0 =>
              proc[p].job \in DOMAIN jobs /\ jobs[proc[p].job].type = "preview"

\* Nobody comes to be unsettled but by being spawned, or by asking for the status.
LEMMA UnsettledStays ==
    ASSUME DataInv, Unsettled, JobsGrown, [Next]_vars
    PROVE  Unsettled'
<1> DEFINE Settled == {"idle", "insert", "disclose", "disable", "cancel", "commit", "spawn"} \cup Working
<1>1. Typed /\ proc \in [Procs -> ProcState] /\ Clients \subseteq Procs /\ Drives \subseteq Procs
  BY DEF DataInv, Typed, Procs
<1>2. ASSUME NEW p \in Procs, Alone(p),
             \/ proc'[p].pc \in Settled
             \/ proc'[p].job = 0
             \/ /\ proc'[p].pc = "previewDrive"
                /\ proc'[p].job \in DOMAIN jobs /\ jobs[proc'[p].job].type = "preview"
      PROVE  Unsettled'
  BY <1>2 DEF Unsettled, JobsGrown, Roving, Alone, Working
<1>3. ASSUME NEW p \in Procs, Finish(p) PROVE Unsettled'
  <2>1. Alone(p) /\ proc'[p].job = 0
    BY <1>1, <1>3 DEF Finish, Become, Alone, Idle
  <2> QED BY <1>2, <2>1
<1>4. ASSUME NEW p \in Procs, NEW pc, Goto(p, pc) 
      PROVE  Alone(p) /\ proc'[p].pc = pc /\ proc'[p].job = proc[p].job
  BY <1>1, <1>4 DEF Goto, ProcState, Alone
<1>5. ASSUME NEW p \in Procs, NEW pc \in Settled, Goto(p, pc) PROVE Unsettled'
  BY <1>2, <1>4, <1>5
<1>6. ASSUME NEW u \in Clients, Request(u) PROVE Unsettled'
  <2>1. \E r : Become(u, r)
    BY <1>6 DEF Request, StartInitialSetup, StartCurrencyAddition,
       StartDefaultCurrencyChange, DisableCurrency, CancelCurrencyJob
  <2>2. Alone(u)
    BY <1>1, <2>1 DEF Alone, Become
  <2>3. ASSUME NEW c, StartInitialSetup(u, c) PROVE proc'[u].pc \in {"insert", "mark", "setup"}
    BY <1>1, <2>3 DEF StartInitialSetup, Become, Idle
  <2>4. ASSUME NEW c, NEW confirm, StartCurrencyAddition(u, c, confirm)
        PROVE  proc'[u].pc \in {"spawn", "disclose", "insert"}
    BY <1>1, <2>4 DEF StartCurrencyAddition, Become, Idle
  <2>5. ASSUME NEW c, StartDefaultCurrencyChange(u, c) PROVE proc'[u].pc \in {"spawn", "insert"}
    BY <1>1, <2>5 DEF StartDefaultCurrencyChange, Become, Idle
  <2>6. ASSUME NEW c, DisableCurrency(u, c) PROVE proc'[u].pc = "disable"
    BY <1>1, <2>6 DEF DisableCurrency, Become, Idle
  <2>7. ASSUME NEW j, CancelCurrencyJob(u, j) PROVE proc'[u].pc = "cancel"
    BY <1>1, <2>7 DEF CancelCurrencyJob, Become, Idle
  <2>8. proc'[u].pc \in {"insert", "mark", "setup", "spawn", "disclose", "disable", "cancel"}
    BY <1>6, <2>3, <2>4, <2>5, <2>6, <2>7 DEF Request
  <2>9. proc'[u].pc \in Settled
    BY <2>8 DEF Working
  <2> QED BY <1>1, <1>2, <2>2, <2>9, Zenon
<1>7. ASSUME NEW u \in Clients, ImportRequest(u) PROVE Unsettled'
  <2>1. \E r : Become(u, r)
    BY <1>7 DEF ImportRequest, Preview, Commit
  <2>2. Alone(u)
    BY <1>1, <2>1 DEF Alone, Become
  <2>3. ASSUME NEW f, NEW confirm, Preview(u, f, confirm) PROVE proc'[u].pc \in {"disclose", "insert"}
    BY <1>1, <2>3 DEF Preview, Become, Idle
  <2>4. ASSUME NEW t, Commit(u, t) PROVE proc'[u].pc = "commit"
    BY <1>1, <2>4 DEF Commit, Become, Idle
  <2>5. proc'[u].pc \in Settled
    BY <1>7, <2>3, <2>4 DEF ImportRequest
  <2> QED BY <1>1, <1>2, <2>2, <2>5
<1>8. ASSUME NEW p \in Procs,
             \/ AcceptProviderDisclosure(p) \/ WriteDisabled(p) \/ WriteCancelled(p) \/ WriteStage(p)
             \/ CheckCancelled(p) \/ ProveCoverage(p) \/ EnableCurrency(p) \/ AttachGeneration(p)
             \/ ActivateDefaultGeneration(p) \/ CompleteInitialSetup(p) \/ FinishJob(p)
             \/ WritePreviewStage(p) \/ ProvePreview(p) \/ FailPreview(p) \/ CommitBoundImport(p)
      PROVE  Unsettled'
  <2>1. Finish(p) \/ \E pc \in Settled : Goto(p, pc)
    BY <1>8 DEF AcceptProviderDisclosure, WriteDisabled, WriteCancelled, WriteStage,
       CheckCancelled, ProveCoverage, EnableCurrency, AttachGeneration, ActivateDefaultGeneration,
       CompleteInitialSetup, FinishJob, WritePreviewStage, ProvePreview, FailPreview,
       CommitBoundImport, Working
  <2> QED BY <1>3, <1>5, <2>1
<1>9. ASSUME NEW p \in Procs, InsertJob(p) PROVE Unsettled'
  <2>1. CASE Finish(p)
    BY <1>3, <2>1
  <2>2. CASE ~Finish(p)
    <3>1. Alone(p)
      BY <1>1, <1>9, <2>2 DEF InsertJob, Alone
    <3>2. proc'[p].pc \in Settled
      BY <1>1, <1>9, <2>2 DEF InsertJob, ProcState, Working
    <3> QED BY <1>2, <3>1, <3>2
  <2> QED BY <2>1, <2>2
<1>10. ASSUME NEW p \in Procs, BeginDefaultGeneration(p) PROVE Unsettled'
  <2>1. Alone(p) /\ proc'[p].pc = "attach"
    BY <1>1, <1>10 DEF BeginDefaultGeneration, Alone, ProcState
  <2> QED BY <1>2, <2>1 DEF Working
<1>11. ASSUME NEW p \in Procs, ReadStatus(p) \/ RefreshRates(p) PROVE Unsettled'
  <2>1. \E pc : Goto(p, pc)
    BY <1>11 DEF ReadStatus, RefreshRates
  <2>2. proc[p].job = 0
    BY <1>11 DEF Unsettled, Roving, ReadStatus, RefreshRates, At
  <2> QED BY <1>2, <1>4, <2>1, <2>2
<1>12. ASSUME NEW p \in Procs, DriveRunningJob(p) \/ DriveRunningPreview(p) PROVE Unsettled'
  <2>1. CASE Finish(p)
    BY <1>3, <2>1
  <2>2. CASE ~Finish(p)
    <3>1. \E r : Become(p, r) /\ r.pc \in {"setup", "stage", "previewStage"}
      <4>1. CASE DriveRunningJob(p)
        BY <2>2, <4>1 DEF DriveRunningJob
      <4>2. CASE DriveRunningPreview(p)
        <5> DEFINE r == [Idle EXCEPT !.pc = "previewStage", !.type = "preview", !.job = RunningJob]
        <5>1. Become(p, r) /\ r.pc = "previewStage"
          BY <2>2, <4>2 DEF DriveRunningPreview, Idle
        <5> QED BY <5>1
      <4> QED BY <1>12, <4>1, <4>2
    <3>2. Alone(p) /\ proc'[p].pc \in {"setup", "stage", "previewStage"}
      BY <1>1, <3>1 DEF Become, Alone
    <3> QED BY <1>2, <3>2 DEF Working
  <2> QED BY <2>1, <2>2
<1>13. ASSUME NEW u \in Clients, StorePreview(u) PROVE Unsettled'
  <2>1. PICK pc \in {"previewDrive", "spawn"} : Goto(u, pc)
    BY <1>13 DEF StorePreview
  <2>2. proc[u].job \in DOMAIN jobs /\ jobs[proc[u].job].type = "preview"
    BY <1>1, <1>13 DEF StorePreview, At, DataInv, Faithful, Working, WorksOn, Stages
  <2> QED BY <1>1, <1>2, <1>4, <2>1, <2>2
<1>14. ASSUME NEW u \in Clients, NEW d \in Drives, SpawnDrive(u, d) PROVE Unsettled'
  <2>1. \A q \in Procs : proc'[q] = proc[q] \/ proc'[q].job = 0
    BY <1>1, <1>14 DEF SpawnDrive, Idle
  <2> QED BY <2>1 DEF Unsettled, JobsGrown
<1>15. ASSUME NEW d \in Drives, RestartForgets(d) PROVE Unsettled'
  <2>1. \A q \in Procs : proc'[q].job = 0
    BY <1>15 DEF RestartForgets, Restart, Adopted, Idle
  <2> QED BY <2>1 DEF Unsettled
<1>16. ASSUME UNCHANGED proc PROVE Unsettled'
  BY <1>16 DEF Unsettled, JobsGrown
<1> QED
  BY <1>1, <1>6, <1>7, <1>8, <1>9, <1>10, <1>11, <1>12, <1>13, <1>14, <1>15, <1>16, Zenon
     DEF Next, Respond, Drive, ImportRespond, PreviewStep, RecordTransaction, SupervisorRefresh,
         vars, jobVars

\* A drive before it has settled on a job stands for every job of its kind, and settles on
\* the one that runs.
LEMMA SettlingDrives ==
    ASSUME DataInv, Unsettled, RunningJobIsDriven, JobsGrown, NEW p \in Procs,
           \/ ReadStatus(p) \/ RefreshRates(p) \/ DriveRunningJob(p)
           \/ DriveRunningPreview(p),
           DOMAIN store' \subseteq DOMAIN store
    PROVE  RunningJobIsDriven'
<1>1. Typed /\ OneRunning /\ proc \in [Procs -> ProcState]
  BY DEF DataInv, Typed
<1>2. UNCHANGED jobs
  BY Zenon DEF ReadStatus, RefreshRates, DriveRunningJob, DriveRunningPreview, coreVars
<1>3. Alone(p)
  BY <1>1, Zenon DEF Alone, Goto, Become, Finish, ReadStatus, RefreshRates, DriveRunningJob,
     DriveRunningPreview
<1>4. RunningJobs' = RunningJobs
  BY <1>2 DEF RunningJobs
<1>5. SUFFICES ASSUME NEW k \in RunningJobs, Driver(k, p) PROVE Driver(k, p)'
  BY <1>3, <1>4, StaysDriven
<1>6. RunningJob = k /\ k # 0
  BY <1>1, RunningJobRuns DEF OneRunning
<1>7. CASE ReadStatus(p)
  <2>1. StatusJob = k
    BY <1>1, <1>6, StatusJobExists
  <2>2. CASE jobs[k].type = "preview"
    <3>1. proc'[p].pc = "previewRefresh"
      BY <1>1, <1>6, <1>7, <2>1, <2>2 DEF ReadStatus, Goto, ProcState
    <3> QED BY <1>2, <2>2, <3>1 DEF Driver
  <2>3. CASE jobs[k].type # "preview"
    <3>1. proc'[p].pc \in {"refresh", "drive"}
      BY <1>1, <1>6, <1>7, <2>1, <2>3 DEF ReadStatus, Goto, ProcState
    <3> QED BY <1>2, <2>3, <3>1 DEF Driver
  <2> QED BY <2>2, <2>3
<1>8. CASE RefreshRates(p)
  <2>1. CASE At(p, "refresh")
    <3>1. proc'[p].pc = "drive" /\ proc'[p].job = proc[p].job
      BY <1>1, <1>8, <2>1 DEF RefreshRates, Goto, ProcState
    <3> QED BY <1>2, <1>5, <2>1, <3>1 DEF Driver, At
  <2>2. CASE At(p, "previewRefresh")
    <3>1. proc'[p].pc = "previewDrive" /\ proc'[p].job = proc[p].job
      BY <1>1, <1>8, <2>2 DEF RefreshRates, Goto, ProcState, At
    <3> QED BY <1>2, <1>5, <2>2, <3>1 DEF Driver, At
  <2> QED BY <1>8, <2>1, <2>2 DEF RefreshRates, At
<1>9. CASE DriveRunningJob(p)
  <2>1. proc[p].job = 0
    BY <1>9 DEF Unsettled, DriveRunningJob, At, Roving
  <2>2. jobs[k].type # "preview"
    BY <1>5, <1>6, <1>9, <2>1 DEF Driver, DriveRunningJob, At
  <2>3. proc'[p].job = k /\ proc'[p].pc \in {"setup", "stage"}
    BY <1>1, <1>6, <1>9, <2>2 DEF DriveRunningJob, Become
  <2> QED BY <2>3 DEF Driver
<1>10. CASE DriveRunningPreview(p)
  <2>1. proc[p].pc = "previewDrive"
    BY <1>10 DEF DriveRunningPreview, At
  <2>2. jobs[k].type = "preview"
    BY <1>5, <1>6, <2>1 DEF Driver, Unsettled
  <2>3. proc'[p].job = k /\ proc'[p].pc = "previewStage"
    BY <1>1, <1>6, <1>10, <2>2 DEF DriveRunningPreview, Become, Idle
  <2> QED BY <2>3 DEF Driver
<1> QED BY <1>7, <1>8, <1>9, <1>10

\* Storing a preview: the request goes on to drive it, or to spawn a drive for it.
LEMMA StorePreviewDrives ==
    ASSUME DataInv, RunningJobIsDriven, JobsGrown, NEW u \in Clients, StorePreview(u)
    PROVE  RunningJobIsDriven'
<1>1. u \in Procs /\ Typed /\ Faithful(u) /\ proc \in [Procs -> ProcState] /\ proc[u].pc = "store"
  BY DEF Procs, DataInv, Typed, StorePreview, At
<1>2. proc[u].job \in DOMAIN jobs /\ jobs[proc[u].job].type = "preview"
  BY <1>1 DEF Faithful, Working, WorksOn, Stages
<1>3. UNCHANGED jobs /\ RunningJobs' = RunningJobs /\ DOMAIN store' = DOMAIN store \cup {proc[u].job}
  BY DEF StorePreview, coreVars, RunningJobs
<1>4. PICK pc \in {"previewDrive", "spawn"} : Goto(u, pc)
  BY DEF StorePreview
<1>5. Alone(u) /\ proc'[u].pc \in {"previewDrive", "spawn"}
  BY <1>1, <1>4 DEF Alone, Goto, ProcState
<1>6. ASSUME NEW k, jobs[k].type = "preview" PROVE Driver(k, u)'
  BY <1>3, <1>5, <1>6 DEF Driver
<1>7. ASSUME NEW k, Driver(k, u) PROVE jobs[k].type = "preview"
  BY <1>1, <1>2, <1>7 DEF Driver
<1> QED BY <1>1, <1>2, <1>3, <1>5, <1>6, <1>7, StaysDriven

\* A drive just spawned stands for every job: after a request, or after a restart that
\* finds one running.
LEMMA SpawnedDrives ==
    ASSUME DataInv, NEW d \in Drives,
           RestartForgets(d) \/ \E u \in Clients : SpawnDrive(u, d)
    PROVE  RunningJobIsDriven'
<1>1. d \in Procs /\ proc \in [Procs -> ProcState]
  BY DEF Procs, DataInv, Typed
<1>2. RunningJobs' = RunningJobs
  BY DEF SpawnDrive, RestartForgets, Restart, coreVars, RunningJobs
<1>3. RunningJobs # {} => proc'[d].pc = "status"
  BY <1>1 DEF SpawnDrive, RestartForgets, Restart, Adopted, Idle
<1> QED BY <1>1, <1>2, <1>3 DEF RunningJobIsDriven, Driver

\* A running job is driven in every state a step can reach.
LEMMA DrivenStays ==
    ASSUME DataInv, Unsettled, RunningJobIsDriven, [Next]_vars PROVE RunningJobIsDriven'
<1>1. JobsGrown /\ Clients \subseteq Procs /\ Drives \subseteq Procs
  BY JobsGrow DEF DataInv, Procs
<1>2. UNCHANGED importVars => DOMAIN store' \subseteq DOMAIN store
  BY DEF importVars
<1>3. ASSUME NEW u \in Clients, Request(u), UNCHANGED importVars PROVE RunningJobIsDriven'
  BY <1>1, <1>3, RequestsDrive DEF importVars
<1>4. ASSUME NEW u \in Clients, Respond(u), UNCHANGED importVars PROVE RunningJobIsDriven'
  BY <1>1, <1>2, <1>4, RequestsDrive, InsertAndCancelDrive, SpawnedDrives, StagesDrive
     DEF Respond, importVars
<1>5. ASSUME NEW p \in Procs, PreviewStep(p) PROVE RunningJobIsDriven'
  <2>1. DOMAIN store' \subseteq DOMAIN store
    BY <1>5 DEF PreviewStep, DriveRunningPreview, WritePreviewStage, ProvePreview, FailPreview,
       Abandon, Without
  <2> QED BY <1>1, <1>5, <2>1, SettlingDrives, StagesDrive DEF PreviewStep
<1>6. ASSUME NEW u \in Clients, ImportRequest(u) \/ ImportRespond(u) PROVE RunningJobIsDriven'
  BY <1>1, <1>5, <1>6, RequestsDrive, StorePreviewDrives DEF ImportRespond
<1>7. ASSUME NEW d \in Drives, Drive(d), UNCHANGED importVars PROVE RunningJobIsDriven'
  BY <1>1, <1>2, <1>7, SettlingDrives, StagesDrive DEF Drive
<1>8. ASSUME UNCHANGED <<jobs, proc, store>> PROVE RunningJobIsDriven'
  BY <1>8 DEF RunningJobIsDriven, RunningJobs, Driver
<1>9. ASSUME NEW k, RecordTransaction(k) \/ SupervisorRefresh, UNCHANGED importVars
      PROVE  RunningJobIsDriven'
  BY <1>8, <1>9 DEF RecordTransaction, SupervisorRefresh, importVars
<1>10. CASE UNCHANGED vars
  BY <1>8, <1>10 DEF vars, jobVars, coreVars, importVars
<1> QED
  BY <1>1, <1>3, <1>4, <1>5, <1>6, <1>7, <1>9, <1>10, SpawnedDrives DEF Next

\* A running job is driven in every reachable state, unless it is a preview the process
\* forgot when it ended (RunningJobIsDriven): through lost races for the one-running index,
\* cancelled and repeated drives, and restarts, which adopt what was left over.
THEOREM RunningJobsAreDriven == Spec => []RunningJobIsDriven
<1>1. ImportInit => RunningJobIsDriven /\ Unsettled
  <2> SUFFICES ASSUME ImportInit PROVE RunningJobIsDriven /\ Unsettled
    OBVIOUS
  <2>1. RunningJobs = {}
    BY DEF ImportInit, Init, RunningJobs
  <2>2. \A p \in Procs : proc[p] = Idle
    BY DEF ImportInit, Init
  <2> QED BY <2>1, <2>2 DEF RunningJobIsDriven, Unsettled, Roving, Idle
<1>2. DataInv /\ Unsettled /\ RunningJobIsDriven /\ [Next]_vars => (Unsettled /\ RunningJobIsDriven)'
  BY JobsGrow, UnsettledStays, DrivenStays DEF DataInv
<1> QED BY <1>1, <1>2, DataInvariant, PTL DEF Spec

=============================================================================
