------------------------- MODULE RecurringOccurrences -------------------------
(***************************************************************************)
(* Recurring transactions: how due occurrences become transactions while   *)
(* users edit, pause, resume, stop, delete, repair and adopt.              *)
(*                                                                         *)
(* The database is shared by the background supervisor and by the clients' *)
(* commands. Every write is one closure run by the single writer thread in *)
(* one immediate transaction (crates/db/src/write_actor.rs), so it is one  *)
(* action here. A command is not one transaction: it reads through the     *)
(* connection pool, decides, and writes later, and between its steps the   *)
(* other workers run. Those steps are the actions of this module; "pc" in  *)
(* a worker's command says which comes next. An error return leaves the    *)
(* database as it was and ends the command.                                *)
(*                                                                         *)
(* RecurringSchedule gives the calendar arithmetic.                        *)
(***************************************************************************)
EXTENDS RecurringSchedule, Sequences

CONSTANTS Sources,       \* ids of recurring transactions
          Clients,       \* concurrent user commands
          Supervisor,    \* the background processing task
          Categories,    \* ids of transaction categories
          NoCategory,    \* a template without a category
          Manual,        \* transactions entered by hand, which may be adopted
          Generated,     \* stands for a generated transaction's fresh id
          Drafts,        \* what create and adopt are asked for
          EditRules, EditNexts, EditTotals, EditDescriptions, EditCategories,
                         \* the values an edit may give each field
          Operations,    \* the commands clients issue
          MaxClock,      \* bound: the last day
          MaxRevision,   \* bound: no command starts on a source past it
          MaxFaults      \* bound: crashes, contention timeouts, clock set back

Workers == Clients \union {Supervisor}

LifecycleCommands == {"pause", "resume", "stop", "delete"}

NoTotal == 0    \* total_occurrences is NULL: an infinite recurrence
Forever == -1   \* effective_until_local is NULL: the open revision

Draft == [rule : ScheduleRule, first : Nat, total : Nat,
          description : STRING, category : Categories \union {NoCategory}]

ASSUME RecurringAssumption ==
    /\ Supervisor \notin Clients
    /\ NoCategory \notin Categories
    /\ Generated \notin Manual
    /\ Drafts \subseteq Draft
    /\ EditRules \subseteq ScheduleRule /\ EditNexts \subseteq Nat
    /\ EditTotals \subseteq Nat /\ EditDescriptions \subseteq STRING
    /\ EditCategories \subseteq Categories \union {NoCategory}
    /\ Operations \subseteq LifecycleCommands
                      \union {"create", "adopt", "update", "repair", "retry", "deleteCategory"}
    /\ MaxClock \in Nat /\ MaxRevision \in Nat /\ MaxFaults \in Nat

VARIABLES
    clock,        \* the device's local clock, as clock.sample() reads it
    sources,      \* recurring_transactions
    schedules,    \* recurring_schedule_revisions: a sequence per source
    templates,    \* recurring_template_revisions: a set per source
    heads,        \* recurring_occurrence_heads: the next slot to fulfill
    occurrences,  \* recurring_occurrences: the fulfilled slots
    failures,     \* recurring_generation_failures
    alerts,       \* domain_alerts of recurring transactions
    categories,   \* the transaction categories not deleted
    commands,     \* what each worker is in the middle of (lost in a crash)
    faults        \* faults so far

database == <<sources, schedules, templates, heads, occurrences, failures,
              alerts, categories>>
vars == <<clock, database, commands, faults>>

-----------------------------------------------------------------------------
(***************************************************************************)
(* Rows and what the queries find.                                         *)
(***************************************************************************)
NoSource == [lifecycle |-> "none", total |-> NoTotal, count |-> 0, revision |-> 0]
NoHead   == [rev |-> 0, ordinal |-> 0, next |-> 0]
Idle     == [pc |-> "idle"]

Identity(slot) == [rev |-> slot.rev, ordinal |-> slot.ordinal]

\* Mutant: ordinals counted from 0.
FirstSlotFromZero(rule, first) == ScheduledLocalAt(rule, first, 0)

\* The first slot of a schedule asked to start at first, normalised to the rule.
FirstSlot(rule, first) == ScheduledLocalAt(rule, first, 1)

Covers(revision, local) ==
    /\ revision.from <= local
    /\ revision.until = Forever \/ local < revision.until

\* find_open_schedule_revision and find_schedule_revision_at: the number of
\* the revision with the highest sequence; 0 for none.
OpenSchedule(revisions) ==
    Max({0} \union {i \in DOMAIN revisions : revisions[i].until = Forever})

ScheduleAt(revisions, local) ==
    Max({0} \union {i \in DOMAIN revisions : Covers(revisions[i], local)})

SlotAt(revisions, rev, ordinal) ==
    ScheduledLocalAt(revisions[rev].rule, revisions[rev].first, ordinal)

\* find_open_template_revision and find_template_revision_at.
Latest(segments) == CHOOSE t \in segments : \A u \in segments : u.sequence <= t.sequence

OpenTemplate(segments) == Latest({t \in segments : t.until = Forever})

TemplatesAt(segments, local) == {t \in segments : Covers(t, local)}

Visible(s) == sources[s].lifecycle \notin {"none", "tombstoned"}

Unresolved(s) == {f \in failures[s] : ~f.resolved}

\* Mutant: a repaired failure keeps blocking.
BlockedWhileUnresolved(s) == Unresolved(s) # {}

\* An unresolved failure not yet repaired keeps the source from processing.
GenerationBlocked(s) == \E f \in Unresolved(s) : ~f.repaired

\* find_next_eligible_due_head, without its order.
Eligible(s, observed) ==
    /\ heads[s] # NoHead
    /\ heads[s].next <= observed
    /\ sources[s].lifecycle = "active"
    /\ ~GenerationBlocked(s)

\* Its order: the earliest slot first; equal slots in an order of random ids.
NextDue(observed) ==
    {s \in Sources : /\ Eligible(s, observed)
                     /\ \A t \in Sources :
                          Eligible(t, observed) => heads[s].next <= heads[t].next}

-----------------------------------------------------------------------------
(***************************************************************************)
(* complete_or_advance_after_fulfillment and its plan: the source and the  *)
(* head after the occurrence of (rev, ordinal) became number count.        *)
(***************************************************************************)
Completes(total, count) == total # NoTotal /\ count >= total

\* Mutant: the count is not written.
FulfilledSourceUncounted(source, count) ==
    [source EXCEPT !.revision = @ + 1,
                   !.lifecycle = IF Completes(source.total, count)
                                 THEN "completed" ELSE @]

FulfilledSource(source, count) ==
    [source EXCEPT !.count = count,
                   !.revision = @ + 1,
                   !.lifecycle = IF Completes(source.total, count)
                                 THEN "completed" ELSE @]

\* Mutant: the head stays on the slot just fulfilled.
NextHeadStuck(revisions, rev, ordinal) ==
    [rev |-> rev, ordinal |-> ordinal, next |-> SlotAt(revisions, rev, ordinal)]

\* next_head_after_occurrence: stay in the revision unless the slot that
\* would follow belongs to another one, which then starts at its first slot.
NextHeadAfter(revisions, rev, ordinal) ==
    LET provisional == SlotAt(revisions, rev, ordinal + 1)
        at          == ScheduleAt(revisions, provisional)
        selected    == IF at = 0 THEN rev ELSE at
    IN  IF selected = rev
        THEN [rev |-> rev, ordinal |-> ordinal + 1, next |-> provisional]
        ELSE [rev |-> selected, ordinal |-> 1, next |-> SlotAt(revisions, selected, 1)]

\* Mutant: the last occurrence of a finite total leaves a head.
HeadAlwaysAdvances(total, count, revisions, rev, ordinal) ==
    NextHeadAfter(revisions, rev, ordinal)

HeadAfter(total, count, revisions, rev, ordinal) ==
    IF Completes(total, count) THEN NoHead ELSE NextHeadAfter(revisions, rev, ordinal)

-----------------------------------------------------------------------------
(***************************************************************************)
(* process_one_due_occurrence, run by a worker for a due source.           *)
(***************************************************************************)

\* prepare_generated_occurrence checks the head against the effective
\* schedule revision and, once a template is found, against the slot.
HeadIncoherent(s) ==
    \/ ScheduleAt(schedules[s], heads[s].next) # heads[s].rev
    \/ /\ TemplatesAt(templates[s], heads[s].next) # {}
       /\ SlotAt(schedules[s], heads[s].rev, heads[s].ordinal) # heads[s].next

TemplateMissing(s) == TemplatesAt(templates[s], heads[s].next) = {}

CategoryDeleted(s) ==
    Latest(TemplatesAt(templates[s], heads[s].next)).category
        \notin categories \union {NoCategory}

\* The occurrence cannot be generated and is to be parked as a failure.
CannotGenerate(s) == TemplateMissing(s) \/ CategoryDeleted(s)

\* recurring_generation_failures_open_unique: one unresolved failure a source.
AnotherUnresolved(s) ==
    \E f \in Unresolved(s) : Identity(f) # Identity(heads[s])

ExceedsTotal(s) ==
    sources[s].total # NoTotal /\ sources[s].count + 1 > sources[s].total

\* Every error return of the transaction: nothing is written.
ProcessingFails(s) ==
    \/ HeadIncoherent(s)
    \/ CannotGenerate(s) /\ AnotherUnresolved(s)
    \/ ~CannotGenerate(s) /\ ExceedsTotal(s)

AlertFor(kind, slot, open) ==
    [kind |-> kind, rev |-> slot.rev, ordinal |-> slot.ordinal, open |-> open]

\* failed(): park the occurrence; its alert is opened, or reopened. A failure
\* parked before keeps its first scheduled local.
Park(s) ==
    LET at == heads[s]
        earlier == {f \in failures[s] : Identity(f) = Identity(at)}
        parkedAt == IF earlier = {} THEN at.next ELSE (CHOOSE f \in earlier : TRUE).at
    IN  /\ failures' = [failures EXCEPT ![s] = (@ \ earlier) \union
              {[rev |-> at.rev, ordinal |-> at.ordinal, at |-> parkedAt,
                repairable |-> ~TemplateMissing(s),
                repaired |-> FALSE, resolved |-> FALSE]}]
        /\ alerts' = [alerts EXCEPT ![s] =
              (@ \ {AlertFor("failure", at, FALSE)}) \union {AlertFor("failure", at, TRUE)}]
        /\ UNCHANGED <<sources, schedules, templates, heads, occurrences, categories>>

\* Mutant: a repaired failure is forgotten.
OwnUnrepairedFailures(s) ==
    {f \in Unresolved(s) : Identity(f) = Identity(heads[s]) /\ ~f.repaired}

\* The failure the slot at the head is parked with, if any.
OwnFailures(s) == {f \in Unresolved(s) : Identity(f) = Identity(heads[s])}

\* Mutant: the failure's alert stays open.
FulfilledAlertsLeftOpen(rows, slot, hadFailure) ==
    rows \union {AlertFor("occurrence", slot, TRUE)}

\* The occurrence's alert is opened and that of its failure resolved.
FulfilledAlerts(rows, slot, hadFailure) ==
    IF hadFailure
    THEN (rows \ {AlertFor("failure", slot, TRUE)})
           \union {AlertFor("failure", slot, FALSE), AlertFor("occurrence", slot, TRUE)}
    ELSE rows \union {AlertFor("occurrence", slot, TRUE)}

\* fulfill_generated_occurrence: transaction, alert, occurrence, head, count
\* and the failure this slot may have had, in one transaction.
Fulfill(s) ==
    LET at    == heads[s]
        count == sources[s].count + 1
    IN  /\ occurrences' = [occurrences EXCEPT ![s] = @ \union
              {[rev |-> at.rev, ordinal |-> at.ordinal, at |-> at.next,
                position |-> count, transaction |-> Generated]}]
        /\ sources' = [sources EXCEPT ![s] = FulfilledSource(@, count)]
        /\ heads' = [heads EXCEPT ![s] =
              HeadAfter(sources[s].total, count, schedules[s], at.rev, at.ordinal)]
        /\ failures' = [failures EXCEPT ![s] = (@ \ OwnFailures(s))
              \union {[f EXCEPT !.resolved = TRUE] : f \in OwnFailures(s)}]
        /\ alerts' = [alerts EXCEPT ![s] =
              FulfilledAlerts(@, Identity(at), OwnFailures(s) # {})]
        /\ UNCHANGED <<schedules, templates, categories>>

\* heal_stale_head_after_existing_occurrence: the head still names a slot
\* that was fulfilled, as in a restored database. The count is raised first,
\* while the source is still active, so the table's CHECK refuses the last
\* position of a finite total and the whole transaction fails.
FulfilledAtHead(s) == {o \in occurrences[s] : Identity(o) = Identity(heads[s])}

CountLags(s, o) == sources[s].count < o.position

HealFails(s) ==
    \E o \in FulfilledAtHead(s) :
        \/ ScheduleAt(schedules[s], o.at) = 0
        \/ /\ CountLags(s, o)
           /\ Completes(sources[s].total, o.position)

Heal(s) ==
    \E o \in FulfilledAtHead(s) :
        LET lagging == CountLags(s, o)
            done    == Completes(sources[s].total, o.position)
        IN  /\ sources' = [sources EXCEPT
                  ![s].count     = IF lagging \/ done THEN o.position ELSE @,
                  ![s].revision  = IF lagging THEN @ + 1 ELSE @,
                  ![s].lifecycle = IF done THEN "completed" ELSE @]
            /\ heads' = [heads EXCEPT ![s] =
                  HeadAfter(sources[s].total, o.position, schedules[s],
                            ScheduleAt(schedules[s], o.at), o.ordinal)]
            /\ UNCHANGED <<schedules, templates, occurrences, failures, alerts, categories>>

-----------------------------------------------------------------------------
(***************************************************************************)
(* run_processing_slice: one worker's loop over process_one_due_occurrence *)
(* for one frozen observation. The supervisor and a retry run one slice,   *)
(* which its budget may end after any step; the catch-up of a lifecycle    *)
(* command starts another slice until none is due.                         *)
(***************************************************************************)
Pc(w) == commands[w].pc

Become(w, command) == commands' = [commands EXCEPT ![w] = command]

Slicing(observed) == [pc |-> "slice", observed |-> observed]

\* The supervisor wakes, or invoke_ordered_retry samples the clock.
BeginSlice(w) ==
    /\ \/ w = Supervisor /\ Pc(w) = "idle"
       \/ Pc(w) = "retry"
    /\ Become(w, Slicing(clock))
    /\ UNCHANGED <<clock, database, faults>>

ContinueOrExhaust(w) ==
    \/ UNCHANGED commands
    \/ Pc(w) = "slice" /\ Become(w, Idle)

\* The steps of the loop that find a due source, by what becomes of it.
Processing(w, s) ==
    /\ Pc(w) \in {"slice", "catchUp"}
    /\ s \in NextDue(commands[w].observed)

ProcessHeal(w, s) ==
    /\ Processing(w, s)
    /\ FulfilledAtHead(s) # {}
    /\ ~HealFails(s)
    /\ Heal(s)
    /\ ContinueOrExhaust(w)
    /\ UNCHANGED <<clock, faults>>

ProcessFulfill(w, s) ==
    /\ Processing(w, s)
    /\ FulfilledAtHead(s) = {}
    /\ ~ProcessingFails(s)
    /\ ~CannotGenerate(s)
    /\ Fulfill(s)
    /\ ContinueOrExhaust(w)
    /\ UNCHANGED <<clock, faults>>

ProcessPark(w, s) ==
    /\ Processing(w, s)
    /\ FulfilledAtHead(s) = {}
    /\ ~ProcessingFails(s)
    /\ CannotGenerate(s)
    /\ Park(s)
    /\ ContinueOrExhaust(w)
    /\ UNCHANGED <<clock, faults>>

\* One source's error ends the slice for every source, and the command.
ProcessError(w, s) ==
    /\ Processing(w, s)
    /\ IF FulfilledAtHead(s) # {} THEN HealFails(s) ELSE ProcessingFails(s)
    /\ Become(w, Idle)
    /\ UNCHANGED <<clock, database, faults>>

CaughtUp(w) ==
    /\ Pc(w) \in {"slice", "catchUp"}
    /\ NextDue(commands[w].observed) = {}
    /\ IF Pc(w) = "slice" THEN Become(w, Idle)
       ELSE Become(w, [commands[w] EXCEPT !.pc = "recheck"])
    /\ UNCHANGED <<clock, database, faults>>

-----------------------------------------------------------------------------
(***************************************************************************)
(* create and adopt.                                                       *)
(***************************************************************************)
Operating(w, operation) == w \in Clients /\ Pc(w) = "idle" /\ operation \in Operations

NewSchedule(draft, first) == [from |-> first, until |-> Forever, first |-> first,
                              rule |-> draft.rule]
NewTemplate(draft, first) == [sequence |-> 1, from |-> first, until |-> Forever,
                              description |-> draft.description,
                              category |-> draft.category]

\* create().
Create(w, s, draft) ==
    LET first == FirstSlot(draft.rule, draft.first)
    IN  /\ Operating(w, "create")
        /\ sources[s] = NoSource
        /\ sources' = [sources EXCEPT ![s] =
              [lifecycle |-> "active", total |-> draft.total, count |-> 0, revision |-> 1]]
        /\ schedules' = [schedules EXCEPT ![s] = <<NewSchedule(draft, first)>>]
        /\ templates' = [templates EXCEPT ![s] = {NewTemplate(draft, first)}]
        /\ heads' = [heads EXCEPT ![s] = [rev |-> 1, ordinal |-> 1, next |-> first]]
        /\ UNCHANGED <<clock, occurrences, failures, alerts, categories, commands, faults>>

\* Mutant: a transaction may be adopted again.
AdoptedNever == {}

Adopted == {o.transaction : o \in UNION {occurrences[s] : s \in Sources}} \ {Generated}

\* adopt_existing_transaction: the transaction's own date is slot 1, already
\* fulfilled; a slice follows.
Adopt(w, s, draft, transaction) ==
    LET revisions == <<NewSchedule(draft, draft.first)>>
        source == [lifecycle |-> "active", total |-> draft.total, count |-> 0,
                   revision |-> 1]
    IN  /\ Operating(w, "adopt")
        /\ sources[s] = NoSource
        /\ transaction \notin Adopted
        /\ sources' = [sources EXCEPT ![s] = FulfilledSource(source, 1)]
        /\ schedules' = [schedules EXCEPT ![s] = revisions]
        /\ templates' = [templates EXCEPT ![s] = {NewTemplate(draft, draft.first)}]
        /\ heads' = [heads EXCEPT ![s] = HeadAfter(draft.total, 1, revisions, 1, 1)]
        /\ occurrences' = [occurrences EXCEPT ![s] = 
              {[rev |-> 1, ordinal |-> 1, at |-> draft.first, position |-> 1,
                transaction |-> transaction]}]
        /\ Become(w, Slicing(clock))
        /\ UNCHANGED <<clock, failures, alerts, categories, faults>>

-----------------------------------------------------------------------------
(***************************************************************************)
(* update(): the client sends back the whole document it read, changed.    *)
(***************************************************************************)
CurrentNext(s) ==
    IF heads[s] # NoHead THEN heads[s].next
    ELSE schedules[s][OpenSchedule(schedules[s])].first

EditedDocuments(s) ==
    LET open     == schedules[s][OpenSchedule(schedules[s])]
        template == OpenTemplate(templates[s])
    IN  [rule        : {open.rule} \union EditRules,
         next        : {CurrentNext(s)} \union EditNexts,
         total       : {sources[s].total} \union EditTotals,
         description : {template.description} \union EditDescriptions,
         category    : {template.category} \union EditCategories]

DescriptionChanged(s, input) ==
    OpenTemplate(templates[s]).description # input.description

\* What of the document's configuration the edit changes.
ConfigurationChanges(s, input) ==
    {part \in {"schedule", "category", "count"} :
        CASE part = "schedule" ->
                \/ schedules[s][OpenSchedule(schedules[s])].rule # input.rule
                \/ CurrentNext(s) # input.next
          [] part = "category" -> OpenTemplate(templates[s]).category # input.category
          [] part = "count"    -> sources[s].total # input.total}

ConfigurationEditAllowed(s) ==
    sources[s].lifecycle \in {"active", "paused"} /\ Unresolved(s) = {}

\* validate_schedule, against the head if there is one and the observation.
ScheduleValid(s, input) ==
    input.next >= Max({clock, IF heads[s] # NoHead THEN heads[s].next ELSE clock})

\* update_inner up to the write: read, decide what applies, validate. An
\* edit that is stale, changes nothing or is refused has no effect at all.
BeginUpdate(w, s, input) ==
    LET changes == ConfigurationChanges(s, input)
        apply   == changes \union (IF DescriptionChanged(s, input)
                                   THEN {"description"} ELSE {})
    IN  /\ Operating(w, "update")
        /\ Visible(s) /\ sources[s].revision < MaxRevision
        /\ input.total = NoTotal \/ input.total >= sources[s].count
        /\ apply # {}
        /\ changes # {} => ConfigurationEditAllowed(s)
        /\ "schedule" \in changes => ScheduleValid(s, input)
        /\ Become(w, [pc |-> "update", source |-> s, revision |-> sources[s].revision,
                      observed |-> clock, input |-> input, apply |-> apply])
        /\ UNCHANGED <<clock, database, faults>>

\* apply_schedule_change: the open revision is replaced in place when the
\* new one would start no later, else closed where the new one starts.
RevisedSchedules(revisions, input) ==
    LET open  == OpenSchedule(revisions)
        added == [from |-> input.next, until |-> Forever,
                  first |-> FirstSlot(input.rule, input.next), rule |-> input.rule]
    IN  IF input.next <= revisions[open].from
        THEN [revisions EXCEPT ![open] = added]
        ELSE Append([revisions EXCEPT ![open].until = input.next], added)

\* Mutant: a head at the very start of the new revision stays in the old one.
RescheduledHeadIfLater(head, revisions, input) ==
    IF head # NoHead /\ head.next > input.next
    THEN [rev |-> OpenSchedule(revisions), ordinal |-> 1,
          next |-> FirstSlot(input.rule, input.next)]
    ELSE head

RescheduledHead(head, revisions, input) ==
    IF head # NoHead /\ head.next >= input.next
    THEN [rev |-> OpenSchedule(revisions), ordinal |-> 1, next |-> FirstSlot(input.rule, input.next)]
    ELSE head

\* apply_template_change, likewise, from the observation of the edit.
TemplateInPlace(open, observed) == observed <= open.from

RevisedTemplates(segments, input, observed) ==
    LET open   == OpenTemplate(segments)
        edited == [open EXCEPT !.description = input.description,
                               !.category = input.category]
    IN  (segments \ {open}) \union
            IF TemplateInPlace(open, observed) THEN {edited}
            ELSE {[open EXCEPT !.until = observed],
                  [edited EXCEPT !.sequence = @ + 1, !.from = observed]}

\* UNIQUE (recurring_transaction_id, sequence) of the template revisions.
SequenceTaken(segments, observed) ==
    LET open == OpenTemplate(segments)
    IN  /\ ~TemplateInPlace(open, observed)
        /\ \E t \in segments : t.sequence = open.sequence + 1

\* Mutant: no fence.
NeverStale(command) == FALSE

\* The write is for the revision that was read.
Stale(command) == sources[command.source].revision # command.revision

UpdateFails(command) ==
    \/ Stale(command)
    \/ /\ command.apply \intersect {"description", "category"} # {}
       /\ SequenceTaken(templates[command.source], command.observed)

\* Mutant: a total equal to the count does not complete.
CompletesByEditBelow(command) ==
    /\ "count" \in command.apply
    /\ command.input.total # NoTotal
    /\ command.input.total < sources[command.source].count

\* apply_count_change: the new total may be what is already fulfilled.
CompletesByEdit(command) ==
    /\ "count" \in command.apply
    /\ command.input.total # NoTotal
    /\ command.input.total = sources[command.source].count

CommitUpdate(w) ==
    LET command == commands[w]
        s       == command.source
        input   == command.input
        done    == CompletesByEdit(command)
        revisions == IF "schedule" \in command.apply
                     THEN RevisedSchedules(schedules[s], input) ELSE schedules[s]
    IN  /\ Pc(w) = "update"
        /\ ~UpdateFails(command)
        /\ schedules' = [schedules EXCEPT ![s] = revisions]
        /\ heads' = [heads EXCEPT ![s] =
              IF done THEN NoHead
              ELSE IF "schedule" \in command.apply
              THEN RescheduledHead(@, revisions, input) ELSE @]
        /\ templates' = [templates EXCEPT ![s] =
              IF command.apply \intersect {"description", "category"} # {}
              THEN RevisedTemplates(@, input, command.observed) ELSE @]
        /\ sources' = [sources EXCEPT
              ![s].total     = IF "count" \in command.apply THEN input.total ELSE @,
              ![s].lifecycle = IF done THEN "completed" ELSE @,
              ![s].revision  = @ + 1]
        /\ Become(w, Idle)
        /\ UNCHANGED <<clock, occurrences, failures, alerts, categories, faults>>

FailUpdate(w) ==
    /\ Pc(w) = "update"
    /\ UpdateFails(commands[w])
    /\ Become(w, Idle)
    /\ UNCHANGED <<clock, database, faults>>

-----------------------------------------------------------------------------
(***************************************************************************)
(* pause, resume, stop, delete (apply_lifecycle_status).                   *)
(***************************************************************************)
Target(operation) ==
    CASE operation = "pause"  -> "paused"
      [] operation = "resume" -> "active"
      [] operation = "stop"   -> "stopped"
      [] operation = "delete" -> "tombstoned"

\* Mutant: a stopped source can be resumed.
TransitionAllowedFromStopped(lifecycle, operation) ==
    \/ operation = "pause"  /\ lifecycle = "active"
    \/ operation = "resume" /\ lifecycle \in {"paused", "stopped"}
    \/ operation \in {"stop", "delete"} /\ lifecycle \in {"active", "paused"}

TransitionAllowed(lifecycle, operation) ==
    CASE operation = "pause"  -> lifecycle = "active"
      [] operation = "resume" -> lifecycle = "paused"
      [] operation = "stop"   -> lifecycle \in {"active", "paused"}
      [] operation = "delete" -> lifecycle \in {"active", "paused", "stopped", "completed"}

RequiresCatchUp(operation) == operation \in {"pause", "stop", "delete"}

\* Sample the clock, read and check. An active source that is to be left is
\* first caught up through the observation, with every other source.
BeginLifecycle(w, s, operation) ==
    LET lifecycle == sources[s].lifecycle
        leaves    == RequiresCatchUp(operation) /\ lifecycle \in {"active", "paused"}
    IN  /\ Operating(w, operation)
        /\ Visible(s) /\ sources[s].revision < MaxRevision
        /\ TransitionAllowed(lifecycle, operation)
        /\ leaves => ~GenerationBlocked(s)
        /\ Become(w, [pc |-> IF leaves /\ lifecycle = "active" THEN "catchUp" ELSE "reread",
                      operation |-> operation, source |-> s,
                      revision |-> sources[s].revision, observed |-> clock])
        /\ UNCHANGED <<clock, database, faults>>

\* After the catch-up: give up if the source is parked or still due.
StillDue(command) ==
    /\ heads[command.source] # NoHead
    /\ heads[command.source].next <= command.observed

Recheck(w) ==
    LET command == commands[w]
    IN  /\ Pc(w) = "recheck"
        /\ IF GenerationBlocked(command.source) \/ StillDue(command)
           THEN Become(w, Idle)
           ELSE Become(w, [command EXCEPT !.pc = "reread"])
        /\ UNCHANGED <<clock, database, faults>>

\* The catch-up moved the revision: commit against the one read now.
Reread(w) ==
    LET command == commands[w]
        current == sources[command.source]
    IN  /\ Pc(w) = "reread"
        /\ IF TransitionAllowed(current.lifecycle, command.operation)
           THEN Become(w, [command EXCEPT !.pc = "lifecycle",
                                          !.revision = current.revision])
           ELSE Become(w, Idle)
        /\ UNCHANGED <<clock, database, faults>>

\* Mutant: a resumption skips a single slot.
SkippedHeadByOne(head, revisions, observed) ==
    IF head = NoHead \/ head.next > observed THEN head
    ELSE NextHeadAfter(revisions, head.rev, head.ordinal)

\* skip_head_past_observation: the first slot past the observation, in the
\* revision that is in force there.
SkippedHead(head, revisions, observed) ==
    LET at(local, default) == IF ScheduleAt(revisions, local) = 0 THEN default
                              ELSE ScheduleAt(revisions, local)
        rev      == at(head.next, OpenSchedule(revisions))
        skip     == AdvanceHeadPast(revisions[rev].rule, revisions[rev].first,
                                    head.ordinal, head.next, observed)
        selected == at(skip.next, rev)
        again    == AdvanceHeadPast(revisions[selected].rule, revisions[selected].first,
                                    1, SlotAt(revisions, selected, 1), observed)
        landed   == IF selected = rev THEN skip ELSE again
    IN  IF head = NoHead \/ head.next > observed THEN head
        ELSE [rev |-> selected, ordinal |-> landed.ordinal, next |-> landed.next]

\* apply_lifecycle_command.
CommitLifecycle(w) ==
    LET command   == commands[w]
        s         == command.source
        operation == command.operation
    IN  /\ Pc(w) = "lifecycle"
        /\ ~Stale(command)
        /\ TransitionAllowed(sources[s].lifecycle, operation)
        /\ sources' = [sources EXCEPT ![s].lifecycle = Target(operation),
                                      ![s].revision = @ + 1]
        /\ heads' = [heads EXCEPT ![s] =
              CASE operation = "pause"  -> @
                [] operation = "resume" -> SkippedHead(@, schedules[s], command.observed)
                [] operation \in {"stop", "delete"} -> NoHead]
        /\ Become(w, Idle)
        /\ UNCHANGED <<clock, schedules, templates, occurrences, failures, alerts,
                       categories, faults>>

FailLifecycle(w) ==
    /\ Pc(w) = "lifecycle"
    /\ \/ Stale(commands[w])
       \/ ~TransitionAllowed(sources[commands[w].source].lifecycle, commands[w].operation)
    /\ Become(w, Idle)
    /\ UNCHANGED <<clock, database, faults>>

-----------------------------------------------------------------------------
(***************************************************************************)
(* repair and retry of a parked failure, and the deletion of a category    *)
(* that templates use.                                                     *)
(***************************************************************************)
BeginRepair(w, s, category) ==
    /\ Operating(w, "repair")
    /\ Visible(s) /\ sources[s].revision < MaxRevision
    /\ \E f \in Unresolved(s) : ~f.repaired /\ f.repairable
    /\ Become(w, [pc |-> "repair", source |-> s, revision |-> sources[s].revision,
                  category |-> category])
    /\ UNCHANGED <<clock, database, faults>>

\* The segments of the template not used up at the head.
Unfulfilled(segments, head) ==
    {t \in segments : t.until = Forever \/ t.until > head.next}

\* Give segments a category from the head on: those in split are cut at the
\* head and continued under new sequences, the others changed in place.
Recategorized(segments, affected, split, head, category) ==
    LET top     == Max({t.sequence : t \in segments})
        rank(t) == Cardinality({u \in split : u.sequence <= t.sequence})
    IN  (segments \ affected)
          \union {[t EXCEPT !.category = category] : t \in affected \ split}
          \union {[t EXCEPT !.until = head.next] : t \in split}
          \union {[t EXCEPT !.sequence = top + rank(t), !.from = head.next,
                            !.category = category] : t \in split}

RepairFails(command) ==
    LET s == command.source
    IN  \/ Stale(command)
        \/ command.category \notin categories \union {NoCategory}
        \/ heads[s] = NoHead
        \/ Unresolved(s) = {}

\* apply_generation_repair; an ordered retry follows.
CommitRepair(w) ==
    LET command  == commands[w]
        s        == command.source
        affected == Unfulfilled(templates[s], heads[s])
        split    == {t \in affected : t.from < heads[s].next
                                        /\ t # OpenTemplate(templates[s])}
    IN  /\ Pc(w) = "repair"
        /\ ~RepairFails(command)
        /\ templates' = [templates EXCEPT ![s] =
              Recategorized(@, affected, split, heads[s], command.category)]
        /\ failures' = [failures EXCEPT ![s] =
              {IF f.resolved THEN f ELSE [f EXCEPT !.repaired = TRUE] : f \in @}]
        /\ sources' = [sources EXCEPT ![s].revision = @ + 1]
        /\ Become(w, [pc |-> "retry"])
        /\ UNCHANGED <<clock, schedules, heads, occurrences, alerts, categories, faults>>

FailRepair(w) ==
    /\ Pc(w) = "repair"
    /\ RepairFails(commands[w])
    /\ Become(w, Idle)
    /\ UNCHANGED <<clock, database, faults>>

\* retry_generation_inner.
Retry(w, s) ==
    /\ Operating(w, "retry")
    /\ Visible(s)
    /\ \E f \in Unresolved(s) : f.repairable => f.repaired
    /\ Become(w, [pc |-> "retry"])
    /\ UNCHANGED <<clock, database, faults>>

\* uncategorize_unfulfilled, then the soft delete, in one transaction.
DeleteCategory(w, category) ==
    LET affected(s) == IF heads[s] = NoHead THEN {}
                       ELSE {t \in Unfulfilled(templates[s], heads[s]) :
                                t.category = category}
        split(s)    == {t \in affected(s) : t.from < heads[s].next}
    IN  /\ Operating(w, "deleteCategory")
        /\ category \in categories
        /\ categories' = categories \ {category}
        /\ templates' = [s \in Sources |->
              Recategorized(templates[s], affected(s), split(s), heads[s], NoCategory)]
        /\ sources' = [s \in Sources |->
              IF affected(s) = {} THEN sources[s]
              ELSE [sources[s] EXCEPT !.revision = @ + 1]]
        /\ UNCHANGED <<clock, schedules, heads, occurrences, failures, alerts,
                       commands, faults>>

-----------------------------------------------------------------------------
(***************************************************************************)
(* The environment.                                                        *)
(***************************************************************************)
Tick ==
    /\ clock < MaxClock
    /\ clock' = clock + 1
    /\ UNCHANGED <<database, commands, faults>>

Fault ==
    /\ faults < MaxFaults
    /\ faults' = faults + 1

\* The device's clock or time zone is set back.
SetClockBack ==
    /\ Fault
    /\ clock > 0
    /\ clock' = clock - 1
    /\ UNCHANGED <<database, commands>>

\* The process ends at any point: whatever was committed stays, also when
\* the reply was still on its way.
Crash ==
    /\ Fault
    /\ \E w \in Workers : Pc(w) # "idle"
    /\ commands' = [w \in Workers |-> Idle]
    /\ UNCHANGED <<clock, database>>

\* The database stays busy beyond the contention budget: the slice stops and
\* a catch-up gives its command up.
Contention(w) ==
    /\ Fault
    /\ Pc(w) \in {"slice", "catchUp"}
    /\ Become(w, Idle)
    /\ UNCHANGED <<clock, database>>

-----------------------------------------------------------------------------
Init ==
    /\ clock = 0
    /\ sources = [s \in Sources |-> NoSource]
    /\ schedules = [s \in Sources |-> <<>>]
    /\ templates = [s \in Sources |-> {}]
    /\ heads = [s \in Sources |-> NoHead]
    /\ occurrences = [s \in Sources |-> {}]
    /\ failures = [s \in Sources |-> {}]
    /\ alerts = [s \in Sources |-> {}]
    /\ categories = Categories
    /\ commands = [w \in Workers |-> Idle]
    /\ faults = 0

Process(w) ==
    \/ BeginSlice(w)
    \/ CaughtUp(w)
    \/ \E s \in Sources : \/ ProcessFulfill(w, s)
                          \/ ProcessPark(w, s)
                          \/ ProcessHeal(w, s)
                          \/ ProcessError(w, s)

\* The rest of a command once begun.
Proceed(w) ==
    \/ CommitUpdate(w) \/ FailUpdate(w)
    \/ Recheck(w) \/ Reread(w) \/ CommitLifecycle(w) \/ FailLifecycle(w)
    \/ CommitRepair(w) \/ FailRepair(w)

Begin(w) ==
    \/ \E s \in Sources :
         \/ \E draft \in Drafts :
              \/ Create(w, s, draft)
              \/ \E transaction \in Manual : Adopt(w, s, draft, transaction)
         \/ Visible(s) /\ \E input \in EditedDocuments(s) : BeginUpdate(w, s, input)
         \/ \E operation \in LifecycleCommands : BeginLifecycle(w, s, operation)
         \/ \E category \in Categories \union {NoCategory} : BeginRepair(w, s, category)
         \/ Retry(w, s)
    \/ \E category \in Categories : DeleteCategory(w, category)

Environment ==
    \/ Tick
    \/ SetClockBack
    \/ Crash
    \/ \E w \in Workers : Contention(w)

Next ==
    \/ \E w \in Workers : Process(w) \/ Proceed(w) \/ Begin(w)
    \/ Environment

Spec == Init /\ [][Next]_vars

-----------------------------------------------------------------------------
(***************************************************************************)
(* Types.                                                                  *)
(***************************************************************************)
Lifecycles == {"none", "active", "paused", "stopped", "completed", "tombstoned"}

SourceRow == [lifecycle : Lifecycles, total : Nat, count : Nat, revision : Nat]

ScheduleRow == [from : Nat, until : Nat \union {Forever}, first : Nat, rule : ScheduleRule]

TemplateRow == [sequence : Nat \ {0}, from : Nat, until : Nat \union {Forever},
                description : STRING, category : Categories \union {NoCategory}]

HeadRow == [rev : Nat, ordinal : Nat, next : Nat]

OccurrenceRow == [rev : Nat \ {0}, ordinal : Nat \ {0}, at : Nat,
                  position : Nat \ {0}, transaction : Manual \union {Generated}]

FailureRow == [rev : Nat \ {0}, ordinal : Nat \ {0}, at : Nat,
               repairable : BOOLEAN, repaired : BOOLEAN, resolved : BOOLEAN]

AlertRow == [kind : {"occurrence", "failure"}, rev : Nat \ {0}, ordinal : Nat \ {0},
             open : BOOLEAN]

Document == [rule : ScheduleRule, next : Nat, total : Nat,
             description : STRING, category : Categories \union {NoCategory}]

SliceCommand == [pc : {"slice"}, observed : Nat]

UpdateCommand ==
    [pc : {"update"}, source : Sources, revision : Nat, observed : Nat, input : Document,
     apply : SUBSET {"schedule", "count", "category", "description"}]

LifecycleCommand ==
    [pc : {"catchUp", "recheck", "reread", "lifecycle"}, operation : LifecycleCommands,
     source : Sources, revision : Nat, observed : Nat]

RepairCommand ==
    [pc : {"repair"}, source : Sources, revision : Nat,
     category : Categories \union {NoCategory}]

Command == [pc : {"idle", "retry"}] \union SliceCommand \union UpdateCommand
             \union LifecycleCommand \union RepairCommand

\* The rows, and what a command carries between its steps, have the types of
\* the tables' columns and CHECKs: sequences and ordinals count from 1 (0009 up.sql).
TypeOK ==
    /\ clock \in 0..MaxClock
    /\ sources \in [Sources -> SourceRow]
    /\ schedules \in [Sources -> Seq(ScheduleRow)]
    /\ templates \in [Sources -> SUBSET TemplateRow]
    /\ heads \in [Sources -> HeadRow]
    /\ occurrences \in [Sources -> SUBSET OccurrenceRow]
    /\ failures \in [Sources -> SUBSET FailureRow]
    /\ alerts \in [Sources -> SUBSET AlertRow]
    /\ categories \in SUBSET Categories
    /\ commands \in [Workers -> Command]
    /\ faults \in 0..MaxFaults

-----------------------------------------------------------------------------
(***************************************************************************)
(* What must hold.                                                         *)
(***************************************************************************)

\* Every slot is fulfilled at most once and the count is exact: the positions
\* of a source's occurrences are 1..fulfilled_count, one occurrence each, one
\* occurrence for each slot and one for each adopted transaction, whoever
\* processes, retries, adopts or crashes (fulfill.rs, adopt.rs).
ExactlyOnce ==
    \A s \in Sources :
        /\ \A o \in occurrences[s] : o.position \in 1..sources[s].count
        /\ \A p \in 1..sources[s].count : \E o \in occurrences[s] : o.position = p
        /\ \A o1, o2 \in occurrences[s] :
              o1.position = o2.position \/ Identity(o1) = Identity(o2) => o1 = o2

\* A transaction entered by hand becomes an occurrence of at most one
\* recurring transaction, whoever adopts it (adopt.rs).
OneOccurrencePerTransaction ==
    \A s1, s2 \in Sources : \A o1 \in occurrences[s1], o2 \in occurrences[s2] :
        o1.transaction = o2.transaction /\ o1.transaction # Generated
            => s1 = s2 /\ o1 = o2

\* A finite total is never exceeded and completes exactly when reached, also
\* when an edit changes it while occurrences are fulfilled: the CHECKs of the
\* recurring_transactions table are never what stops a writer (0009 up.sql).
FiniteTotalRespected ==
    \A s \in Sources : sources[s].total # NoTotal =>
        /\ sources[s].count <= sources[s].total
        /\ sources[s].lifecycle \in {"active", "paused"} => sources[s].count < sources[s].total
        /\ sources[s].lifecycle = "completed" => sources[s].count = sources[s].total

\* A source has a head exactly while it may still generate: no command leaves
\* a head behind for a source that ended, nor an open source without one.
HeadWhileOpen ==
    \A s \in Sources :
        heads[s] # NoHead <=> sources[s].lifecycle \in {"active", "paused"}

\* The head of an open source is a slot of the schedule revision in force at
\* it: the assertions of prepare_generated_occurrence, which on failing stop
\* the processing of every source, never fail.
HeadCoherent ==
    \A s \in Sources : heads[s] # NoHead => ~HeadIncoherent(s)

\* A generated occurrence has its alert, and a failure alert is open exactly
\* while its failure is unresolved (fulfill.rs, fulfill_prepare.rs).
AlertsAgree ==
    \A s \in Sources :
        /\ {Identity(o) : o \in {p \in occurrences[s] : p.transaction = Generated}}
             = {Identity(a) : a \in {b \in alerts[s] : b.kind = "occurrence"}}
        /\ {Identity(f) : f \in Unresolved(s)}
             = {Identity(a) : a \in {b \in alerts[s] : b.kind = "failure" /\ b.open}}

-----------------------------------------------------------------------------
\* A source that ended generates nothing more and can only be tombstoned;
\* its history is final.
EndIsFinal ==
    [][\A s \in Sources : sources[s].lifecycle \in {"stopped", "completed", "tombstoned"} =>
          /\ occurrences'[s] = occurrences[s]
          /\ sources'[s].lifecycle \in {sources[s].lifecycle, "tombstoned"}]_vars

\* The step is worker w's commit of a lifecycle command on s.
CommitsLifecycle(w, s) ==
    /\ commands[w].pc = "lifecycle" /\ commands[w].source = s
    /\ commands'[w].pc = "idle"
    /\ sources'[s] # sources[s]

\* Slots that fell due while paused are not generated after resumption: an
\* occurrence is never dated at or before the observation of a resumption
\* that came before it.
SkippedStaySkipped ==
    [][\A w \in Workers, s \in Sources :
          /\ CommitsLifecycle(w, s)
          /\ sources[s].lifecycle = "paused" /\ sources'[s].lifecycle = "active"
          => /\ heads'[s].next > commands[w].observed
             /\ schedules'[s] = schedules[s]
             /\ sources'[s].count = sources[s].count]_vars
-----------------------------------------------------------------------------
\* While s is parked, nothing of s was fulfilled at or after the failed slot,
\* and the head of s, if it still has one, is that slot.
ParkedFirst(s) ==
    \A f \in Unresolved(s) :
        /\ \A o \in occurrences[s] : o.at < f.at
        /\ heads[s] # NoHead => Identity(heads[s]) = Identity(f) /\ heads[s].next = f.at

\* The step is worker w's commit of an edit of the schedule of s, or of a
\* resumption of s, for the revision of s that w read.
CommitsHeadMove(w, s) ==
    /\ \/ commands[w].pc = "update" /\ "schedule" \in commands[w].apply
       \/ commands[w].pc = "lifecycle" /\ commands[w].operation = "resume"
    /\ commands[w].source = s
    /\ commands[w].revision = sources[s].revision
    /\ commands'[w].pc = "idle"

\* A parked slot is the next one until it is fulfilled (CONTEXT.md,
\* "Occurrence generation failure"), whoever processes, retries, repairs,
\* pauses or deletes categories, and however their steps interleave. Two
\* commits alone can pass it by: parking leaves the revision as it was, so
\* the fence stops neither an edit of the schedule decided before the parking,
\* nor a resumption after a pause decided before the parking.
PassedOnlyByHeadMoves ==
    [][\A s \in Sources : ParkedFirst(s) /\ ~ParkedFirst(s)' =>
          \E w \in Workers : CommitsHeadMove(w, s)]_vars
=============================================================================
