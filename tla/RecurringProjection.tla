------------------------- MODULE RecurringProjection -------------------------
(***************************************************************************)
(* What the application says of occurrences not generated yet: the forecast *)
(* of a rolling window (recurring_transactions/projection), and the counts *)
(* a bulk command is confirmed with (bulk.rs, repair.rs). Both are read    *)
(* from the rows of RecurringOccurrences in one go and change nothing.     *)
(***************************************************************************)
EXTENDS RecurringOccurrences

CONSTANT Horizon    \* the months a forecast looks ahead

ASSUME ProjectionAssumption == Horizon \in Nat \ {0}

\* projection_window.
Through(observed) == AddMonthsClamped(observed, Horizon)

(***************************************************************************)
(* enumerate_projected_slots: from the head on, by the schedule revision   *)
(* that is open. The slots due by the observation use up the remaining     *)
(* count of a finite total first; what is left of it is projected up to    *)
(* the end of the window.                                                  *)
(***************************************************************************)
ProjectedLocal(s, open, ordinal) ==
    IF ordinal = heads[s].ordinal THEN heads[s].next
    ELSE ScheduledLocalAt(open.rule, open.first, ordinal)

\* Mutant: slots already due are not counted against the total.
WithinTotalForgettingDue(s, slots, observed, ordinal) ==
    sources[s].total = NoTotal
        \/ Cardinality({o \in DOMAIN slots : observed < slots[o] /\ o < ordinal})
             < sources[s].total - sources[s].count

WithinTotal(s, slots, observed, ordinal) ==
    sources[s].total = NoTotal
        \/ ordinal - heads[s].ordinal < sources[s].total - sources[s].count

\* The slots up to the window's end: every step of a schedule is a day or more.
ProjectedSlots(s, observed, through) ==
    LET open  == schedules[s][OpenSchedule(schedules[s])]
        slots == [o \in heads[s].ordinal .. heads[s].ordinal + through |->
                     ProjectedLocal(s, open, o)]
    IN  {slots[o] : o \in {p \in DOMAIN slots :
            /\ observed < slots[p] /\ slots[p] < through
            /\ WithinTotal(s, slots, observed, p)}}

\* compute_budget_projection: which sources are projected at all.
Projected(s) == sources[s].lifecycle = "active" /\ heads[s] # NoHead /\ Unresolved(s) = {}

Forecast(s, observed, through) ==
    IF Projected(s) THEN ProjectedSlots(s, observed, through) ELSE {}

-----------------------------------------------------------------------------
(***************************************************************************)
(* count_due_from_head and count_waiting_due_behind: how many slots from a *)
(* given ordinal on are due, taking the total for the last ordinal.        *)
(***************************************************************************)
DueFrom(s, ordinal, observed) ==
    {o \in ordinal .. ordinal + observed + 1 :
        /\ sources[s].total = NoTotal \/ o <= sources[s].total
        /\ SlotAt(schedules[s], OpenSchedule(schedules[s]), o) <= observed}

\* What a bulk pause, stop or delete is said to catch up with.
DueCatchUp(s, observed) ==
    IF heads[s] = NoHead THEN 0 ELSE Cardinality(DueFrom(s, heads[s].ordinal, observed))

\* Mutant: the slot that failed is counted as one waiting behind it.
WaitingWithFailed(s, observed) ==
    LET ordinals == {f.ordinal : f \in Unresolved(s)}
    IN  IF ordinals = {} THEN 0 ELSE Cardinality(DueFrom(s, Max(ordinals), observed))

\* What a failure is said to keep waiting.
Waiting(s, observed) ==
    LET ordinals == {f.ordinal : f \in Unresolved(s)}
    IN  IF ordinals = {} THEN 0 ELSE Cardinality(DueFrom(s, Max(ordinals) + 1, observed))

(***************************************************************************)
(* preflight_bulk: what the review shows of a selected item, by the        *)
(* revision the client read. Carrying it out is one command after another, *)
(* each of them as if issued alone.                                        *)
(***************************************************************************)
\* classify_lifecycle_eligibility, which also refuses what a single command
\* accepts of a blocked source.
LifecycleEligible(s, command) ==
    TransitionAllowed(sources[s].lifecycle, command) /\ ~GenerationBlocked(s)

\* classify_retry_eligibility: a failure waiting for its repair is not retried.
RetryEligible(s) == \E f \in Unresolved(s) : f.repairable => f.repaired

BulkEligible(s, operation, revision) ==
    /\ Visible(s) /\ sources[s].revision = revision
    /\ IF operation = "retry" THEN RetryEligible(s) ELSE LifecycleEligible(s, operation)

Preflight(s, operation, revision, observed) ==
    LET eligible == BulkEligible(s, operation, revision)
    IN  [eligible |-> eligible,
         due      |-> IF /\ eligible /\ RequiresCatchUp(operation)
                         /\ sources[s].lifecycle = "active"
                      THEN DueCatchUp(s, observed) ELSE 0,
         waiting  |-> IF eligible /\ operation = "retry" THEN Waiting(s, observed) ELSE 0]

-----------------------------------------------------------------------------
\* The step fulfils the slot at the head of an active source that had no
\* failure and is not being edited.
FulfilsHead(s) ==
    /\ Projected(s)
    /\ sources'[s].count = sources[s].count + 1
    /\ schedules'[s] = schedules[s]

\* The head is a slot of the open revision.
InOpenRevision(s) == heads[s].rev = OpenSchedule(schedules[s])

\* What was said comes true: generating the slot at the head leaves the
\* forecast as it was but for that slot, and brings the number announced by
\* the review of a stop down by one if the slot was due. A finite total is
\* shared between what is due and what is to come in the same way before and
\* after, also once a pause has skipped slots (enumerate.rs, "reserving finite
\* remaining count"); the number is exact without a total only.
CatchUpAsForecast ==
    [][\A s \in Sources : FulfilsHead(s) /\ InOpenRevision(s) =>
          LET due == Preflight(s, "stop", sources[s].revision, clock).due
              headIsDue == heads[s].next <= clock
          IN  /\ Forecast(s, clock, Through(clock))'
                   = Forecast(s, clock, Through(clock)) \ {heads[s].next}
              /\ sources[s].total = NoTotal =>
                   due = Preflight(s, "stop", sources[s].revision, clock)'.due
                           + (IF headIsDue THEN 1 ELSE 0)]_vars

\* The step fulfils the slot a failure had kept back.
FulfilsFailed(s) ==
    /\ heads[s] # NoHead /\ Unresolved(s) # {}
    /\ sources'[s].count = sources[s].count + 1

\* What a failure is said to keep waiting behind it is what is due as soon as
\* its slot is fulfilled, whatever the attempts between: the two numbers are
\* counted by two functions from two rows, the failure's and the head's.
WaitingComesDue ==
    [][\A s \in Sources : FulfilsFailed(s) /\ InOpenRevision(s)
                             /\ sources[s].total = NoTotal =>
          Waiting(s, clock) = DueCatchUp(s, clock)']_vars

=============================================================================
