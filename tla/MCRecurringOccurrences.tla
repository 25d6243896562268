------------------------ MODULE MCRecurringOccurrences ------------------------
(***************************************************************************)
(* Instances of RecurringLedger for TLC. The calendar has months of 3 and 2 *)
(* days, weeks of 2 and years of 2 months.                                 *)
(***************************************************************************)
EXTENDS RecurringLedger, RecurringProjection, TLC

CONSTANTS s1, s2, c1, c2, food, rent, tx

Daily      == Every(1, "day")
DailyRule  == {Daily}
EveryOtherDay == {Every(2, "day")}
Monthly    == Every(1, "month")

NewDraft(rule, first, total, category) ==
    [rule |-> rule, first |-> first, total |-> total,
     description |-> "rent", category |-> category]

ClientSymmetry == Permutations(Clients)

\* Monthly on day 3, which every other month lacks; daily.
EditedFoodDrafts == {NewDraft(Monthly, 2, 3, NoCategory), NewDraft(Daily, 0, NoTotal, food)}
FiniteFoodDraft == {NewDraft(Daily, 0, 2, food)}

RacingCommands     == {"create", "update", "deleteCategory", "repair"} \union LifecycleCommands
Recovery           == {"create", "deleteCategory", "repair", "retry", "delete"}
EditsAndRecovery   == Recovery \union {"adopt", "update", "pause"}
LeaveAndRecovery   == {"create", "adopt", "pause", "deleteCategory", "repair", "retry"}

-----------------------------------------------------------------------------
(***************************************************************************)
(* The calendar's own account of a rule, day by day: which days are slots. *)
(* An anchor day missing from a month falls on the month's last day and    *)
(* comes back in the next month long enough (CONTEXT.md, "Calendar-clamped *)
(* occurrence").                                                           *)
(***************************************************************************)
EveryRule == {Every(n, unit) : n \in 1..2, unit \in IntervalUnits}
               \union {MonthlyDay(day) : day \in 1..LongMonth + 1}

FallsOn(local, day) == DayOf(local) = Min({day, DaysIn(MonthOf(local))})

IsSlot(rule, first, local) ==
    LET months == MonthOf(local) - MonthOf(first)
    IN  CASE rule.unit = "day"   -> (local - first) % rule.n = 0
          [] rule.unit = "week"  -> (local - first) % (rule.n * DaysPerWeek) = 0
          [] rule.unit = "month" -> months % rule.n = 0 /\ FallsOn(local, DayOf(first))
          [] rule.unit = "year"  -> months % (rule.n * MonthsPerYear) = 0
                                      /\ FallsOn(local, DayOf(first))
          [] rule.unit = "monthlyDay" -> FallsOn(local, rule.n)

\* The ordinals of a rule enumerate exactly its calendar slots: clamping never
\* repeats a slot, skips one or drifts from the anchor; and skipping a backlog
\* lands on the first slot past the observation (schedule.rs).
ASSUME SlotsFollowTheCalendar ==
    \A rule \in EveryRule, first \in 0..6 :
        LET slot(o) == ScheduledLocalAt(rule, first, o)
        IN  \A o \in 1..4 :
            /\ slot(o) < slot(o + 1)
            /\ {local \in slot(o)..slot(o + 1) : IsSlot(rule, first, local)} = {slot(o), slot(o + 1)}
            /\ \A observed \in 0..12 :
                 LET landed == AdvanceHeadPast(rule, first, o, slot(o), observed)
                 IN  /\ landed.next = slot(landed.ordinal) /\ landed.next > observed
                     /\ landed.ordinal > o => slot(landed.ordinal - 1) <= observed

(***************************************************************************)
(* A restored database (process_heal_tests.rs): an occurrence of source r  *)
(* was recorded, and the head and the count of r were not.                 *)
(***************************************************************************)
RestoredDraft == NewDraft(Daily, 0, NoTotal, NoCategory)

RestoredInit(r, total) ==
    LET of(value, default) == [s \in Sources |-> IF s = r THEN value ELSE default]
    IN  /\ clock = 0
        /\ sources = of([lifecycle |-> "active", total |-> total, count |-> 0,
                         revision |-> 1], NoSource)
        /\ schedules = of(<<NewSchedule(RestoredDraft, 0)>>, <<>>)
        /\ templates = of({NewTemplate(RestoredDraft, 0)}, {})
        /\ heads = of([rev |-> 1, ordinal |-> 1, next |-> 0], NoHead)
        /\ occurrences = of({[rev |-> 1, ordinal |-> 1, at |-> 0, position |-> 1,
                              transaction |-> Generated]}, {})
        /\ failures = of({}, {})
        /\ alerts = of({[kind |-> "occurrence", rev |-> 1, ordinal |-> 1,
                         open |-> TRUE]}, {})
        /\ categories = Categories
        /\ commands = [w \in Workers |-> Idle]
        /\ faults = 0

\* The application starts on an empty database or on a restored one.
StartedSpec ==
    /\ Init \/ \E total \in {1, 3} : RestoredInit(s1, total)
    /\ [][Next]_vars
    /\ Fairness
=============================================================================
