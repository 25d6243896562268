-------------------------- MODULE RecurringSchedule --------------------------
(***************************************************************************)
(* The schedule arithmetic of recurring transactions                       *)
(* (crates/core/src/features/recurring_transactions/schedule.rs).          *)
(*                                                                         *)
(* Local time is a day number counted from the first day of month 0; the   *)
(* time of day is carried through unchanged by the code and is left out.   *)
(* The calendar keeps what the code depends on: months of two lengths that *)
(* alternate, so that an anchor day may be missing from a month, and years *)
(* of a fixed number of months.                                            *)
(***************************************************************************)
EXTENDS Integers, FiniteSetsExt

CONSTANTS LongMonth,      \* days of the months 0, 2, 4, ...
          ShortMonth,     \* days of the months 1, 3, 5, ...
          DaysPerWeek,
          MonthsPerYear

ASSUME CalendarAssumption ==
    /\ LongMonth \in Nat \ {0}
    /\ ShortMonth \in 1..LongMonth
    /\ DaysPerWeek \in Nat \ {0}
    /\ MonthsPerYear \in Nat \ {0}

TwoMonths == LongMonth + ShortMonth

DaysIn(month)   == IF month % 2 = 0 THEN LongMonth ELSE ShortMonth
FirstDay(month) == (month \div 2) * TwoMonths + (month % 2) * LongMonth

MonthOf(local) == 2 * (local \div TwoMonths)
                    + (IF local % TwoMonths < LongMonth THEN 0 ELSE 1)
DayOf(local)   == local - FirstDay(MonthOf(local)) + 1

\* clamp_day: the day of the month, or the month's last valid day.
ClampDay(month, day) == FirstDay(month) + Min({day, DaysIn(month)}) - 1

AddMonthsClamped(local, months) ==
    ClampDay(MonthOf(local) + months, DayOf(local))

-----------------------------------------------------------------------------
(***************************************************************************)
(* A schedule rule is [unit, n]: every n units, or day n of every month.   *)
(***************************************************************************)
IntervalUnits == {"day", "week", "month", "year"}

ScheduleRule == [unit : IntervalUnits \union {"monthlyDay"}, n : Nat \ {0}]

Every(n, unit)  == [unit |-> unit, n |-> n]
MonthlyDay(day) == [unit |-> "monthlyDay", n |-> day]

AdvanceInterval(first, unit, steps) ==
    CASE unit = "day"   -> first + steps
      [] unit = "week"  -> first + steps * DaysPerWeek
      [] unit = "month" -> AddMonthsClamped(first, steps)
      [] unit = "year"  -> AddMonthsClamped(first, steps * MonthsPerYear)

\* The local value of the 1-based occurrence ordinal.
ScheduledLocalAt(rule, first, ordinal) ==
    IF rule.unit = "monthlyDay"
    THEN ClampDay(MonthOf(first) + ordinal - 1, rule.n)
    ELSE AdvanceInterval(first, rule.unit, (ordinal - 1) * rule.n)

Past(local, observed) == local > observed

(***************************************************************************)
(* Where the loop of advance_head_past_observation stops: at the given     *)
(* slot when that is already past the observation, else at the first later *)
(* ordinal past it. Every step moves a day or more, so the search is over  *)
(* a bounded set. The loop's bound of 100000 steps is left out.            *)
(***************************************************************************)
AdvanceHeadPast(rule, first, ordinal, next, observed) ==
    IF Past(next, observed)
    THEN [ordinal |-> ordinal, next |-> next]
    ELSE LET slot(o) == ScheduledLocalAt(rule, first, o)
             landed  == Min({o \in ordinal + 1 .. ordinal + observed + 2 :
                                 Past(slot(o), observed)})
         IN  [ordinal |-> landed,
              next    |-> ScheduledLocalAt(rule, first, landed)]
=============================================================================
