---------------------- MODULE RecurringOccurrencesProofs ----------------------
(***************************************************************************)
(* Recurring transactions for every number of sources, clients and         *)
(* categories, every calendar, every schedule and every draft and edit:    *)
(* the state keeps its types, every slot is fulfilled at most once and     *)
(* counted exactly, finite totals are respected, a source has a head       *)
(* exactly while it is open, an ended source is final, a resumption skips  *)
(* what fell due, and a transaction is adopted once.                       *)
(*                                                                         *)
(* None of these is inductive alone. The ledger's part of a source needs   *)
(* its histories to have an open revision and its head to name a slot of   *)
(* them (SourceSound); the edit of a total, decided in one step and        *)
(* written in another, needs that what was read still holds as long as the *)
(* revision it is fenced by has not moved (CommandSound).                  *)
(*                                                                         *)
(* First comes what the operators of RecurringSchedule and                 *)
(* RecurringOccurrences return, for every calendar and row. Of the         *)
(* calendar: slots are dates and move on with the ordinal, so the walk     *)
(* past an observation ends. Of the rows: the queries on revision          *)
(* histories find a row of the right kind, a head always names a slot of   *)
(* its source's history, and every way of rewriting a history leaves one   *)
(* with an open revision.                                                  *)
(*                                                                         *)
(* Then come the invariants, and last what rests on the order of the       *)
(* history: that RecurringOccurrences implements OccurrenceLedger, that a  *)
(* parked slot is not passed by, and that a forecast comes true.           *)
(***************************************************************************)
EXTENDS RecurringLedger, RecurringProjection, FiniteSetTheorems, SequenceTheorems, TLAPS

-----------------------------------------------------------------------------
(***************************************************************************)
(* Least and greatest numbers.                                             *)
(***************************************************************************)

\* The naturals are well-ordered: by the finite sets 0..x under inclusion.
LEMMA LeastNatural ==
    ASSUME NEW T, T \subseteq Nat, T # {}
    PROVE  \E x \in T : \A y \in T : x <= y
<1> DEFINE U == {0..x : x \in T}
<1>1. U \subseteq FiniteSubsetsOf(Nat)
  <2>1. SUFFICES ASSUME NEW x \in T PROVE 0..x \in FiniteSubsetsOf(Nat)
    OBVIOUS
  <2>2. x \in Int /\ 0..x \subseteq Nat
    OBVIOUS
  <2>3. IsFiniteSet(0..x)
    BY <2>2, FS_Interval
  <2> QED BY <2>2, <2>3 DEF FiniteSubsetsOf
<1>2. U # {}
    OBVIOUS
<1> HIDE DEF U
<1>3. PICK u \in U : \A v \in U : ~ (<<v, u>> \in StrictSubsetOrdering(Nat))
    BY <1>1, <1>2, WFMin, FS_StrictSubsetOrderingWellFounded, Zenon
<1>4. PICK x \in T : u = 0..x
    BY DEF U
<1>5. ASSUME NEW y \in T, y < x PROVE FALSE
  <2>1. 0..y \subseteq 0..x /\ 0..y # 0..x /\ 0..x \subseteq Nat
    BY <1>5
  <2>2. <<0..y, u>> \in StrictSubsetOrdering(Nat)
    BY <2>1, <1>4 DEF StrictSubsetOrdering
  <2> QED BY <1>3, <2>2 DEF U
<1> QED BY <1>4, <1>5

\* Min chooses the least element of a non-empty set of naturals.
LEMMA MinIsLeast ==
    ASSUME NEW T, T \subseteq Nat, T # {}
    PROVE  Min(T) \in T /\ \A y \in T : Min(T) <= y
BY LeastNatural DEF Min

\* Max chooses the greatest element of a non-empty bounded set of naturals.
LEMMA MaxIsGreatest ==
    ASSUME NEW T, T \subseteq Nat, T # {}, NEW b \in Nat, \A x \in T : x <= b
    PROVE  Max(T) \in T /\ \A y \in T : y <= Max(T)
<1> DEFINE C == {b - x : x \in T}
<1>1. C \subseteq Nat
  <2>1. ASSUME NEW x \in T PROVE b - x \in Nat
    BY x \in Nat, x <= b
  <2> QED BY <2>1
<1>2. C # {}
    OBVIOUS
<1>3. PICK c \in C : \A d \in C : c <= d
  <2> HIDE DEF C
  <2> QED BY <1>1, <1>2, LeastNatural
<1>4. PICK x \in T : c = b - x
    OBVIOUS
<1>5. \A y \in T : y <= x
    BY <1>3, <1>4
<1> QED BY <1>5 DEF Max

\* Min of a pair of numbers is the smaller one.
LEMMA MinOfTwo ==
    ASSUME NEW a \in Nat, NEW b \in Nat
    PROVE  Min({a, b}) = IF a <= b THEN a ELSE b
<1>1. Min({a, b}) \in {a, b} /\ \A y \in {a, b} : Min({a, b}) <= y
    BY MinIsLeast
<1> QED BY <1>1

-----------------------------------------------------------------------------
(***************************************************************************)
(* The calendar.                                                           *)
(***************************************************************************)
\* Products of naturals stay naturals and grow with a factor.
LEMMA Product ==
    ASSUME NEW a \in Nat, NEW b \in Nat
    PROVE  a * b \in Nat /\ (b >= 1 => a * b >= a)
OBVIOUS

\* Quotient and remainder of the calendar's divisions.
LEMMA DivMod ==
    ASSUME NEW a \in Nat, NEW n \in Nat \ {0}
    PROVE  /\ a \div n \in Nat /\ a % n \in 0..n-1
           /\ a = (a \div n) * n + (a % n)
OBVIOUS

\* Both month lengths and their sum are positive.
LEMMA MonthLengths ==
    /\ TwoMonths \in Nat /\ TwoMonths >= 2
    /\ \A month \in Nat : DaysIn(month) \in Nat /\ DaysIn(month) >= 1
BY CalendarAssumption DEF TwoMonths, DaysIn

\* Months are in order and have at least a day each.
LEMMA FirstDayBound ==
    ASSUME NEW month \in Nat
    PROVE  FirstDay(month) \in Nat /\ FirstDay(month) >= month
<1> DEFINE q == month \div 2
           r == month % 2
<1>1. q \in Nat /\ r \in 0..1 /\ month = q * 2 + r
    BY DivMod
<1>2. r * LongMonth \in Nat /\ r * LongMonth >= r
    BY <1>1, CalendarAssumption
<1>3. q * TwoMonths \in Nat /\ q * TwoMonths >= q * 2
    BY <1>1, MonthLengths
<1>4. FirstDay(month) = q * TwoMonths + r * LongMonth
    BY DEF FirstDay
<1> HIDE DEF q, r
<1> QED BY <1>1, <1>2, <1>3, <1>4, MonthLengths

\* Every day belongs to a month and is at least its first day.
LEMMA MonthAndDay ==
    ASSUME NEW local \in Nat
    PROVE  MonthOf(local) \in Nat /\ DayOf(local) \in Nat \ {0}
<1> DEFINE q == local \div TwoMonths
           r == local % TwoMonths
           b == IF r < LongMonth THEN 0 ELSE 1
<1>1. q \in Nat /\ r \in 0..TwoMonths - 1 /\ local = q * TwoMonths + r
  <2>1. TwoMonths \in Nat \ {0}
    BY MonthLengths
  <2> QED BY <2>1, DivMod, Zenon
<1>2. MonthOf(local) = 2 * q + b
    BY DEF MonthOf
<1>3. (2 * q + b) \div 2 = q /\ (2 * q + b) % 2 = b
    BY <1>1
<1>4. FirstDay(MonthOf(local)) = q * TwoMonths + b * LongMonth
    BY <1>2, <1>3 DEF FirstDay
<1>5. DayOf(local) = local - (q * TwoMonths + b * LongMonth) + 1
    BY <1>4 DEF DayOf
<1>6. q * TwoMonths \in Nat
    BY <1>1, MonthLengths, Product
<1>7. r - b * LongMonth >= 0 /\ b * LongMonth \in Nat
    BY <1>1, MonthLengths, CalendarAssumption
<1> HIDE DEF q, r
<1>8. DayOf(local) = r - b * LongMonth + 1
    BY <1>1, <1>5, <1>6, <1>7, MonthLengths
<1>9. DayOf(local) \in Nat \ {0}
    BY <1>1, <1>7, <1>8, MonthLengths
<1> QED BY <1>1, <1>2, <1>9

\* A clamped day stays within its month, so not before the month begins.
LEMMA ClampDayBound ==
    ASSUME NEW month \in Nat, NEW day \in Nat \ {0}
    PROVE  ClampDay(month, day) \in Nat /\ ClampDay(month, day) >= month
<1>1. FirstDay(month) \in Nat /\ FirstDay(month) >= month
    BY FirstDayBound
<1>2. DaysIn(month) \in Nat /\ DaysIn(month) >= 1
    BY MonthLengths
<1>3. Min({day, DaysIn(month)}) \in Nat /\ Min({day, DaysIn(month)}) >= 1
    BY <1>2, MinOfTwo
<1> QED BY <1>1, <1>3 DEF ClampDay

\* The months follow each other: each begins where the one before ends.
LEMMA MonthsInOrder ==
    ASSUME NEW m \in Nat, NEW n \in Nat, m < n
    PROVE  FirstDay(m) + DaysIn(m) <= FirstDay(n)
<1> DEFINE q == m \div 2
           r == m % 2
           p == n \div 2
           t == n % 2
<1>1. q \in Nat /\ r \in 0..1 /\ m = q * 2 + r /\ p \in Nat /\ t \in 0..1 /\ n = p * 2 + t
  BY DivMod
<1>2. /\ FirstDay(m) = q * TwoMonths + r * LongMonth
      /\ FirstDay(n) = p * TwoMonths + t * LongMonth
      /\ DaysIn(m) = IF r = 0 THEN LongMonth ELSE ShortMonth
  BY DEF FirstDay, DaysIn
<1>3. LongMonth \in Nat /\ ShortMonth \in Nat /\ TwoMonths = LongMonth + ShortMonth
  BY CalendarAssumption DEF TwoMonths
<1> HIDE DEF q, r, p, t
<1>4. q * TwoMonths \in Nat /\ p * TwoMonths \in Nat /\ t * LongMonth \in Nat
  BY <1>1, <1>3
<1>5. FirstDay(m) + DaysIn(m) = q * TwoMonths + (IF r = 0 THEN LongMonth ELSE TwoMonths)
  <2>1. CASE r = 0
    BY <2>1, <1>2, <1>3, <1>4
  <2>2. CASE r = 1
    BY <2>2, <1>2, <1>3, <1>4
  <2> QED BY <1>1, <2>1, <2>2
<1>6. CASE q = p
  <2>1. r = 0 /\ t = 1
    BY <1>1, <1>6
  <2> QED BY <1>2, <1>3, <1>4, <1>5, <1>6, <2>1
<1>7. CASE q < p
  <2>1. p - q - 1 \in Nat /\ (p - q - 1) * TwoMonths \in Nat
    BY <1>1, <1>3, <1>7
  <2>2. p * TwoMonths = q * TwoMonths + TwoMonths + (p - q - 1) * TwoMonths
    BY <1>1, <1>3, <2>1
  <2>3. p * TwoMonths >= q * TwoMonths + TwoMonths
    BY <1>3, <1>4, <2>1, <2>2
  <2> QED BY <1>2, <1>3, <1>4, <1>5, <2>3
<1>8. q <= p
  BY <1>1
<1> QED BY <1>1, <1>6, <1>7, <1>8

\* The days of a month.
WithinMonth(month, local) == FirstDay(month) <= local /\ local < FirstDay(month) + DaysIn(month)

\* A day lies within its month.
LEMMA DayWithinMonth ==
    ASSUME NEW local \in Nat
    PROVE  WithinMonth(MonthOf(local), local)
<1> DEFINE q == local \div TwoMonths
           r == local % TwoMonths
           b == IF r < LongMonth THEN 0 ELSE 1
<1>1. q \in Nat /\ r \in 0..TwoMonths - 1 /\ local = q * TwoMonths + r
  <2>1. TwoMonths \in Nat \ {0}
    BY MonthLengths
  <2> QED BY <2>1, DivMod, Zenon
<1>2. MonthOf(local) = 2 * q + b
  BY DEF MonthOf
<1>3. (2 * q + b) \div 2 = q /\ (2 * q + b) % 2 = b
  BY <1>1
<1>4. /\ FirstDay(MonthOf(local)) = q * TwoMonths + b * LongMonth
      /\ DaysIn(MonthOf(local)) = IF b = 0 THEN LongMonth ELSE ShortMonth
  BY <1>2, <1>3 DEF FirstDay, DaysIn
<1>5. LongMonth \in Nat /\ ShortMonth \in Nat /\ TwoMonths = LongMonth + ShortMonth
  BY CalendarAssumption DEF TwoMonths
<1>6. b * LongMonth = (IF b = 0 THEN 0 ELSE LongMonth) /\ (b = 0 <=> r < LongMonth)
  BY <1>5
<1> HIDE DEF q, r, b
<1>7. q * TwoMonths \in Nat
  BY <1>1, <1>5
<1>8. b * LongMonth <= r /\ r < b * LongMonth + (IF b = 0 THEN LongMonth ELSE ShortMonth)
  BY <1>1, <1>5, <1>6
<1> DEFINE base == q * TwoMonths
           offset == b * LongMonth
<1>9. offset \in Nat
  BY <1>5, <1>6
<1> HIDE DEF base, offset
<1> QED BY <1>1, <1>4, <1>5, <1>7, <1>8, <1>9 DEF WithinMonth, base, offset

\* No day lies within two months.
LEMMA MonthIsUnique ==
    ASSUME NEW local \in Nat, NEW month \in Nat, WithinMonth(month, local)
    PROVE  MonthOf(local) = month
<1>1. MonthOf(local) \in Nat /\ WithinMonth(MonthOf(local), local)
  BY MonthAndDay, DayWithinMonth
<1>2. /\ FirstDay(month) \in Nat /\ DaysIn(month) \in Nat
      /\ FirstDay(MonthOf(local)) \in Nat /\ DaysIn(MonthOf(local)) \in Nat
  BY <1>1, FirstDayBound, MonthLengths
<1>3. ~(MonthOf(local) < month) /\ ~(month < MonthOf(local))
  <2>1. MonthOf(local) < month =>
          FirstDay(MonthOf(local)) + DaysIn(MonthOf(local)) <= FirstDay(month)
    BY <1>1, MonthsInOrder
  <2>2. month < MonthOf(local) =>
          FirstDay(month) + DaysIn(month) <= FirstDay(MonthOf(local))
    BY <1>1, MonthsInOrder
  <2> QED BY <1>1, <1>2, <2>1, <2>2 DEF WithinMonth
<1> QED BY <1>1, <1>3

\* A clamped day lies within its month.
LEMMA ClampedWithinMonth ==
    ASSUME NEW month \in Nat, NEW day \in Nat \ {0}
    PROVE  WithinMonth(month, ClampDay(month, day)) /\ MonthOf(ClampDay(month, day)) = month
<1>1. FirstDay(month) \in Nat /\ DaysIn(month) \in Nat \ {0}
  BY FirstDayBound, MonthLengths
<1>2. Min({day, DaysIn(month)}) \in 1..DaysIn(month)
  BY <1>1, MinOfTwo
<1>3. WithinMonth(month, ClampDay(month, day))
  BY <1>1, <1>2 DEF WithinMonth, ClampDay
<1>4. ClampDay(month, day) \in Nat
  BY ClampDayBound
<1> QED BY <1>3, <1>4, MonthIsUnique

\* Days of a later month are later, wherever they are clamped.
LEMMA LaterMonth ==
    ASSUME NEW m \in Nat, NEW n \in Nat, m < n, NEW d, WithinMonth(m, d), d \in Nat,
           NEW e \in Nat, WithinMonth(n, e)
    PROVE  d < e
<1>1. FirstDay(m) \in Nat /\ DaysIn(m) \in Nat /\ FirstDay(n) \in Nat
  BY FirstDayBound, MonthLengths
<1> QED BY <1>1, MonthsInOrder DEF WithinMonth

\* No months added change no day.
LEMMA AddNoMonths ==
    ASSUME NEW local \in Nat
    PROVE  AddMonthsClamped(local, 0) = local
<1> DEFINE m == MonthOf(local)
           d == DayOf(local)
<1>1. m \in Nat /\ d \in Nat \ {0} /\ WithinMonth(m, local)
  BY MonthAndDay, DayWithinMonth
<1>2. FirstDay(m) \in Nat /\ DaysIn(m) \in Nat /\ d = local - FirstDay(m) + 1
  BY <1>1, FirstDayBound, MonthLengths DEF DayOf
<1>3. AddMonthsClamped(local, 0) = FirstDay(m) + Min({d, DaysIn(m)}) - 1
  <2>1. MonthOf(local) + 0 = MonthOf(local)
    BY <1>1
  <2> QED BY <2>1 DEF AddMonthsClamped, ClampDay
<1> HIDE DEF m, d
<1>4. d <= DaysIn(m)
  BY <1>1, <1>2 DEF WithinMonth
<1>5. Min({d, DaysIn(m)}) = d
  BY <1>1, <1>2, <1>4, MinOfTwo
<1> QED BY <1>2, <1>3, <1>5

\* scheduled_local_at gives a date, and the date of ordinal n is no earlier
\* than day n - 1: a rule cannot stand still.
THEOREM SlotBound ==
    ASSUME NEW rule \in ScheduleRule, NEW first \in Nat, NEW ordinal \in Nat \ {0}
    PROVE  /\ ScheduledLocalAt(rule, first, ordinal) \in Nat
           /\ ScheduledLocalAt(rule, first, ordinal) >= ordinal - 1
<1>1. rule.n \in Nat \ {0} /\ rule.unit \in IntervalUnits \union {"monthlyDay"}
    BY DEF ScheduleRule
<1>2. MonthOf(first) \in Nat /\ DayOf(first) \in Nat \ {0}
    BY MonthAndDay
<1> DEFINE steps == (ordinal - 1) * rule.n
<1>3. steps \in Nat /\ steps >= ordinal - 1
    BY <1>1, Product
<1>4. CASE rule.unit = "monthlyDay"
  <2>1. MonthOf(first) + ordinal - 1 \in Nat
    BY <1>2
  <2>2. ClampDay(MonthOf(first) + ordinal - 1, rule.n) \in Nat
          /\ ClampDay(MonthOf(first) + ordinal - 1, rule.n) >= MonthOf(first) + ordinal - 1
    BY <2>1, <1>1, ClampDayBound
  <2> QED BY <2>2, <1>2, <1>4 DEF ScheduledLocalAt
<1>5. CASE rule.unit # "monthlyDay"
  <2> HIDE DEF steps
  <2>1. rule.unit \in IntervalUnits
    BY <1>1, <1>5
  <2>2. ScheduledLocalAt(rule, first, ordinal) = AdvanceInterval(first, rule.unit, steps)
    BY <1>5 DEF ScheduledLocalAt, steps
  <2>3. CASE rule.unit = "day"
    BY <2>2, <2>3, <1>3 DEF AdvanceInterval
  <2>4. CASE rule.unit = "week"
    <3>1. steps * DaysPerWeek \in Nat /\ steps * DaysPerWeek >= steps
      BY <1>3, CalendarAssumption, Product
    <3> QED BY <2>2, <2>4, <3>1, <1>3 DEF AdvanceInterval
  <2>5. ASSUME NEW months \in Nat, months >= steps
        PROVE  AddMonthsClamped(first, months) \in Nat
                 /\ AddMonthsClamped(first, months) >= ordinal - 1
    <3>1. MonthOf(first) + months \in Nat
      BY <1>2
    <3>2. ClampDay(MonthOf(first) + months, DayOf(first)) \in Nat
            /\ ClampDay(MonthOf(first) + months, DayOf(first)) >= MonthOf(first) + months
      BY <3>1, <1>2, ClampDayBound
    <3> QED BY <3>2, <1>2, <1>3, <2>5 DEF AddMonthsClamped
  <2>6. CASE rule.unit = "month"
    BY <2>2, <2>5, <2>6, <1>3 DEF AdvanceInterval
  <2>7. CASE rule.unit = "year"
    <3>1. steps * MonthsPerYear \in Nat /\ steps * MonthsPerYear >= steps
      BY <1>3, CalendarAssumption, Product
    <3> QED BY <2>2, <2>5, <2>7, <3>1 DEF AdvanceInterval
  <2> QED BY <2>1, <2>3, <2>4, <2>6, <2>7 DEF IntervalUnits
<1> QED BY <1>4, <1>5

\* The slots of a rule move on with the ordinal: clamping to the end of a month never repeats
\* one (schedule.rs, the anchor is the first slot's and not the last one's).
THEOREM SlotsIncrease ==
    ASSUME NEW rule \in ScheduleRule, NEW first \in Nat,
           NEW o \in Nat \ {0}, NEW p \in Nat \ {0}, o < p
    PROVE  ScheduledLocalAt(rule, first, o) < ScheduledLocalAt(rule, first, p)
<1>1. rule.n \in Nat \ {0} /\ rule.unit \in IntervalUnits \union {"monthlyDay"}
  BY DEF ScheduleRule
<1>2. MonthOf(first) \in Nat /\ DayOf(first) \in Nat \ {0}
  BY MonthAndDay
<1>3. ASSUME NEW m \in Nat, NEW n \in Nat, m < n, NEW day \in Nat \ {0}
      PROVE  ClampDay(m, day) < ClampDay(n, day)
  <2>1. WithinMonth(m, ClampDay(m, day)) /\ WithinMonth(n, ClampDay(n, day))
    BY ClampedWithinMonth
  <2>2. ClampDay(m, day) \in Nat /\ ClampDay(n, day) \in Nat
    BY ClampDayBound
  <2> QED BY <1>3, <2>1, <2>2, LaterMonth
<1> DEFINE before == (o - 1) * rule.n
           after  == (p - 1) * rule.n
<1>4. before \in Nat /\ after \in Nat /\ before < after
  <2>1. p - o \in Nat \ {0} /\ (p - o) * rule.n \in Nat /\ (p - o) * rule.n >= p - o
    BY <1>1, Product
  <2>2. after = before + (p - o) * rule.n
    BY <1>1
  <2>3. before \in Nat
    BY <1>1, Product
  <2> HIDE DEF before, after
  <2> QED BY <2>1, <2>2, <2>3
<1>5. CASE rule.unit = "monthlyDay"
  <2>1. /\ MonthOf(first) + o - 1 \in Nat /\ MonthOf(first) + p - 1 \in Nat
        /\ MonthOf(first) + o - 1 < MonthOf(first) + p - 1
    BY <1>2
  <2> QED BY <1>1, <1>3, <1>5, <2>1 DEF ScheduledLocalAt
<1>6. CASE rule.unit # "monthlyDay"
  <2>1. /\ ScheduledLocalAt(rule, first, o) = AdvanceInterval(first, rule.unit, before)
        /\ ScheduledLocalAt(rule, first, p) = AdvanceInterval(first, rule.unit, after)
    BY <1>6 DEF ScheduledLocalAt
  <2> HIDE DEF before, after
  <2>2. ASSUME NEW x \in Nat, NEW y \in Nat, x < y
        PROVE  AddMonthsClamped(first, x) < AddMonthsClamped(first, y)
    <3>1. /\ MonthOf(first) + x \in Nat /\ MonthOf(first) + y \in Nat
          /\ MonthOf(first) + x < MonthOf(first) + y
      BY <1>2, <2>2
    <3> QED BY <1>2, <1>3, <3>1 DEF AddMonthsClamped
  <2>3. ASSUME NEW k \in Nat \ {0}
        PROVE  before * k \in Nat /\ after * k \in Nat /\ before * k < after * k
    <3>1. after - before \in Nat \ {0}
      BY <1>4
    <3>2. (after - before) * k \in Nat /\ (after - before) * k >= after - before
      BY <3>1, Product
    <3>3. after * k = before * k + (after - before) * k
      BY <1>4
    <3>4. before * k \in Nat
      BY <1>4, Product
    <3> QED BY <3>1, <3>2, <3>3, <3>4
  <2>4. CASE rule.unit = "day"
    BY <1>4, <2>1, <2>4 DEF AdvanceInterval
  <2>5. CASE rule.unit = "week"
    <3>1. /\ before * DaysPerWeek \in Nat /\ after * DaysPerWeek \in Nat
          /\ before * DaysPerWeek < after * DaysPerWeek
      BY <2>3, CalendarAssumption
    <3>2. /\ ScheduledLocalAt(rule, first, o) = first + before * DaysPerWeek
          /\ ScheduledLocalAt(rule, first, p) = first + after * DaysPerWeek
      BY <2>1, <2>5 DEF AdvanceInterval
    <3> QED BY <3>1, <3>2
  <2>6. CASE rule.unit = "month"
    BY <1>4, <2>1, <2>2, <2>6 DEF AdvanceInterval
  <2>7. CASE rule.unit = "year"
    <3>1. /\ before * MonthsPerYear \in Nat /\ after * MonthsPerYear \in Nat
          /\ before * MonthsPerYear < after * MonthsPerYear
      BY <2>3, CalendarAssumption
    <3> QED BY <2>1, <2>2, <2>7, <3>1 DEF AdvanceInterval
  <2> QED BY <1>1, <1>6, <2>4, <2>5, <2>6, <2>7 DEF IntervalUnits
<1> QED BY <1>5, <1>6

\* The first slot of an interval is the date it starts from.
LEMMA IntervalStartsAtFirst ==
    ASSUME NEW rule \in ScheduleRule, rule.unit # "monthlyDay", NEW first \in Nat
    PROVE  ScheduledLocalAt(rule, first, 1) = first
<1>1. rule.n \in Nat \ {0} /\ rule.unit \in IntervalUnits
  BY DEF ScheduleRule
<1>2. (1 - 1) * rule.n = 0
  BY <1>1
<1>3. ScheduledLocalAt(rule, first, 1) = AdvanceInterval(first, rule.unit, 0)
  BY <1>2 DEF ScheduledLocalAt
<1>4. 0 * DaysPerWeek = 0 /\ 0 * MonthsPerYear = 0
  BY CalendarAssumption
<1> QED BY <1>1, <1>3, <1>4, AddNoMonths DEF AdvanceInterval, IntervalUnits

\* A first slot is its own first slot: normalising a start to the rule twice changes nothing.
LEMMA FirstSlotAgain ==
    ASSUME NEW rule \in ScheduleRule, NEW first \in Nat
    PROVE  LET slot == ScheduledLocalAt(rule, first, 1)
           IN  slot \in Nat /\ ScheduledLocalAt(rule, slot, 1) = slot
<1> DEFINE slot == ScheduledLocalAt(rule, first, 1)
<1>1. slot \in Nat
  BY SlotBound
<1>2. CASE rule.unit = "monthlyDay"
  <2>1. rule.n \in Nat \ {0} /\ MonthOf(first) \in Nat /\ MonthOf(first) + 1 - 1 = MonthOf(first)
    BY MonthAndDay DEF ScheduleRule
  <2>2. slot = ClampDay(MonthOf(first), rule.n)
    BY <1>2, <2>1 DEF ScheduledLocalAt
  <2>3. MonthOf(slot) = MonthOf(first)
    BY <2>1, <2>2, ClampedWithinMonth
  <2>4. ScheduledLocalAt(rule, slot, 1) = ClampDay(MonthOf(slot) + 1 - 1, rule.n)
    BY <1>2 DEF ScheduledLocalAt
  <2> QED BY <1>1, <2>1, <2>2, <2>3, <2>4
<1>3. CASE rule.unit # "monthlyDay"
  BY <1>1, <1>3, IntervalStartsAtFirst
<1> QED BY <1>2, <1>3

\* The second slot is after the date asked for, whatever slot that date is moved to.
LEMMA SecondSlotIsLater ==
    ASSUME NEW rule \in ScheduleRule, NEW first \in Nat
    PROVE  ScheduledLocalAt(rule, first, 2) > first
<1>1. CASE rule.unit = "monthlyDay"
  <2>1. rule.n \in Nat \ {0} /\ MonthOf(first) \in Nat /\ MonthOf(first) + 1 \in Nat
    BY MonthAndDay DEF ScheduleRule
  <2>2. MonthOf(first) + 2 - 1 = MonthOf(first) + 1
    BY <2>1
  <2>3. ScheduledLocalAt(rule, first, 2) = ClampDay(MonthOf(first) + 1, rule.n)
    BY <1>1, <2>2 DEF ScheduledLocalAt
  <2>4. /\ WithinMonth(MonthOf(first) + 1, ClampDay(MonthOf(first) + 1, rule.n))
        /\ ClampDay(MonthOf(first) + 1, rule.n) \in Nat
    BY <2>1, ClampedWithinMonth, ClampDayBound
  <2>5. WithinMonth(MonthOf(first), first) /\ MonthOf(first) < MonthOf(first) + 1
    BY <2>1, DayWithinMonth
  <2>6. first < ClampDay(MonthOf(first) + 1, rule.n)
    BY <2>1, <2>4, <2>5, LaterMonth
  <2> QED BY <2>3, <2>6
<1>2. CASE rule.unit # "monthlyDay"
  <2>1. ScheduledLocalAt(rule, first, 1) < ScheduledLocalAt(rule, first, 2)
    BY SlotsIncrease
  <2> QED BY <1>2, <2>1, IntervalStartsAtFirst
<1> QED BY <1>1, <1>2

\* advance_head_past_observation ends on a slot of the rule, at the given
\* ordinal or a later one, that is past the observation.
THEOREM AdvanceHeadPastLands ==
    ASSUME NEW rule \in ScheduleRule, NEW first \in Nat, NEW ordinal \in Nat \ {0},
           NEW next \in Nat, NEW observed \in Nat
    PROVE  LET landed == AdvanceHeadPast(rule, first, ordinal, next, observed)
           IN  /\ landed = [ordinal |-> landed.ordinal, next |-> landed.next]
               /\ landed.ordinal \in Nat /\ landed.ordinal >= ordinal
               /\ landed.next \in Nat /\ landed.next > observed
               /\ landed.next = IF next > observed THEN next
                                ELSE ScheduledLocalAt(rule, first, landed.ordinal)
<1>1. CASE next > observed
    BY <1>1 DEF AdvanceHeadPast, Past
<1>2. CASE ~(next > observed)
  <2> DEFINE slot(o) == ScheduledLocalAt(rule, first, o)
             later   == {o \in ordinal + 1 .. ordinal + observed + 2 :
                             Past(slot(o), observed)}
             final   == ordinal + observed + 2
  <2>1. slot(final) \in Nat /\ slot(final) >= final - 1
    BY SlotBound
  <2>2. final \in later /\ later \subseteq Nat
    BY <2>1 DEF Past
  <2>3. Min(later) \in later
    <3> HIDE DEF later, final
    <3> QED BY <2>2, MinIsLeast
  <2> DEFINE landed == Min(later)
  <2>4. AdvanceHeadPast(rule, first, ordinal, next, observed)
          = [ordinal |-> landed, next |-> slot(landed)]
    BY <1>2 DEF AdvanceHeadPast, Past
  <2>5. landed \in Nat \ {0} /\ landed >= ordinal /\ slot(landed) > observed
    BY <2>3 DEF Past
  <2> HIDE DEF later, landed
  <2>6. slot(landed) \in Nat
    BY <2>5, SlotBound
  <2> QED BY <1>2, <2>4, <2>5, <2>6
<1> QED BY <1>1, <1>2

-----------------------------------------------------------------------------
(***************************************************************************)
(* Finite sets.                                                            *)
(***************************************************************************)

\* A finite set of naturals is bounded: among its parts above some number
\* there is a smallest one, and that is empty.
LEMMA FiniteIsBounded ==
    ASSUME NEW S, S \subseteq Nat, IsFiniteSet(S)
    PROVE  \E b \in Nat : \A x \in S : x <= b
<1> DEFINE Above(n) == {x \in S : x > n}
           U == {Above(n) : n \in Nat}
<1>1. U \subseteq FiniteSubsetsOf(S)
  <2>1. SUFFICES ASSUME NEW n \in Nat PROVE Above(n) \in FiniteSubsetsOf(S)
    OBVIOUS
  <2>2. Above(n) \in SUBSET S
    OBVIOUS
  <2> HIDE DEF Above
  <2>3. IsFiniteSet(Above(n))
    BY <2>2, FS_Subset
  <2> QED BY <2>2, <2>3 DEF FiniteSubsetsOf
<1>2. U # {}
  <2>1. Above(0) \in U
    OBVIOUS
  <2> QED BY <2>1
<1>3. PICK u \in U : \A v \in U : ~ (<<v, u>> \in StrictSubsetOrdering(S))
  <2> HIDE DEF U
  <2> QED BY <1>1, <1>2, WFMin, FS_StrictSubsetOrderingWellFounded, Zenon
<1>4. PICK n \in Nat : u = Above(n)
    OBVIOUS
<1>5. ASSUME NEW x \in S, x > n PROVE FALSE
  <2>1. x \in Nat /\ Above(x) \in U
    OBVIOUS
  <2>2. Above(x) \subseteq u /\ x \in u /\ x \notin Above(x) /\ u \subseteq S
    <3>1. \A y \in S : y \in Nat
      OBVIOUS
    <3>2. \A y \in S : y > x => y > n
      BY <1>5, <2>1, <3>1
    <3>3. ~(x > x)
      BY <2>1
    <3>4. u = {y \in S : y > n}
      BY <1>4
    <3> QED BY <1>5, <3>2, <3>3, <3>4
  <2> HIDE DEF Above
  <2>3. <<Above(x), u>> \in StrictSubsetOrdering(S)
    BY <2>2 DEF StrictSubsetOrdering
  <2> QED BY <1>3, <2>1, <2>3
<1>6. \A x \in S : x <= n
    BY <1>5
<1> QED BY <1>6

\* Max finds an element of a finite nonempty set of naturals.
LEMMA MaxOfFinite ==
    ASSUME NEW S, S \subseteq Nat, IsFiniteSet(S), S # {}
    PROVE  Max(S) \in S
BY FiniteIsBounded, MaxIsGreatest

\* The image of a finite set under a function is finite.
LEMMA FiniteImage ==
    ASSUME NEW S, IsFiniteSet(S), NEW f, f = [x \in S |-> f[x]]
    PROVE  IsFiniteSet({f[x] : x \in S})
<1> DEFINE T == {f[x] : x \in S}
<1>1. f \in Surjection(S, T)
    BY DEF Surjection
<1> HIDE DEF T
<1>2. IsFiniteSet(T)
    BY <1>1, FS_Surjection
<1> QED BY <1>2 DEF T

-----------------------------------------------------------------------------
(***************************************************************************)
(* What the queries on revision histories and heads return.                *)
(***************************************************************************)
HasOpen(revisions) == \E i \in DOMAIN revisions : revisions[i].until = Forever

\* find_open_schedule_revision finds one if there is one.
LEMMA OpenScheduleFound ==
    ASSUME NEW revisions \in Seq(ScheduleRow), HasOpen(revisions)
    PROVE  /\ OpenSchedule(revisions) \in DOMAIN revisions
           /\ OpenSchedule(revisions) \in Nat \ {0}
           /\ revisions[OpenSchedule(revisions)].until = Forever
<1> DEFINE S == {i \in DOMAIN revisions : revisions[i].until = Forever}
           T == {0} \union S
<1>1. DOMAIN revisions = 1..Len(revisions) /\ Len(revisions) \in Nat
    OBVIOUS
<1>2. T \subseteq Nat /\ T # {} /\ \A x \in T : x <= Len(revisions)
    BY <1>1
<1>3. Max(T) \in T /\ \A y \in T : y <= Max(T)
  <2> HIDE DEF T
  <2> QED BY <1>1, <1>2, MaxIsGreatest
<1>4. PICK i \in S : i >= 1
    BY <1>1 DEF HasOpen
<1>5. Max(T) \in S
    BY <1>1, <1>3, <1>4
<1>6. OpenSchedule(revisions) = Max(T)
    BY DEF OpenSchedule
<1> QED BY <1>1, <1>5, <1>6

\* find_schedule_revision_at finds a revision of the history, or none.
LEMMA ScheduleAtType ==
    ASSUME NEW revisions \in Seq(ScheduleRow), NEW local
    PROVE  /\ ScheduleAt(revisions, local) \in Nat
           /\ ScheduleAt(revisions, local) # 0 =>
                ScheduleAt(revisions, local) \in DOMAIN revisions
<1> DEFINE T == {0} \union {i \in DOMAIN revisions : Covers(revisions[i], local)}
<1>1. DOMAIN revisions = 1..Len(revisions) /\ Len(revisions) \in Nat
    OBVIOUS
<1>2. T \subseteq Nat /\ T # {} /\ \A x \in T : x <= Len(revisions)
    BY <1>1
<1>3. Max(T) \in T
  <2> HIDE DEF T
  <2> QED BY <1>1, <1>2, MaxIsGreatest
<1>4. ScheduleAt(revisions, local) = Max(T)
    BY DEF ScheduleAt
<1> QED BY <1>1, <1>3, <1>4

\* A revision's row carries a rule and a first slot.
LEMMA RowRule ==
    ASSUME NEW revisions \in Seq(ScheduleRow), NEW rev \in DOMAIN revisions
    PROVE  /\ revisions[rev] \in ScheduleRow
           /\ revisions[rev].rule \in ScheduleRule /\ revisions[rev].first \in Nat
           /\ rev \in Nat \ {0}
<1>1. revisions[rev] \in ScheduleRow /\ rev \in Nat \ {0}
    OBVIOUS
<1> QED BY <1>1 DEF ScheduleRow

\* A slot of a revision is a day.
LEMMA SlotAtType ==
    ASSUME NEW revisions \in Seq(ScheduleRow), NEW rev \in DOMAIN revisions,
           NEW ordinal \in Nat \ {0}
    PROVE  SlotAt(revisions, rev, ordinal) \in Nat
BY RowRule, SlotBound DEF SlotAt

\* A head that names a slot of a revision of the history.
ProperHead(revisions, head) ==
    /\ head \in HeadRow
    /\ head.rev \in DOMAIN revisions
    /\ head.ordinal \in Nat \ {0}

\* A head that names a slot is a head.
LEMMA ProperIsNotNone ==
    ASSUME NEW revisions, NEW head, ProperHead(revisions, head)
    PROVE  head # NoHead
BY DEF ProperHead, NoHead

\* next_head_after_occurrence names a slot of the history again.
LEMMA NextHeadAfterType ==
    ASSUME NEW revisions \in Seq(ScheduleRow), NEW rev \in DOMAIN revisions,
           NEW ordinal \in Nat \ {0}
    PROVE  ProperHead(revisions, NextHeadAfter(revisions, rev, ordinal))
<1> DEFINE provisional == SlotAt(revisions, rev, ordinal + 1)
           at          == ScheduleAt(revisions, provisional)
           selected    == IF at = 0 THEN rev ELSE at
<1>1. ordinal + 1 \in Nat \ {0} /\ rev \in Nat
    BY RowRule
<1>2. provisional \in Nat
    BY <1>1, SlotAtType
<1>3. selected \in DOMAIN revisions /\ selected \in Nat
    BY ScheduleAtType, RowRule
<1>4. SlotAt(revisions, selected, 1) \in Nat
    BY <1>3, SlotAtType
<1>5. NextHeadAfter(revisions, rev, ordinal) =
        IF selected = rev
        THEN [rev |-> rev, ordinal |-> ordinal + 1, next |-> provisional]
        ELSE [rev |-> selected, ordinal |-> 1, next |-> SlotAt(revisions, selected, 1)]
    BY DEF NextHeadAfter
<1> HIDE DEF provisional, selected
<1> QED BY <1>1, <1>2, <1>3, <1>4, <1>5 DEF ProperHead, HeadRow

\* skip_head_past_observation leaves a head past the observation.
LEMMA SkippedHeadLands ==
    ASSUME NEW revisions \in Seq(ScheduleRow), HasOpen(revisions),
           NEW head, ProperHead(revisions, head), NEW observed \in Nat
    PROVE  /\ ProperHead(revisions, SkippedHead(head, revisions, observed))
           /\ SkippedHead(head, revisions, observed).next > observed
<1>1. CASE head.next > observed
    BY <1>1 DEF SkippedHead
<1>2. CASE ~(head.next > observed)
  <2> DEFINE at(local, default) == IF ScheduleAt(revisions, local) = 0 THEN default
                                   ELSE ScheduleAt(revisions, local)
             rev      == at(head.next, OpenSchedule(revisions))
             skip     == AdvanceHeadPast(revisions[rev].rule, revisions[rev].first,
                                         head.ordinal, head.next, observed)
             selected == at(skip.next, rev)
             again    == AdvanceHeadPast(revisions[selected].rule,
                                         revisions[selected].first,
                                         1, SlotAt(revisions, selected, 1), observed)
             landed   == IF selected = rev THEN skip ELSE again
  <2>1. rev \in DOMAIN revisions
    BY OpenScheduleFound, ScheduleAtType
  <2>2. head.ordinal \in Nat \ {0} /\ head.next \in Nat
    BY DEF ProperHead, HeadRow
  <2>3. skip.ordinal \in Nat \ {0} /\ skip.next \in Nat /\ skip.next > observed
    <3> HIDE DEF rev
    <3>1. revisions[rev].rule \in ScheduleRule /\ revisions[rev].first \in Nat
      BY <2>1, RowRule
    <3>2. /\ skip.ordinal \in Nat /\ skip.ordinal >= head.ordinal
          /\ skip.next \in Nat /\ skip.next > observed
      BY <3>1, <2>2, AdvanceHeadPastLands
    <3> QED BY <3>2, <2>2
  <2>4. selected \in DOMAIN revisions
    <3> HIDE DEF rev, skip
    <3> QED BY <2>1, ScheduleAtType
  <2>5. again.ordinal \in Nat \ {0} /\ again.next \in Nat /\ again.next > observed
    <3> HIDE DEF selected
    <3>1. /\ revisions[selected].rule \in ScheduleRule
          /\ revisions[selected].first \in Nat
          /\ SlotAt(revisions, selected, 1) \in Nat
      BY <2>4, RowRule, SlotAtType
    <3>2. 1 \in Nat \ {0}
      OBVIOUS
    <3>3. /\ again.ordinal \in Nat /\ again.ordinal >= 1
          /\ again.next \in Nat /\ again.next > observed
      BY <3>1, <3>2, AdvanceHeadPastLands
    <3> QED BY <3>3
  <2>6. SkippedHead(head, revisions, observed)
          = [rev |-> selected, ordinal |-> landed.ordinal, next |-> landed.next]
    <3>1. head # NoHead
      BY ProperIsNotNone
    <3> QED BY <1>2, <3>1 DEF SkippedHead
  <2>7. selected \in Nat
    BY <2>4, RowRule
  <2>8. landed.ordinal \in Nat \ {0} /\ landed.next \in Nat /\ landed.next > observed
    BY <2>3, <2>5
  <2> HIDE DEF selected, landed
  <2> QED BY <2>4, <2>6, <2>7, <2>8 DEF ProperHead, HeadRow
<1> QED BY <1>1, <1>2, Zenon

\* apply_schedule_change leaves a history with an open revision.
LEMMA RevisedSchedulesType ==
    ASSUME NEW revisions \in Seq(ScheduleRow), HasOpen(revisions), NEW input \in Document
    PROVE  /\ RevisedSchedules(revisions, input) \in Seq(ScheduleRow)
           /\ HasOpen(RevisedSchedules(revisions, input))
           /\ DOMAIN revisions \subseteq DOMAIN RevisedSchedules(revisions, input)
<1> DEFINE open  == OpenSchedule(revisions)
           added == [from |-> input.next, until |-> Forever,
                     first |-> FirstSlot(input.rule, input.next), rule |-> input.rule]
           closed  == [revisions EXCEPT ![open].until = input.next]
           revised == RevisedSchedules(revisions, input)
<1>1. input.rule \in ScheduleRule /\ input.next \in Nat
  BY DEF Document
<1>2. open \in DOMAIN revisions /\ open \in Nat \ {0}
  BY OpenScheduleFound
<1>3. added \in ScheduleRow /\ added.until = Forever
  <2>1. FirstSlot(input.rule, input.next) \in Nat
    BY <1>1, SlotBound DEF FirstSlot
  <2> QED BY <1>1, <2>1 DEF ScheduleRow
<1>4. DOMAIN revisions = 1..Len(revisions) /\ Len(revisions) \in Nat
  OBVIOUS
<1> HIDE DEF open, added
<1>5. CASE input.next <= revisions[open].from
  <2>1. revised = [revisions EXCEPT ![open] = added]
    BY <1>5 DEF RevisedSchedules, open, added
  <2>2. revised \in Seq(ScheduleRow) /\ DOMAIN revised = DOMAIN revisions
    BY <1>2, <1>3, <2>1
  <2>3. revised[open].until = Forever
    BY <1>2, <1>3, <2>1
  <2> QED BY <1>2, <2>2, <2>3 DEF HasOpen
<1>6. CASE ~(input.next <= revisions[open].from)
  <2>1. revised = Append(closed, added)
    BY <1>6 DEF RevisedSchedules, open, added
  <2>2. revisions[open] \in ScheduleRow
    BY <1>2, RowRule
  <2>3. [revisions[open] EXCEPT !.until = input.next] \in ScheduleRow
    BY <1>1, <2>2 DEF ScheduleRow
  <2>4. closed \in Seq(ScheduleRow) /\ Len(closed) = Len(revisions)
    BY <1>2, <2>3
  <2> HIDE DEF closed
  <2>5. revised \in Seq(ScheduleRow) /\ Len(revised) = Len(revisions) + 1
    BY <1>3, <2>1, <2>4
  <2>6. revised[Len(revisions) + 1] = added
    BY <1>3, <2>1, <2>4
  <2>7. /\ DOMAIN revised = 1..Len(revisions) + 1
        /\ Len(revisions) + 1 \in DOMAIN revised
    BY <1>4, <2>5
  <2>8. DOMAIN revisions \subseteq DOMAIN revised
    BY <1>4, <2>7
  <2> QED BY <1>3, <2>5, <2>6, <2>7, <2>8 DEF HasOpen
<1> QED BY <1>5, <1>6

\* The head stays a slot of the history, and stays there or absent.
LEMMA RescheduledHeadType ==
    ASSUME NEW revisions \in Seq(ScheduleRow), HasOpen(revisions), NEW input \in Document,
           NEW head, head # NoHead => ProperHead(revisions, head)
    PROVE  /\ head # NoHead => ProperHead(revisions, RescheduledHead(head, revisions, input))
           /\ head = NoHead => RescheduledHead(head, revisions, input) = NoHead
<1>1. CASE head # NoHead /\ head.next >= input.next
  <2>1. RescheduledHead(head, revisions, input)
          = [rev |-> OpenSchedule(revisions), ordinal |-> 1,
             next |-> FirstSlot(input.rule, input.next)]
    BY <1>1 DEF RescheduledHead
  <2>2. OpenSchedule(revisions) \in DOMAIN revisions /\ OpenSchedule(revisions) \in Nat
    BY OpenScheduleFound
  <2>3. FirstSlot(input.rule, input.next) \in Nat
    BY SlotBound DEF FirstSlot, Document
  <2> QED BY <1>1, <2>1, <2>2, <2>3 DEF ProperHead, HeadRow
<1>2. CASE ~(head # NoHead /\ head.next >= input.next)
  BY <1>2 DEF RescheduledHead
<1> QED BY <1>1, <1>2

-----------------------------------------------------------------------------
(***************************************************************************)
(* Template histories.                                                     *)
(***************************************************************************)
HasOpenTemplate(segments) ==
    /\ segments \subseteq TemplateRow
    /\ IsFiniteSet(segments)
    /\ \E t \in segments : t.until = Forever

\* The columns of a template segment.
LEMMA TemplateFields ==
    ASSUME NEW t \in TemplateRow
    PROVE  /\ t.sequence \in Nat \ {0} /\ t.from \in Nat
           /\ t.until \in Nat \union {Forever} /\ t.description \in STRING
           /\ t.category \in Categories \union {NoCategory}
BY DEF TemplateRow

\* A finite nonempty set of segments has one with the highest sequence.
LEMMA TopSequence ==
    ASSUME NEW segments, segments \subseteq TemplateRow, IsFiniteSet(segments),
           segments # {}
    PROVE  /\ Max({t.sequence : t \in segments}) \in Nat \ {0}
           /\ \E t \in segments : \A u \in segments : u.sequence <= t.sequence
<1> DEFINE f == [t \in segments |-> t.sequence]
           S == {f[t] : t \in segments}
<1>1. \A t \in segments : t.sequence \in Nat \ {0}
  BY TemplateFields
<1>2. S = {t.sequence : t \in segments}
  OBVIOUS
<1>3. S \subseteq Nat /\ 0 \notin S /\ S # {}
  BY <1>1, <1>2
<1>4. IsFiniteSet(S)
  <2>1. f = [t \in segments |-> f[t]]
    OBVIOUS
  <2> HIDE DEF f
  <2> QED BY <2>1, FiniteImage
<1> HIDE DEF S
<1>5. PICK b \in Nat : \A x \in S : x <= b
  BY <1>3, <1>4, FiniteIsBounded
<1>6. Max(S) \in S /\ \A y \in S : y <= Max(S)
  BY <1>3, <1>5, MaxIsGreatest
<1>7. Max(S) \in Nat \ {0}
  BY <1>3, <1>6
<1>8. PICK t \in segments : t.sequence = Max(S)
  BY <1>2, <1>6
<1>9. \A u \in segments : u.sequence <= t.sequence
  BY <1>2, <1>6, <1>8
<1> QED BY <1>2, <1>7, <1>9

\* find_open_template_revision finds a segment if one is open.
LEMMA OpenTemplateFound ==
    ASSUME NEW segments, HasOpenTemplate(segments)
    PROVE  /\ OpenTemplate(segments) \in segments
           /\ OpenTemplate(segments) \in TemplateRow
           /\ OpenTemplate(segments).until = Forever
<1> DEFINE S == {t \in segments : t.until = Forever}
<1>1. S \subseteq segments /\ S \subseteq TemplateRow /\ S # {}
  BY DEF HasOpenTemplate
<1>2. IsFiniteSet(S)
  BY <1>1, FS_Subset DEF HasOpenTemplate
<1>3. Latest(S) \in S
  <2> HIDE DEF S
  <2> QED BY <1>1, <1>2, TopSequence DEF Latest
<1> QED BY <1>1, <1>3 DEF OpenTemplate

\* The segment that continues a cut one is a segment, open if that was.
LEMMA NextSegment ==
    ASSUME NEW t \in TemplateRow, NEW observed \in Nat
    PROVE  /\ [t EXCEPT !.sequence = @ + 1, !.from = observed] \in TemplateRow
           /\ [t EXCEPT !.sequence = @ + 1, !.from = observed].until = t.until
<1> DEFINE number == t.sequence + 1
           next   == [t EXCEPT !.sequence = number, !.from = observed]
<1>1. number \in Nat \ {0}
  <2>1. t.sequence \in Nat
    BY TemplateFields
  <2> QED BY <2>1
<1>2. next \in TemplateRow /\ next.until = t.until
  <2> HIDE DEF number
  <2> QED BY <1>1 DEF TemplateRow
<1> QED BY <1>2

\* apply_template_change leaves a history with an open segment.
LEMMA RevisedTemplatesType ==
    ASSUME NEW segments, HasOpenTemplate(segments), NEW input \in Document,
           NEW observed \in Nat
    PROVE  HasOpenTemplate(RevisedTemplates(segments, input, observed))
<1> DEFINE open   == OpenTemplate(segments)
           edited == [open EXCEPT !.description = input.description,
                                  !.category = input.category]
           closed == [open EXCEPT !.until = observed]
           next   == [edited EXCEPT !.sequence = @ + 1, !.from = observed]
           added  == IF TemplateInPlace(open, observed) THEN {edited} ELSE {closed, next}
<1>1. open \in TemplateRow /\ open.until = Forever
  BY OpenTemplateFound
<1>2. /\ input.description \in STRING
      /\ input.category \in Categories \union {NoCategory}
  BY DEF Document
<1>3. RevisedTemplates(segments, input, observed) = (segments \ {open}) \union added
  BY DEF RevisedTemplates
<1>4. edited \in TemplateRow /\ edited.until = Forever
  <2> HIDE DEF open
  <2> QED BY <1>1, <1>2 DEF TemplateRow
<1>5. closed \in TemplateRow
  <2> HIDE DEF open
  <2> QED BY <1>1 DEF TemplateRow
<1>6. next \in TemplateRow /\ next.until = Forever
  <2> HIDE DEF edited
  <2> QED BY <1>4, NextSegment
<1> HIDE DEF open, edited, closed, next
<1>7. IsFiniteSet({edited}) /\ IsFiniteSet({closed}) /\ IsFiniteSet({next})
  BY FS_Singleton
<1>8. IsFiniteSet(added)
  <2>1. {closed, next} = {closed} \union {next}
    OBVIOUS
  <2>2. IsFiniteSet({closed, next})
    BY <1>7, <2>1, FS_Union
  <2> QED BY <1>7, <2>2
<1>9. IsFiniteSet(segments \ {open})
  BY FS_Subset DEF HasOpenTemplate
<1>10. IsFiniteSet((segments \ {open}) \union added)
  BY <1>8, <1>9, FS_Union
<1>11. added \subseteq TemplateRow /\ \E t \in added : t.until = Forever
  BY <1>4, <1>5, <1>6
<1> QED BY <1>3, <1>10, <1>11 DEF HasOpenTemplate

\* So do a repair and the deletion of a category.
LEMMA RecategorizedType ==
    ASSUME NEW segments, HasOpenTemplate(segments),
           NEW affected, affected \subseteq segments,
           NEW split, split \subseteq affected,
           NEW head \in HeadRow, NEW category \in Categories \union {NoCategory}
    PROVE  HasOpenTemplate(Recategorized(segments, affected, split, head, category))
<1> DEFINE top     == Max({t.sequence : t \in segments})
           rank(t) == Cardinality({u \in split : u.sequence <= t.sequence})
           moved(t) == [t EXCEPT !.category = category]
           cut(t)   == [t EXCEPT !.until = head.next]
           next(t)  == [t EXCEPT !.sequence = top + rank(t), !.from = head.next,
                                 !.category = category]
           A == {moved(t) : t \in affected \ split}
           B == {cut(t) : t \in split}
           C == {next(t) : t \in split}
<1>1. segments \subseteq TemplateRow /\ IsFiniteSet(segments)
  BY DEF HasOpenTemplate
<1>2. top \in Nat \ {0}
  BY <1>1, TopSequence DEF HasOpenTemplate
<1>3. IsFiniteSet(split) /\ IsFiniteSet(affected \ split) /\ IsFiniteSet(segments \ affected)
  <2>1. split \subseteq segments /\ affected \ split \subseteq segments
    OBVIOUS
  <2> QED BY <1>1, <2>1, FS_Subset
<1>4. \A t : rank(t) \in Nat
  <2>1. \A t : {u \in split : u.sequence <= t.sequence} \subseteq split
    OBVIOUS
  <2> QED BY <1>3, <2>1, FS_Subset, FS_CardinalityType
<1>5. head.next \in Nat
  BY DEF HeadRow
<1>6. Recategorized(segments, affected, split, head, category)
        = (segments \ affected) \union A \union B \union C
  BY DEF Recategorized
<1>7. ASSUME NEW t \in segments
      PROVE  /\ moved(t) \in TemplateRow /\ moved(t).until = t.until
             /\ cut(t) \in TemplateRow
             /\ next(t) \in TemplateRow /\ next(t).until = t.until
  <2>1. t \in TemplateRow
    BY <1>1
  <2>2. moved(t) \in TemplateRow /\ moved(t).until = t.until
    BY <2>1 DEF TemplateRow
  <2>3. cut(t) \in TemplateRow
    BY <1>5, <2>1 DEF TemplateRow
  <2>4. top + rank(t) \in Nat \ {0}
    <3> HIDE DEF top, rank
    <3> QED BY <1>2, <1>4
  <2>5. next(t) \in TemplateRow /\ next(t).until = t.until
    <3> HIDE DEF top, rank
    <3> QED BY <1>5, <2>1, <2>4 DEF TemplateRow
  <2> QED BY <2>2, <2>3, <2>5
<1>8. IsFiniteSet(A) /\ IsFiniteSet(B) /\ IsFiniteSet(C)
  <2> DEFINE f == [t \in affected \ split |-> moved(t)]
             g == [t \in split |-> cut(t)]
             h == [t \in split |-> next(t)]
  <2>1. f = [t \in affected \ split |-> f[t]]
    OBVIOUS
  <2>2. g = [t \in split |-> g[t]]
    OBVIOUS
  <2>3. h = [t \in split |-> h[t]]
    OBVIOUS
  <2>4. A = {f[t] : t \in affected \ split} /\ B = {g[t] : t \in split}
          /\ C = {h[t] : t \in split}
    OBVIOUS
  <2> HIDE DEF f, g, h, A, B, C
  <2>5. IsFiniteSet({f[t] : t \in affected \ split})
    BY <1>3, <2>1, FiniteImage
  <2>6. IsFiniteSet({g[t] : t \in split})
    BY <1>3, <2>2, FiniteImage
  <2>7. IsFiniteSet({h[t] : t \in split})
    BY <1>3, <2>3, FiniteImage
  <2> QED BY <2>4, <2>5, <2>6, <2>7
<1>9. IsFiniteSet((segments \ affected) \union A \union B \union C)
  <2> HIDE DEF A, B, C
  <2> QED BY <1>3, <1>8, FS_Union
<1>10. A \union B \union C \subseteq TemplateRow
  <2> HIDE DEF moved, cut, next
  <2> QED BY <1>7
<1>11. \E t \in (segments \ affected) \union A \union B \union C : t.until = Forever
  <2>1. PICK t \in segments : t.until = Forever
    BY DEF HasOpenTemplate
  <2> HIDE DEF moved, cut, next
  <2>2. CASE t \in segments \ affected
    BY <2>1, <2>2
  <2>3. CASE t \in affected \ split
    BY <1>7, <2>1, <2>3
  <2>4. CASE t \in split
    BY <1>7, <2>1, <2>4
  <2> QED BY <2>2, <2>3, <2>4
<1> HIDE DEF A, B, C
<1> QED BY <1>1, <1>6, <1>9, <1>10, <1>11 DEF HasOpenTemplate

-----------------------------------------------------------------------------
(***************************************************************************)
(* The inductive invariant.                                                *)
(***************************************************************************)
Open == {"active", "paused"}

\* The parts of ExactlyOnce, FiniteTotalRespected and HeadWhileOpen.
ExactAt(s) ==
    /\ \A o \in occurrences[s] : o.position \in 1..sources[s].count
    /\ \A p \in 1..sources[s].count : \E o \in occurrences[s] : o.position = p
    /\ \A o1, o2 \in occurrences[s] :
          o1.position = o2.position \/ Identity(o1) = Identity(o2) => o1 = o2

TotalAt(s) ==
    sources[s].total # NoTotal =>
        /\ sources[s].count <= sources[s].total
        /\ sources[s].lifecycle \in {"active", "paused"} => sources[s].count < sources[s].total
        /\ sources[s].lifecycle = "completed" => sources[s].count = sources[s].total

HeadAt(s) == heads[s] # NoHead <=> sources[s].lifecycle \in {"active", "paused"}

SourceSound(s) ==
    /\ ExactAt(s)
    /\ TotalAt(s)
    /\ HeadAt(s)
    /\ heads[s] # NoHead => ProperHead(schedules[s], heads[s])
    /\ sources[s].lifecycle = "none" => occurrences[s] = {}
    /\ sources[s].lifecycle # "none" =>
         HasOpen(schedules[s]) /\ HasOpenTemplate(templates[s])

\* The steps of a command that is under way on a source.
OnSource == {"update", "catchUp", "recheck", "reread", "lifecycle", "repair"}

\* What the validation of an edit established, while the revision it is
\* fenced by is still the source's.
EditSound(c) ==
    /\ c.revision <= sources[c.source].revision
    /\ c.revision = sources[c.source].revision =>
         /\ c.input.total = NoTotal \/ c.input.total >= sources[c.source].count
         /\ "count" \in c.apply => sources[c.source].lifecycle \in Open

CommandSound(c) ==
    /\ c.pc \in OnSource => sources[c.source].lifecycle # "none"
    /\ c.pc = "update" => EditSound(c)

IInv ==
    /\ TypeOK
    /\ \A s \in Sources : SourceSound(s)
    /\ \A w \in Workers : CommandSound(commands[w])

-----------------------------------------------------------------------------
(***************************************************************************)
(* The kinds of command.                                                   *)
(***************************************************************************)
\* The step a command is at tells which columns it has.
LEMMA CommandKinds ==
    ASSUME NEW c \in Command
    PROVE  /\ c.pc = "slice" => c \in SliceCommand
           /\ c.pc = "update" => c \in UpdateCommand
           /\ c.pc \in {"catchUp", "recheck", "reread", "lifecycle"} => c \in LifecycleCommand
           /\ c.pc = "repair" => c \in RepairCommand
           /\ c.pc \in OnSource => c.source \in Sources
BY DEF Command, SliceCommand, UpdateCommand, LifecycleCommand, RepairCommand, OnSource

\* Commands that are on no source in particular.
LEMMA PlainCommands ==
    /\ Idle \in Command /\ Idle.pc = "idle"
    /\ [pc |-> "retry"] \in Command
    /\ \A observed \in Nat : Slicing(observed) \in Command /\ Slicing(observed).pc = "slice"
BY DEF Command, Idle, Slicing, SliceCommand

-----------------------------------------------------------------------------
(***************************************************************************)
(* What a step must show. A control step changes one worker's command and  *)
(* nothing else of the database; a source step changes the rows of one     *)
(* source and moves its revision, or leaves what edits are validated       *)
(* against.                                                                *)
(***************************************************************************)
SameRows(s) ==
    /\ sources'[s] = sources[s] /\ schedules'[s] = schedules[s]
    /\ templates'[s] = templates[s] /\ heads'[s] = heads[s]
    /\ occurrences'[s] = occurrences[s]

Progressed(s) ==
    /\ sources[s].lifecycle # "none" => sources'[s].lifecycle # "none"
    /\ \/ sources'[s].revision > sources[s].revision
       \/ /\ sources'[s].revision = sources[s].revision
          /\ sources'[s].count = sources[s].count
          /\ sources'[s].lifecycle = sources[s].lifecycle

\* A source whose rows a step leaves alone stays sound.
LEMMA RowsKeepSound ==
    ASSUME NEW s \in Sources, SourceSound(s), SameRows(s)
    PROVE  SourceSound(s)'
BY DEF SourceSound, SameRows, ExactAt, TotalAt, HeadAt

\* A command stays sound while every source either keeps what edits are
\* validated against or moves its revision, which fences the edit out.
LEMMA SoundWhileProgressed ==
    ASSUME NEW c \in Command, CommandSound(c), TypeOK, TypeOK',
           \A s \in Sources : Progressed(s)
    PROVE  CommandSound(c)'
<1>1. CASE c.pc \in OnSource
  <2>1. c.source \in Sources
    BY <1>1, CommandKinds
  <2>2. Progressed(c.source)
    BY <2>1
  <2>3. /\ sources[c.source].revision \in Nat /\ sources'[c.source].revision \in Nat
    BY <2>1 DEF TypeOK, SourceRow
  <2>4. c.pc = "update" => c.revision \in Nat
    BY CommandKinds DEF UpdateCommand
  <2>5. CASE c.pc = "update"
    BY <2>2, <2>3, <2>4, <2>5 DEF CommandSound, EditSound, Progressed, OnSource
  <2>6. CASE c.pc # "update"
    BY <2>2, <2>6 DEF CommandSound, Progressed
  <2> QED BY <2>5, <2>6
<1>2. CASE c.pc \notin OnSource
  BY <1>2 DEF CommandSound, OnSource
<1> QED BY <1>1, <1>2

\* What a step of the writer thread must show.
LEMMA DatabaseStep ==
    ASSUME IInv, TypeOK',
           \A s \in Sources : SourceSound(s)',
           \A s \in Sources : Progressed(s),
           \A w \in Workers : \/ commands'[w] = commands[w]
                              \/ commands'[w].pc \notin OnSource
    PROVE  IInv'
<1>1. \A s \in Sources : SourceSound(s)'
  OBVIOUS
<1>2. \A s \in Sources : Progressed(s)
  OBVIOUS
<1>3. ASSUME NEW w \in Workers PROVE CommandSound(commands[w])'
  <2>1. CASE commands'[w] = commands[w]
    <3> DEFINE c == commands[w]
    <3>1. c \in Command /\ CommandSound(c) /\ TypeOK
      BY DEF IInv, TypeOK
    <3>3. \A d \in Command : CommandSound(d) =>
             /\ d.pc \in OnSource => sources'[d.source].lifecycle # "none"
             /\ d.pc = "update" =>
                  /\ d.revision <= sources'[d.source].revision
                  /\ d.revision = sources'[d.source].revision =>
                       /\ d.input.total = NoTotal
                            \/ d.input.total >= sources'[d.source].count
                       /\ "count" \in d.apply => sources'[d.source].lifecycle \in Open
      BY <1>2, <3>1, SoundWhileProgressed DEF CommandSound, EditSound
    <3> QED BY <2>1, <3>1, <3>3 DEF CommandSound, EditSound
  <2>2. CASE commands'[w].pc \notin OnSource
    BY <2>2 DEF CommandSound, OnSource
  <2> QED BY <2>1, <2>2
<1> QED BY <1>1, <1>3 DEF IInv

\* What a write to one source must show.
LEMMA SourceStep ==
    ASSUME IInv, NEW s \in Sources, TypeOK', SourceSound(s)', Progressed(s),
           \A t \in Sources \ {s} : SameRows(t),
           \A w \in Workers : \/ commands'[w] = commands[w]
                              \/ commands'[w].pc \notin OnSource
    PROVE  IInv'
<1>1. \A t \in Sources : SourceSound(t)'
  BY RowsKeepSound DEF IInv
<1>2. \A t \in Sources : Progressed(t)
  BY DEF SameRows, Progressed
<1> QED BY <1>1, <1>2, DatabaseStep

\* A step that writes nothing keeps the invariant if the commands are sound.
LEMMA ControlStep ==
    ASSUME IInv, UNCHANGED database, clock' \in 0..MaxClock, faults' \in 0..MaxFaults,
           commands' \in [Workers -> Command],
           \A w \in Workers : \/ commands'[w] = commands[w]
                              \/ commands'[w].pc \notin OnSource
                              \/ CommandSound(commands'[w])
    PROVE  IInv'
<1>1. /\ sources' = sources /\ schedules' = schedules /\ templates' = templates
      /\ heads' = heads /\ occurrences' = occurrences /\ failures' = failures
      /\ alerts' = alerts /\ categories' = categories
  BY DEF database
<1>2. TypeOK'
  BY <1>1 DEF IInv, TypeOK
<1>3. \A s \in Sources : SourceSound(s)'
  BY <1>1, RowsKeepSound DEF IInv, SameRows
<1>4. ASSUME NEW w \in Workers PROVE CommandSound(commands[w])'
  <2>1. CommandSound(commands'[w])
    BY DEF IInv, CommandSound, OnSource
  <2> QED BY <1>1, <2>1 DEF CommandSound, EditSound
<1> QED BY <1>2, <1>3, <1>4 DEF IInv

\* A worker takes up a sound command.
LEMMA BecomeControl ==
    ASSUME IInv, NEW w \in Workers, NEW c \in Command, CommandSound(c), Become(w, c),
           UNCHANGED <<database, clock>>, faults' \in 0..MaxFaults
    PROVE  IInv'
<1>1. /\ commands' = [commands EXCEPT ![w] = c] /\ commands \in [Workers -> Command]
      /\ clock \in 0..MaxClock
  BY DEF Become, IInv, TypeOK
<1>2. commands' \in [Workers -> Command]
  BY <1>1
<1>3. \A v \in Workers : commands'[v] = commands[v] \/ CommandSound(commands'[v])
  BY <1>1
<1> QED BY <1>1, <1>2, <1>3, ControlStep

-----------------------------------------------------------------------------
(***************************************************************************)
(* The control steps.                                                      *)
(***************************************************************************)
\* A worker gives up or ends.
LEMMA BecomeIdle ==
    ASSUME IInv, NEW w \in Workers, Become(w, Idle), UNCHANGED <<database, clock>>,
           faults' \in 0..MaxFaults
    PROVE  IInv'
<1>1. Idle \in Command /\ CommandSound(Idle)
  BY PlainCommands DEF CommandSound, OnSource
<1> QED BY <1>1, BecomeControl

\* A slice begins, or finds nothing due.
LEMMA SliceSteps ==
    ASSUME IInv, NEW w \in Workers, BeginSlice(w) \/ CaughtUp(w)
    PROVE  IInv'
<1>1. clock \in Nat /\ faults' \in 0..MaxFaults /\ commands[w] \in Command
  BY RecurringAssumption DEF IInv, TypeOK, BeginSlice, CaughtUp
<1>2. CASE BeginSlice(w)
  <2>1. Slicing(clock) \in Command /\ CommandSound(Slicing(clock))
    BY <1>1, PlainCommands DEF CommandSound, OnSource
  <2> QED BY <1>1, <1>2, <2>1, BecomeControl DEF BeginSlice
<1>3. CASE CaughtUp(w) /\ Pc(w) = "slice"
  BY <1>1, <1>3, BecomeIdle DEF CaughtUp
<1>4. CASE CaughtUp(w) /\ Pc(w) # "slice"
  <2> DEFINE c == [commands[w] EXCEPT !.pc = "recheck"]
  <2>1. commands[w] \in LifecycleCommand
    BY <1>1, <1>4, CommandKinds DEF CaughtUp, Pc
  <2>2. c \in LifecycleCommand /\ c.pc = "recheck" /\ c.source = commands[w].source
    BY <2>1 DEF LifecycleCommand
  <2>3. CommandSound(commands[w]) /\ commands[w].pc = "catchUp"
    BY <1>4 DEF IInv, CaughtUp, Pc
  <2>4. c \in Command /\ CommandSound(c)
    BY <2>2, <2>3 DEF Command, CommandSound, OnSource
  <2> HIDE DEF c
  <2>5. Become(w, c) /\ UNCHANGED <<database, clock>>
    BY <1>4 DEF CaughtUp, c
  <2> QED BY <1>1, <2>4, <2>5, BecomeControl
<1> QED BY <1>2, <1>3, <1>4

\* An error return writes nothing.
LEMMA FailingSteps ==
    ASSUME IInv, NEW w \in Workers, NEW s \in Sources,
           \/ ProcessError(w, s)
           \/ FailUpdate(w) \/ FailLifecycle(w) \/ FailRepair(w)
           \/ Contention(w)
    PROVE  IInv'
<1>1. faults \in 0..MaxFaults /\ MaxFaults \in Nat
  BY RecurringAssumption DEF IInv, TypeOK
<1>2. faults' \in 0..MaxFaults
  BY <1>1 DEF ProcessError, FailUpdate, FailLifecycle, FailRepair, Contention, Fault
<1>3. Become(w, Idle) /\ UNCHANGED <<database, clock>>
  BY DEF ProcessError, FailUpdate, FailLifecycle, FailRepair, Contention
<1> QED BY <1>2, <1>3, BecomeIdle

\* Time, the device's clock and crashes leave the database as it is.
LEMMA EnvironmentSteps ==
    ASSUME IInv, Tick \/ SetClockBack \/ Crash
    PROVE  IInv'
<1>1. /\ faults \in 0..MaxFaults /\ MaxFaults \in Nat
      /\ clock \in 0..MaxClock /\ MaxClock \in Nat
      /\ commands \in [Workers -> Command]
  BY RecurringAssumption DEF IInv, TypeOK
<1>2. faults' \in 0..MaxFaults
  BY <1>1 DEF Tick, SetClockBack, Crash, Fault
<1>3. UNCHANGED database /\ clock' \in 0..MaxClock
  BY <1>1 DEF Tick, SetClockBack, Crash
<1>4. commands' = commands \/ commands' = [w \in Workers |-> Idle]
  BY DEF Tick, SetClockBack, Crash
<1>5. Idle \in Command /\ Idle.pc \notin OnSource
  BY PlainCommands DEF OnSource
<1>6. commands' \in [Workers -> Command]
  BY <1>1, <1>4, <1>5
<1>7. \A w \in Workers : commands'[w] = commands[w] \/ commands'[w].pc \notin OnSource
  BY <1>4, <1>5
<1> QED BY <1>2, <1>3, <1>6, <1>7, ControlStep

\* The rows of a source have the columns' types.
LEMMA SourceOfRow ==
    ASSUME IInv, NEW s \in Sources
    PROVE  /\ sources[s] \in SourceRow
           /\ sources[s].total \in Nat /\ sources[s].count \in Nat
           /\ sources[s].revision \in Nat /\ sources[s].lifecycle \in Lifecycles
           /\ heads[s] \in HeadRow /\ heads[s].next \in Nat
           /\ schedules[s] \in Seq(ScheduleRow) /\ templates[s] \subseteq TemplateRow
BY DEF IInv, TypeOK, SourceRow, HeadRow

\* The document a client sends back is made of what it read and its edits.
LEMMA EditedDocumentType ==
    ASSUME IInv, NEW s \in Sources, Visible(s), NEW input \in EditedDocuments(s)
    PROVE  input \in Document
<1> DEFINE open     == schedules[s][OpenSchedule(schedules[s])]
           template == OpenTemplate(templates[s])
<1>1. HasOpen(schedules[s]) /\ HasOpenTemplate(templates[s])
  BY DEF IInv, SourceSound, Visible
<1>2. open.rule \in ScheduleRule /\ open.first \in Nat
  BY <1>1, SourceOfRow, OpenScheduleFound, RowRule
<1>3. template.description \in STRING /\ template.category \in Categories \union {NoCategory}
  BY <1>1, OpenTemplateFound, TemplateFields
<1>4. CurrentNext(s) \in Nat
  BY <1>2, SourceOfRow DEF CurrentNext
<1>5. sources[s].total \in Nat
  BY SourceOfRow
<1>6. input \in [rule        : {open.rule} \union EditRules,
                 next        : {CurrentNext(s)} \union EditNexts,
                 total       : {sources[s].total} \union EditTotals,
                 description : {template.description} \union EditDescriptions,
                 category    : {template.category} \union EditCategories]
  BY DEF EditedDocuments
<1> HIDE DEF open, template
<1> QED BY <1>2, <1>3, <1>4, <1>5, <1>6, RecurringAssumption DEF Document

\* update_inner up to the write establishes what its commit needs.
LEMMA BeginUpdateStep ==
    ASSUME IInv, NEW w \in Workers, NEW s \in Sources, Visible(s),
           NEW input \in EditedDocuments(s), BeginUpdate(w, s, input)
    PROVE  IInv'
<1> DEFINE changes == ConfigurationChanges(s, input)
           apply   == changes \union (IF DescriptionChanged(s, input)
                                      THEN {"description"} ELSE {})
           c == [pc |-> "update", source |-> s, revision |-> sources[s].revision,
                 observed |-> clock, input |-> input, apply |-> apply]
<1>1. input \in Document /\ sources[s].revision \in Nat
  BY EditedDocumentType, SourceOfRow
<1>2. clock \in Nat /\ faults \in 0..MaxFaults
  BY RecurringAssumption DEF IInv, TypeOK
<1>3. changes \subseteq {"schedule", "category", "count"}
  BY DEF ConfigurationChanges
<1>4. apply \subseteq {"schedule", "count", "category", "description"}
  BY <1>3
<1>5. /\ Become(w, c) /\ UNCHANGED <<clock, database, faults>>
      /\ input.total = NoTotal \/ input.total >= sources[s].count
      /\ changes # {} => ConfigurationEditAllowed(s)
  BY DEF BeginUpdate
<1>6. "count" \in apply => sources[s].lifecycle \in Open
  BY <1>5 DEF ConfigurationEditAllowed, Open
<1>7. sources[s].lifecycle # "none"
  BY DEF Visible
<1> HIDE DEF apply
<1>8. c \in Command
  BY <1>1, <1>2, <1>4 DEF Command, UpdateCommand
<1>9. CommandSound(c)
  BY <1>1, <1>5, <1>6, <1>7 DEF CommandSound, EditSound
<1> HIDE DEF c
<1> QED BY <1>2, <1>5, <1>8, <1>9, BecomeControl

\* A lifecycle command up to its commit.
LEMMA LifecycleSteps ==
    ASSUME IInv, NEW w \in Workers, NEW s \in Sources, NEW operation \in LifecycleCommands,
           BeginLifecycle(w, s, operation) \/ Recheck(w) \/ Reread(w)
    PROVE  IInv'
<1>1. /\ clock \in Nat /\ faults \in 0..MaxFaults
      /\ commands[w] \in Command /\ CommandSound(commands[w])
  BY RecurringAssumption DEF IInv, TypeOK
<1>2. CASE BeginLifecycle(w, s, operation)
  <2>1. PICK pc \in {"catchUp", "reread"} :
           Become(w, [pc |-> pc, operation |-> operation, source |-> s,
                      revision |-> sources[s].revision, observed |-> clock])
    BY <1>2 DEF BeginLifecycle
  <2> DEFINE c == [pc |-> pc, operation |-> operation, source |-> s,
                   revision |-> sources[s].revision, observed |-> clock]
  <2>2. sources[s].lifecycle # "none" /\ UNCHANGED <<clock, database, faults>>
    BY <1>2 DEF BeginLifecycle, Visible
  <2>3. c \in LifecycleCommand
    BY <1>1, SourceOfRow DEF LifecycleCommand
  <2>4. c \in Command /\ CommandSound(c)
    BY <2>2, <2>3 DEF Command, CommandSound
  <2> HIDE DEF c
  <2> QED BY <1>1, <2>1, <2>2, <2>4, BecomeControl DEF c
<1>3. CASE Recheck(w)
  <2> DEFINE c == [commands[w] EXCEPT !.pc = "reread"]
  <2>1. /\ Become(w, Idle) \/ Become(w, c)
        /\ UNCHANGED <<clock, database, faults>> /\ commands[w].pc = "recheck"
    BY <1>3 DEF Recheck, Pc
  <2>2. commands[w] \in LifecycleCommand
    BY <1>1, <2>1, CommandKinds
  <2>3. c \in LifecycleCommand /\ c.pc = "reread" /\ c.source = commands[w].source
    BY <2>2 DEF LifecycleCommand
  <2>4. c \in Command /\ CommandSound(c)
    BY <1>1, <2>1, <2>3 DEF Command, CommandSound, OnSource
  <2> HIDE DEF c
  <2> QED BY <1>1, <2>1, <2>4, BecomeControl, BecomeIdle
<1>4. CASE Reread(w)
  <2> DEFINE revision == sources[commands[w].source].revision
             c == [commands[w] EXCEPT !.pc = "lifecycle", !.revision = revision]
  <2>1. /\ Become(w, Idle) \/ Become(w, c)
        /\ UNCHANGED <<clock, database, faults>> /\ commands[w].pc = "reread"
    BY <1>4 DEF Reread, Pc
  <2>2. commands[w] \in LifecycleCommand /\ commands[w].source \in Sources
    BY <1>1, <2>1, CommandKinds DEF OnSource
  <2>3. revision \in Nat
    BY <2>2, SourceOfRow
  <2>4. c \in LifecycleCommand /\ c.pc = "lifecycle" /\ c.source = commands[w].source
    <3> HIDE DEF revision
    <3> QED BY <2>2, <2>3 DEF LifecycleCommand
  <2>5. c \in Command /\ CommandSound(c)
    BY <1>1, <2>1, <2>4 DEF Command, CommandSound, OnSource
  <2> HIDE DEF c
  <2> QED BY <1>1, <2>1, <2>5, BecomeControl, BecomeIdle
<1> QED BY <1>2, <1>3, <1>4

\* A repair up to its commit, and a retry.
LEMMA RepairSteps ==
    ASSUME IInv, NEW w \in Workers, NEW s \in Sources,
           NEW category \in Categories \union {NoCategory},
           BeginRepair(w, s, category) \/ Retry(w, s)
    PROVE  IInv'
<1>1. faults \in 0..MaxFaults /\ sources[s].revision \in Nat
  BY SourceOfRow DEF IInv, TypeOK
<1>2. CASE BeginRepair(w, s, category)
  <2> DEFINE c == [pc |-> "repair", source |-> s, revision |-> sources[s].revision,
                   category |-> category]
  <2>1. c \in Command
    BY <1>1 DEF Command, RepairCommand
  <2>2. CommandSound(c)
    BY <1>2 DEF BeginRepair, Visible, CommandSound
  <2>3. Become(w, c) /\ UNCHANGED <<clock, database, faults>>
    BY <1>2 DEF BeginRepair
  <2> HIDE DEF c
  <2> QED BY <1>1, <2>1, <2>2, <2>3, BecomeControl
<1>3. CASE Retry(w, s)
  <2>1. CommandSound([pc |-> "retry"]) /\ [pc |-> "retry"] \in Command
    BY PlainCommands DEF CommandSound, OnSource
  <2> QED BY <1>1, <1>3, <2>1, BecomeControl DEF Retry
<1> QED BY <1>2, <1>3

-----------------------------------------------------------------------------
(***************************************************************************)
(* Processing a due source: fulfill, park, heal.                           *)
(***************************************************************************)
\* A source that is processed is active and its head names a slot.
LEMMA ProcessedSource ==
    ASSUME IInv, NEW w \in Workers, NEW s \in Sources, Processing(w, s)
    PROVE  /\ sources[s].lifecycle = "active"
           /\ ProperHead(schedules[s], heads[s]) /\ HasOpen(schedules[s])
           /\ heads[s].rev \in Nat \ {0} /\ heads[s].ordinal \in Nat \ {0}
           /\ heads[s].next \in Nat
           /\ Eligible(s, commands[w].observed)
<1>1. Eligible(s, commands[w].observed)
  BY DEF Processing, NextDue
<1>2. sources[s].lifecycle = "active" /\ heads[s] # NoHead
  BY <1>1 DEF Eligible
<1>3. ProperHead(schedules[s], heads[s]) /\ HasOpen(schedules[s])
  BY <1>2 DEF IInv, SourceSound
<1>4. heads[s].rev \in DOMAIN schedules[s] /\ heads[s].ordinal \in Nat \ {0}
  BY <1>3 DEF ProperHead
<1>5. heads[s].rev \in Nat \ {0} /\ heads[s].next \in Nat
  BY <1>4, SourceOfRow, RowRule
<1> QED BY <1>1, <1>2, <1>3, <1>4, <1>5

\* After an occurrence the loop goes on or its budget is used up.
LEMMA ProcessingCommands ==
    ASSUME IInv, NEW w \in Workers, ContinueOrExhaust(w)
    PROVE  /\ commands' \in [Workers -> Command]
           /\ \A v \in Workers : commands'[v] = commands[v] \/ commands'[v].pc \notin OnSource
<1>1. commands \in [Workers -> Command]
  BY DEF IInv, TypeOK
<1>2. commands' = commands \/ commands' = [commands EXCEPT ![w] = Idle]
  BY DEF ContinueOrExhaust, Become
<1>3. Idle \in Command /\ Idle.pc \notin OnSource
  BY PlainCommands DEF OnSource
<1> QED BY <1>1, <1>2, <1>3

\* The head after an occurrence: none exactly when the total is reached.
LEMMA HeadAfterType ==
    ASSUME NEW revisions \in Seq(ScheduleRow), NEW rev \in DOMAIN revisions,
           NEW ordinal \in Nat \ {0}, NEW total \in Nat, NEW count \in Nat
    PROVE  /\ HeadAfter(total, count, revisions, rev, ordinal) \in HeadRow
           /\ Completes(total, count) =>
                HeadAfter(total, count, revisions, rev, ordinal) = NoHead
           /\ ~Completes(total, count) =>
                /\ ProperHead(revisions, HeadAfter(total, count, revisions, rev, ordinal))
                /\ HeadAfter(total, count, revisions, rev, ordinal) # NoHead
<1>1. ProperHead(revisions, NextHeadAfter(revisions, rev, ordinal))
  BY NextHeadAfterType
<1>2. NextHeadAfter(revisions, rev, ordinal) # NoHead
  BY <1>1, ProperIsNotNone
<1>3. NoHead \in HeadRow
  BY DEF NoHead, HeadRow
<1> QED BY <1>1, <1>2, <1>3 DEF HeadAfter, ProperHead

\* The source's row after an occurrence.
LEMMA FulfilledSourceType ==
    ASSUME NEW source \in SourceRow, source.lifecycle = "active", NEW count \in Nat
    PROVE  /\ FulfilledSource(source, count) \in SourceRow
           /\ FulfilledSource(source, count).count = count
           /\ FulfilledSource(source, count).total = source.total
           /\ FulfilledSource(source, count).revision = source.revision + 1
           /\ FulfilledSource(source, count).lifecycle =
                (IF Completes(source.total, count) THEN "completed" ELSE "active")
<1> DEFINE lifecycle == IF Completes(source.total, count) THEN "completed" ELSE "active"
           revision  == source.revision + 1
<1>1. FulfilledSource(source, count) =
        [source EXCEPT !.count = count, !.revision = revision, !.lifecycle = lifecycle]
  BY DEF FulfilledSource, SourceRow
<1>2. source.revision \in Nat /\ revision \in Nat /\ lifecycle \in Lifecycles
  BY DEF SourceRow, Lifecycles
<1> HIDE DEF lifecycle, revision
<1>3. FulfilledSource(source, count) \in SourceRow
  BY <1>1, <1>2 DEF SourceRow
<1>4. /\ FulfilledSource(source, count).count = count
      /\ FulfilledSource(source, count).total = source.total
      /\ FulfilledSource(source, count).revision = revision
      /\ FulfilledSource(source, count).lifecycle = lifecycle
  BY <1>1 DEF SourceRow
<1> QED BY <1>3, <1>4 DEF lifecycle, revision

\* A failure marked repaired or resolved is a failure.
LEMMA MarkedFailure ==
    ASSUME NEW f \in FailureRow
    PROVE  /\ [f EXCEPT !.resolved = TRUE] \in FailureRow
           /\ [f EXCEPT !.repaired = TRUE] \in FailureRow
BY DEF FailureRow

\* One more occurrence, at the next position and on a slot of its own.
LEMMA OneMore ==
    ASSUME NEW S, NEW count \in Nat, NEW o, o.position = count + 1,
           \A p \in S : p.position \in 1..count,
           \A n \in 1..count : \E p \in S : p.position = n,
           \A p, q \in S : p.position = q.position \/ Identity(p) = Identity(q) => p = q,
           \A p \in S : Identity(p) # Identity(o)
    PROVE  /\ \A p \in S \union {o} : p.position \in 1..count + 1
           /\ \A n \in 1..count + 1 : \E p \in S \union {o} : p.position = n
           /\ \A p, q \in S \union {o} :
                p.position = q.position \/ Identity(p) = Identity(q) => p = q
<1>1. \A p \in S \union {o} : p.position \in 1..count + 1
  OBVIOUS
<1>2. ASSUME NEW n \in 1..count + 1
      PROVE  \E p \in S \union {o} : p.position = n
  <2>1. n \in 1..count \/ n = count + 1
    OBVIOUS
  <2> QED BY <2>1
<1>3. \A p \in S : p.position # o.position
  OBVIOUS
<1>4. ASSUME NEW p \in S \union {o}, NEW q \in S \union {o},
             p.position = q.position \/ Identity(p) = Identity(q)
      PROVE  p = q
  <2>1. CASE p \in S /\ q \in S
    BY <1>4, <2>1
  <2>2. CASE p \in S /\ q = o
    BY <1>3, <1>4, <2>2
  <2>3. CASE p = o /\ q \in S
    BY <1>3, <1>4, <2>3
  <2> QED BY <2>1, <2>2, <2>3
<1> QED BY <1>1, <1>2, <1>4

\* fulfill_generated_occurrence adds the next position on a slot of its own.
LEMMA FulfillStep ==
    ASSUME IInv, NEW w \in Workers, NEW s \in Sources, ProcessFulfill(w, s)
    PROVE  IInv'
<1> DEFINE at    == heads[s]
           count == sources[s].count + 1
           total == sources[s].total
           new   == [rev |-> at.rev, ordinal |-> at.ordinal, at |-> at.next,
                     position |-> count, transaction |-> Generated]
           next  == HeadAfter(total, count, schedules[s], at.rev, at.ordinal)
           row   == FulfilledSource(sources[s], count)
           own   == OwnFailures(s)
<1>1. Processing(w, s) /\ Fulfill(s) /\ ContinueOrExhaust(w) /\ FulfilledAtHead(s) = {}
        /\ UNCHANGED <<clock, faults>>
  BY DEF ProcessFulfill
<1>2. /\ sources[s].lifecycle = "active" /\ ProperHead(schedules[s], at)
      /\ HasOpen(schedules[s]) /\ at.rev \in Nat \ {0} /\ at.ordinal \in Nat \ {0}
      /\ at.next \in Nat
  BY <1>1, ProcessedSource
<1>3. /\ sources[s] \in SourceRow /\ count \in Nat \ {0} /\ total \in Nat
      /\ sources[s].count \in Nat /\ sources[s].revision \in Nat
      /\ schedules[s] \in Seq(ScheduleRow)
  BY SourceOfRow
<1>4. /\ occurrences' = [occurrences EXCEPT ![s] = @ \union {new}]
      /\ sources' = [sources EXCEPT ![s] = row]
      /\ heads' = [heads EXCEPT ![s] = next]
      /\ UNCHANGED <<schedules, templates, categories>>
  BY <1>1 DEF Fulfill
<1>5. /\ failures' = [failures EXCEPT ![s] =
              (@ \ own) \union {[f EXCEPT !.resolved = TRUE] : f \in own}]
      /\ alerts' = [alerts EXCEPT ![s] = FulfilledAlerts(@, Identity(at), own # {})]
  BY <1>1 DEF Fulfill
<1>6. /\ next \in HeadRow
      /\ Completes(total, count) => next = NoHead
      /\ ~Completes(total, count) => next # NoHead /\ ProperHead(schedules[s], next)
  <2>1. at.rev \in DOMAIN schedules[s]
    BY <1>2 DEF ProperHead
  <2> HIDE DEF next
  <2> QED
    BY <1>2, <1>3, <2>1, HeadAfterType DEF next
<1>7. /\ row \in SourceRow /\ row.count = count /\ row.total = total
      /\ row.revision = sources[s].revision + 1
      /\ row.lifecycle = (IF Completes(total, count) THEN "completed" ELSE "active")
  BY <1>2, <1>3, FulfilledSourceType
<1>8. TypeOK'
  <2>1. new \in OccurrenceRow
    BY <1>2, <1>3 DEF OccurrenceRow
  <2>2. failures'[s] \subseteq FailureRow
    <3>1. own \subseteq failures[s] /\ failures[s] \subseteq FailureRow
      BY DEF IInv, TypeOK, OwnFailures, Unresolved
    <3> HIDE DEF own
    <3>2. \A f \in own : [f EXCEPT !.resolved = TRUE] \in FailureRow
      BY <3>1, MarkedFailure
    <3>3. failures'[s] = (failures[s] \ own) \union {[f EXCEPT !.resolved = TRUE] : f \in own}
      BY <1>5 DEF IInv, TypeOK
    <3> QED BY <3>1, <3>2, <3>3
  <2>3. alerts'[s] \subseteq AlertRow
    <3>1. \A kind \in {"occurrence", "failure"}, b \in BOOLEAN :
            AlertFor(kind, Identity(at), b) \in AlertRow
      BY <1>2 DEF AlertFor, AlertRow, Identity
    <3>2. alerts'[s] \subseteq alerts[s] \union
            {AlertFor("failure", Identity(at), FALSE), AlertFor("occurrence", Identity(at), TRUE)}
      <4> HIDE DEF own
      <4> QED BY <1>5 DEF FulfilledAlerts, IInv, TypeOK
    <3> QED BY <3>1, <3>2 DEF IInv, TypeOK
  <2> HIDE DEF new, row, next, own
  <2>4. /\ sources' \in [Sources -> SourceRow] /\ heads' \in [Sources -> HeadRow]
        /\ occurrences' \in [Sources -> SUBSET OccurrenceRow]
    BY <1>4, <1>6, <1>7, <2>1 DEF IInv, TypeOK
  <2>5. failures' \in [Sources -> SUBSET FailureRow] /\ alerts' \in [Sources -> SUBSET AlertRow]
    BY <1>5, <2>2, <2>3 DEF IInv, TypeOK
  <2> QED BY <1>1, <1>4, <2>4, <2>5, ProcessingCommands DEF IInv, TypeOK
<1>9. /\ sources'[s] = row /\ heads'[s] = next
      /\ occurrences'[s] = occurrences[s] \union {new}
      /\ schedules'[s] = schedules[s] /\ templates'[s] = templates[s]
  <2> HIDE DEF row, next, new
  <2> QED BY <1>4 DEF IInv, TypeOK
<1>10. SourceSound(s)'
  <2>1. /\ SourceSound(s)
    BY DEF IInv
  <2>2. ExactAt(s)'
    <3> DEFINE S == occurrences[s]
               n == sources[s].count
    <3>1. \A p \in S : Identity(p) # Identity(new)
      BY <1>1 DEF FulfilledAtHead, Identity
    <3>2. new.position = n + 1 /\ n \in Nat
      BY <1>3
    <3>3. /\ \A p \in S : p.position \in 1..n
          /\ \A i \in 1..n : \E p \in S : p.position = i
          /\ \A p, q \in S : p.position = q.position \/ Identity(p) = Identity(q) => p = q
      BY <2>1 DEF SourceSound, ExactAt
    <3>4. occurrences'[s] = S \union {new} /\ sources'[s].count = n + 1
      BY <1>7, <1>9
    <3> HIDE DEF new, S, n
    <3>5. /\ \A p \in S \union {new} : p.position \in 1..n + 1
          /\ \A i \in 1..n + 1 : \E p \in S \union {new} : p.position = i
          /\ \A p, q \in S \union {new} :
               p.position = q.position \/ Identity(p) = Identity(q) => p = q
      BY <3>1, <3>2, <3>3, OneMore
    <3> QED BY <3>4, <3>5 DEF ExactAt
  <2>3. TotalAt(s)'
    <3>1. total # NoTotal => sources[s].count < total
      BY <1>2, <2>1 DEF SourceSound, TotalAt
    <3> HIDE DEF row
    <3> QED BY <1>3, <1>7, <1>9, <3>1 DEF TotalAt, Completes, NoTotal
  <2> HIDE DEF row, next, new
  <2>4. HeadAt(s)'
    BY <1>6, <1>7, <1>9 DEF HeadAt
  <2>5. heads'[s] # NoHead => ProperHead(schedules'[s], heads'[s])
    BY <1>6, <1>9
  <2>6. sources'[s].lifecycle # "none" /\ HasOpen(schedules'[s]) /\ HasOpenTemplate(templates'[s])
    BY <1>2, <1>7, <1>9, <2>1 DEF SourceSound
  <2> QED BY <2>2, <2>3, <2>4, <2>5, <2>6 DEF SourceSound
<1>11. Progressed(s)
  <2> HIDE DEF row
  <2> QED BY <1>3, <1>7, <1>9 DEF Progressed
<1>12. \A t \in Sources \ {s} : SameRows(t)
  <2> HIDE DEF row, next, new
  <2> QED BY <1>4 DEF SameRows, IInv, TypeOK
<1> QED BY <1>1, <1>8, <1>10, <1>11, <1>12, ProcessingCommands, SourceStep

\* failed() touches only the failure and its alert.
LEMMA ParkStep ==
    ASSUME IInv, NEW w \in Workers, NEW s \in Sources, ProcessPark(w, s)
    PROVE  IInv'
<1> DEFINE at       == heads[s]
           earlier  == {f \in failures[s] : Identity(f) = Identity(at)}
           parkedAt == IF earlier = {} THEN at.next ELSE (CHOOSE f \in earlier : TRUE).at
           repairable == ~TemplateMissing(s)
           parked == [rev |-> at.rev, ordinal |-> at.ordinal, at |-> parkedAt,
                      repairable |-> repairable, repaired |-> FALSE, resolved |-> FALSE]
<1>1. Processing(w, s) /\ Park(s) /\ ContinueOrExhaust(w) /\ UNCHANGED <<clock, faults>>
  BY DEF ProcessPark
<1>2. /\ at.rev \in Nat \ {0} /\ at.ordinal \in Nat \ {0} /\ at.next \in Nat
  BY <1>1, ProcessedSource
<1>3. /\ failures' = [failures EXCEPT ![s] = (@ \ earlier) \union {parked}]
      /\ alerts' = [alerts EXCEPT ![s] = (@ \ {AlertFor("failure", at, FALSE)})
                                           \union {AlertFor("failure", at, TRUE)}]
      /\ UNCHANGED <<sources, schedules, templates, heads, occurrences, categories>>
  BY <1>1 DEF Park
<1>4. parked \in FailureRow
  <2>1. parkedAt \in Nat
    <3>1. earlier \subseteq FailureRow
      BY DEF IInv, TypeOK
    <3>2. \A f \in FailureRow : f.at \in Nat
      BY DEF FailureRow
    <3> HIDE DEF earlier
    <3> QED BY <1>2, <3>1, <3>2
  <2>2. repairable \in BOOLEAN
    BY DEF TemplateMissing
  <2> HIDE DEF parkedAt, repairable
  <2> QED BY <1>2, <2>1, <2>2 DEF FailureRow
<1>5. AlertFor("failure", at, TRUE) \in AlertRow
  BY <1>2 DEF AlertFor, AlertRow
<1> HIDE DEF earlier, parked
<1>6. TypeOK'
  <2>1. failures' \in [Sources -> SUBSET FailureRow]
    BY <1>3, <1>4 DEF IInv, TypeOK
  <2>2. alerts' \in [Sources -> SUBSET AlertRow]
    BY <1>3, <1>5 DEF IInv, TypeOK
  <2> QED BY <1>1, <1>3, <2>1, <2>2, ProcessingCommands DEF IInv, TypeOK
<1>7. \A t \in Sources : SameRows(t)
  BY <1>3 DEF SameRows
<1>8. SourceSound(s)' /\ Progressed(s)
  BY <1>7, RowsKeepSound DEF IInv, SameRows, Progressed
<1> QED BY <1>1, <1>6, <1>7, <1>8, ProcessingCommands, SourceStep

\* With the count exact and below the total a heal only moves the head: what
\* it repairs in the row of the source cannot be amiss.
LEMMA HealStep ==
    ASSUME IInv, NEW w \in Workers, NEW s \in Sources, ProcessHeal(w, s)
    PROVE  IInv'
<1>1. Processing(w, s) /\ Heal(s) /\ ContinueOrExhaust(w) /\ ~HealFails(s)
        /\ UNCHANGED <<clock, faults>>
  BY DEF ProcessHeal
<1> DEFINE total == sources[s].total
           next(o) == HeadAfter(total, o.position, schedules[s],
                                ScheduleAt(schedules[s], o.at), o.ordinal)
<1>2. PICK o \in FulfilledAtHead(s) :
        /\ sources' = [sources EXCEPT
              ![s].count     = IF CountLags(s, o) \/ Completes(total, o.position)
                               THEN o.position ELSE @,
              ![s].revision  = IF CountLags(s, o) THEN @ + 1 ELSE @,
              ![s].lifecycle = IF Completes(total, o.position) THEN "completed" ELSE @]
        /\ heads' = [heads EXCEPT ![s] = next(o)]
        /\ UNCHANGED <<schedules, templates, occurrences, failures, alerts, categories>>
  BY <1>1, Zenon DEF Heal
<1>3. /\ sources[s].lifecycle = "active" /\ HasOpen(schedules[s]) /\ heads[s] # NoHead
      /\ SourceSound(s)
  BY <1>1, ProcessedSource, ProperIsNotNone DEF IInv
<1>4. /\ sources[s] \in SourceRow /\ total \in Nat /\ sources[s].count \in Nat
      /\ schedules[s] \in Seq(ScheduleRow)
  BY SourceOfRow
<1>5. /\ o \in occurrences[s] /\ o.at \in Nat /\ o.ordinal \in Nat \ {0}
      /\ o.position \in Nat \ {0}
  BY DEF FulfilledAtHead, IInv, TypeOK, OccurrenceRow
<1>6. o.position \in 1..sources[s].count
  BY <1>3, <1>5 DEF SourceSound, ExactAt
<1>7. ~CountLags(s, o) /\ ~Completes(total, o.position)
  BY <1>3, <1>4, <1>5, <1>6 DEF CountLags, Completes, SourceSound, TotalAt
<1>8. sources' = sources
  <2>1. sources \in [Sources -> SourceRow]
    BY DEF IInv, TypeOK
  <2>2. sources' = [sources EXCEPT ![s].count = @, ![s].revision = @, ![s].lifecycle = @]
    BY <1>2, <1>7
  <2> QED BY <2>1, <2>2 DEF SourceRow
<1>9. ScheduleAt(schedules[s], o.at) \in DOMAIN schedules[s]
  <2>1. ScheduleAt(schedules[s], o.at) # 0
    BY <1>1 DEF HealFails
  <2> QED BY <1>4, <2>1, ScheduleAtType
<1>10. next(o) \in HeadRow /\ next(o) # NoHead /\ ProperHead(schedules[s], next(o))
  BY <1>4, <1>5, <1>7, <1>9, HeadAfterType
<1> HIDE DEF next
<1>11. TypeOK'
  <2>1. heads' \in [Sources -> HeadRow]
    BY <1>2, <1>10 DEF IInv, TypeOK
  <2> QED BY <1>1, <1>2, <1>8, <2>1, ProcessingCommands DEF IInv, TypeOK
<1>12. heads'[s] = next(o) /\ \A t \in Sources \ {s} : heads'[t] = heads[t]
  BY <1>2 DEF IInv, TypeOK
<1>13. SourceSound(s)'
  BY <1>2, <1>3, <1>8, <1>10, <1>12 DEF SourceSound, ExactAt, TotalAt, HeadAt
<1>14. Progressed(s) /\ \A t \in Sources \ {s} : SameRows(t)
  BY <1>2, <1>8, <1>12 DEF Progressed, SameRows
<1> QED BY <1>1, <1>11, <1>13, <1>14, ProcessingCommands, SourceStep

-----------------------------------------------------------------------------
(***************************************************************************)
(* create and adopt.                                                       *)
(***************************************************************************)
\* The fields of what create and adopt are asked for.
LEMMA DraftFields ==
    ASSUME NEW draft \in Drafts
    PROVE  /\ draft.rule \in ScheduleRule /\ draft.first \in Nat /\ draft.total \in Nat
           /\ draft.description \in STRING /\ draft.category \in Categories \union {NoCategory}
BY RecurringAssumption DEF Draft

\* The histories a new source starts with.
LEMMA NewHistories ==
    ASSUME NEW draft \in Drafts, NEW first \in Nat
    PROVE  /\ <<NewSchedule(draft, first)>> \in Seq(ScheduleRow)
           /\ HasOpen(<<NewSchedule(draft, first)>>)
           /\ 1 \in DOMAIN <<NewSchedule(draft, first)>>
           /\ HasOpenTemplate({NewTemplate(draft, first)})
<1>1. NewSchedule(draft, first) \in ScheduleRow /\ NewSchedule(draft, first).until = Forever
  BY DraftFields DEF NewSchedule, ScheduleRow
<1>2. NewTemplate(draft, first) \in TemplateRow /\ NewTemplate(draft, first).until = Forever
  BY DraftFields DEF NewTemplate, TemplateRow
<1>3. IsFiniteSet({NewTemplate(draft, first)})
  BY FS_Singleton
<1>4. HasOpenTemplate({NewTemplate(draft, first)})
  BY <1>2, <1>3 DEF HasOpenTemplate
<1> DEFINE row == NewSchedule(draft, first)
<1> HIDE DEF row
<1>5. row \in ScheduleRow /\ row.until = Forever
  BY <1>1 DEF row
<1>6. <<row>> \in Seq(ScheduleRow) /\ 1 \in DOMAIN <<row>> /\ <<row>>[1] = row
  BY <1>5
<1>7. HasOpen(<<row>>)
  BY <1>5, <1>6 DEF HasOpen
<1> QED BY <1>4, <1>6, <1>7 DEF row

\* create() starts a source with a head and no occurrence.
LEMMA CreateStep ==
    ASSUME IInv, NEW w \in Workers, NEW s \in Sources, NEW draft \in Drafts,
           Create(w, s, draft)
    PROVE  IInv'
<1> DEFINE first == FirstSlot(draft.rule, draft.first)
           row   == [lifecycle |-> "active", total |-> draft.total, count |-> 0,
                     revision |-> 1]
           history == <<NewSchedule(draft, first)>>
           segments == {NewTemplate(draft, first)}
           head  == [rev |-> 1, ordinal |-> 1, next |-> first]
<1>1. /\ sources[s] = NoSource
      /\ sources' = [sources EXCEPT ![s] = row]
      /\ schedules' = [schedules EXCEPT ![s] = history]
      /\ templates' = [templates EXCEPT ![s] = segments]
      /\ heads' = [heads EXCEPT ![s] = head]
      /\ UNCHANGED <<clock, occurrences, failures, alerts, categories, commands, faults>>
  BY DEF Create
<1>2. first \in Nat
  BY DraftFields, SlotBound DEF FirstSlot
<1> HIDE DEF first
<1>3. /\ history \in Seq(ScheduleRow) /\ HasOpen(history) /\ 1 \in DOMAIN history
      /\ HasOpenTemplate(segments)
  BY <1>2, NewHistories
<1>4. row \in SourceRow
  BY DraftFields DEF SourceRow, Lifecycles
<1>5. head \in HeadRow /\ ProperHead(history, head) /\ head # NoHead
  BY <1>2, <1>3 DEF HeadRow, ProperHead, NoHead
<1>6. row.lifecycle = "active" /\ row.count = 0 /\ row.total = draft.total /\ row.revision = 1
  OBVIOUS
<1> HIDE DEF row, history, segments, head
<1>7. TypeOK'
  BY <1>1, <1>3, <1>4, <1>5 DEF IInv, TypeOK, HasOpenTemplate
<1>8. /\ sources'[s] = row /\ schedules'[s] = history /\ templates'[s] = segments
      /\ heads'[s] = head /\ occurrences'[s] = occurrences[s]
  BY <1>1 DEF IInv, TypeOK
<1>9. occurrences[s] = {}
  BY <1>1 DEF IInv, SourceSound, NoSource
<1>10. ExactAt(s)'
  BY <1>6, <1>8, <1>9 DEF ExactAt
<1>11. TotalAt(s)'
  BY <1>6, <1>8, DraftFields DEF TotalAt, NoTotal
<1>12. SourceSound(s)'
  BY <1>3, <1>5, <1>6, <1>8, <1>10, <1>11 DEF SourceSound, HeadAt
<1>13. Progressed(s)
  BY <1>1, <1>6, <1>8 DEF Progressed, NoSource
<1>14. \A t \in Sources \ {s} : SameRows(t)
  BY <1>1 DEF SameRows, IInv, TypeOK
<1> QED BY <1>1, <1>7, <1>12, <1>13, <1>14, SourceStep

\* adopt_existing_transaction starts a source with one occurrence.
LEMMA AdoptStep ==
    ASSUME IInv, NEW w \in Workers, NEW s \in Sources, NEW draft \in Drafts,
           NEW transaction \in Manual, Adopt(w, s, draft, transaction)
    PROVE  IInv'
<1> DEFINE new   == [lifecycle |-> "active", total |-> draft.total, count |-> 0,
                     revision |-> 1]
           row   == FulfilledSource(new, 1)
           history == <<NewSchedule(draft, draft.first)>>
           segments == {NewTemplate(draft, draft.first)}
           head  == HeadAfter(draft.total, 1, history, 1, 1)
           first == [rev |-> 1, ordinal |-> 1, at |-> draft.first, position |-> 1,
                     transaction |-> transaction]
<1>1. /\ sources[s] = NoSource
      /\ sources' = [sources EXCEPT ![s] = row]
      /\ schedules' = [schedules EXCEPT ![s] = history]
      /\ templates' = [templates EXCEPT ![s] = segments]
      /\ heads' = [heads EXCEPT ![s] = head]
      /\ occurrences' = [occurrences EXCEPT ![s] = {first}]
      /\ Become(w, Slicing(clock))
      /\ UNCHANGED <<clock, failures, alerts, categories, faults>>
  BY DEF Adopt
<1>2. draft.first \in Nat /\ draft.total \in Nat /\ 1 \in Nat \ {0}
  BY DraftFields
<1>3. /\ history \in Seq(ScheduleRow) /\ HasOpen(history) /\ 1 \in DOMAIN history
      /\ HasOpenTemplate(segments)
  BY <1>2, NewHistories
<1>4. new \in SourceRow /\ new.lifecycle = "active" /\ new.total = draft.total
        /\ new.revision = 1
  BY <1>2 DEF SourceRow, Lifecycles
<1>5. first \in OccurrenceRow /\ first.position = 1
  BY <1>2 DEF OccurrenceRow
<1> HIDE DEF new, history, segments, first
<1>6. /\ row \in SourceRow /\ row.count = 1 /\ row.total = draft.total
      /\ row.revision = 2
      /\ row.lifecycle = (IF Completes(draft.total, 1) THEN "completed" ELSE "active")
  BY <1>2, <1>4, FulfilledSourceType
<1>7. /\ head \in HeadRow
      /\ Completes(draft.total, 1) => head = NoHead
      /\ ~Completes(draft.total, 1) => head # NoHead /\ ProperHead(history, head)
  BY <1>2, <1>3, HeadAfterType
<1> HIDE DEF row, head
<1>8. /\ commands' \in [Workers -> Command]
      /\ \A v \in Workers : commands'[v] = commands[v] \/ commands'[v].pc \notin OnSource
  <2>1. clock \in Nat /\ commands \in [Workers -> Command]
    BY RecurringAssumption DEF IInv, TypeOK
  <2>2. Slicing(clock) \in Command /\ Slicing(clock).pc \notin OnSource
    BY <2>1, PlainCommands DEF OnSource
  <2> QED BY <1>1, <2>1, <2>2 DEF Become
<1>9. TypeOK'
  BY <1>1, <1>3, <1>5, <1>6, <1>7, <1>8 DEF IInv, TypeOK, HasOpenTemplate
<1>10. /\ sources'[s] = row /\ schedules'[s] = history /\ templates'[s] = segments
       /\ heads'[s] = head /\ occurrences'[s] = {first}
  BY <1>1 DEF IInv, TypeOK
<1>11. ExactAt(s)'
  BY <1>5, <1>6, <1>10 DEF ExactAt
<1>12. TotalAt(s)'
  BY <1>2, <1>6, <1>10 DEF TotalAt, Completes, NoTotal
<1>13. SourceSound(s)'
  BY <1>3, <1>6, <1>7, <1>10, <1>11, <1>12 DEF SourceSound, HeadAt
<1>14. Progressed(s)
  BY <1>1, <1>6, <1>10 DEF Progressed, NoSource
<1>15. \A t \in Sources \ {s} : SameRows(t)
  BY <1>1 DEF SameRows, IInv, TypeOK
<1> QED BY <1>8, <1>9, <1>13, <1>14, <1>15, SourceStep

-----------------------------------------------------------------------------
(***************************************************************************)
(* The commits of update, of a lifecycle command and of a repair, and the  *)
(* deletion of a category.                                                 *)
(***************************************************************************)
\* The source of a command under way exists, with open revisions.
LEMMA CommandOnSource ==
    ASSUME IInv, NEW w \in Workers, commands[w].pc \in OnSource
    PROVE  /\ commands[w] \in Command /\ CommandSound(commands[w])
           /\ commands[w].source \in Sources
           /\ sources[commands[w].source].lifecycle # "none"
           /\ HasOpen(schedules[commands[w].source])
           /\ HasOpenTemplate(templates[commands[w].source])
<1>1. commands[w] \in Command /\ CommandSound(commands[w])
  BY DEF IInv, TypeOK
<1>2. commands[w].source \in Sources
  BY <1>1, CommandKinds
<1>3. sources[commands[w].source].lifecycle # "none"
  BY <1>1 DEF CommandSound
<1> QED BY <1>1, <1>2, <1>3 DEF IInv, SourceSound

\* A command that committed is on no source any more.
LEMMA IdleAfter ==
    ASSUME IInv, NEW w \in Workers, NEW c, c \in {Idle, [pc |-> "retry"]}, Become(w, c)
    PROVE  /\ commands' \in [Workers -> Command]
           /\ \A v \in Workers : commands'[v] = commands[v] \/ commands'[v].pc \notin OnSource
<1>1. c \in Command /\ c.pc \notin OnSource
  BY PlainCommands DEF OnSource
<1> QED BY <1>1 DEF Become, IInv, TypeOK

\* update() writes a total that was validated against an older count: the
\* fence of the revision makes it the present one.
LEMMA CommitUpdateStep ==
    ASSUME IInv, NEW w \in Workers, CommitUpdate(w),
           NEW s \in Sources, s = commands[w].source
    PROVE  IInv'
<1> DEFINE c     == commands[w]
           input == c.input
           done  == CompletesByEdit(c)
           history == IF "schedule" \in c.apply
                      THEN RevisedSchedules(schedules[s], input) ELSE schedules[s]
           segments == IF c.apply \intersect {"description", "category"} # {}
                       THEN RevisedTemplates(templates[s], input, c.observed)
                       ELSE templates[s]
           total == IF "count" \in c.apply THEN input.total ELSE sources[s].total
           lifecycle == IF done THEN "completed" ELSE sources[s].lifecycle
           revision  == sources[s].revision + 1
           row   == [sources[s] EXCEPT !.total = total, !.lifecycle = lifecycle,
                                       !.revision = revision]
           head  == IF done THEN NoHead
                    ELSE IF "schedule" \in c.apply
                    THEN RescheduledHead(heads[s], history, input) ELSE heads[s]
<1>1. c.pc = "update" /\ ~UpdateFails(c) /\ c.pc \in OnSource
  BY DEF CommitUpdate, Pc, OnSource
<1>2. /\ c \in Command /\ CommandSound(c) 
      /\ sources[s].lifecycle # "none"
      /\ HasOpen(schedules[s]) /\ HasOpenTemplate(templates[s])
  BY <1>1, CommandOnSource
<1>3. c \in UpdateCommand /\ input \in Document /\ c.observed \in Nat /\ input.total \in Nat
  BY <1>1, <1>2, CommandKinds DEF UpdateCommand, Document
<1>4. /\ sources[s] \in SourceRow /\ sources[s].total \in Nat /\ sources[s].count \in Nat
      /\ sources[s].revision \in Nat /\ sources[s].lifecycle \in Lifecycles
      /\ schedules[s] \in Seq(ScheduleRow) /\ heads[s] \in HeadRow
      /\ SourceSound(s)
  BY <1>2, SourceOfRow DEF IInv
<1>5. /\ input.total = NoTotal \/ input.total >= sources[s].count
      /\ "count" \in c.apply => sources[s].lifecycle \in Open
  BY <1>1, <1>2 DEF UpdateFails, Stale, CommandSound, EditSound
<1>6. /\ schedules' = [schedules EXCEPT ![s] = history]
      /\ templates' = [templates EXCEPT ![s] = segments]
      /\ heads' = [heads EXCEPT ![s] = head]
      /\ Become(w, Idle)
      /\ UNCHANGED <<clock, occurrences, failures, alerts, categories, faults>>
  <2>1. schedules \in [Sources -> Seq(ScheduleRow)] /\ heads \in [Sources -> HeadRow]
          /\ templates \in [Sources -> SUBSET TemplateRow]
    BY DEF IInv, TypeOK
  <2> QED BY <1>2, <2>1 DEF CommitUpdate
<1>7. sources' = [sources EXCEPT ![s] = row]
  <2>1. sources' = [sources EXCEPT ![s].total = IF "count" \in c.apply THEN input.total ELSE @,
                                   ![s].lifecycle = IF done THEN "completed" ELSE @,
                                   ![s].revision = @ + 1]
    BY DEF CommitUpdate
  <2>2. sources \in [Sources -> SourceRow]
    BY DEF IInv, TypeOK
  <2> HIDE DEF done
  <2> QED BY <1>2, <2>1, <2>2 DEF SourceRow
<1>8. /\ history \in Seq(ScheduleRow) /\ HasOpen(history)
      /\ DOMAIN schedules[s] \subseteq DOMAIN history
  BY <1>2, <1>3, <1>4, RevisedSchedulesType
<1>9. HasOpenTemplate(segments)
  BY <1>2, <1>3, RevisedTemplatesType
<1>10. done <=> "count" \in c.apply /\ input.total # NoTotal
                 /\ input.total = sources[s].count
  BY DEF CompletesByEdit
<1> HIDE DEF done, history, segments
<1>11. /\ head # NoHead => ProperHead(history, head)
       /\ head # NoHead <=> ~done /\ heads[s] # NoHead
  <2>1. heads[s] # NoHead => ProperHead(schedules[s], heads[s])
    BY <1>4 DEF SourceSound
  <2>2. heads[s] # NoHead => ProperHead(history, heads[s])
    BY <1>8, <2>1 DEF ProperHead
  <2>3. /\ heads[s] # NoHead => ProperHead(history, RescheduledHead(heads[s], history, input))
        /\ heads[s] = NoHead => RescheduledHead(heads[s], history, input) = NoHead
    BY <1>3, <1>8, <2>2, RescheduledHeadType
  <2>4. heads[s] # NoHead => RescheduledHead(heads[s], history, input) # NoHead
    BY <2>3, ProperIsNotNone
  <2> QED BY <2>2, <2>3, <2>4
<1>12. head \in HeadRow
  BY <1>11 DEF ProperHead, NoHead, HeadRow
<1>13. total \in Nat /\ lifecycle \in Lifecycles /\ lifecycle # "none" /\ revision \in Nat
  BY <1>2, <1>3, <1>4 DEF Lifecycles
<1>14. /\ row \in SourceRow /\ row.total = total /\ row.lifecycle = lifecycle
       /\ row.revision = revision /\ row.count = sources[s].count
  <2> HIDE DEF total, lifecycle, revision
  <2> QED BY <1>4, <1>13 DEF SourceRow
<1> HIDE DEF row, head
<1>15. TypeOK'
  <2>1. segments \subseteq TemplateRow
    BY <1>9 DEF HasOpenTemplate
  <2>2. commands' \in [Workers -> Command]
    BY <1>6, IdleAfter
  <2> QED BY <1>2, <1>6, <1>7, <1>8, <1>12, <1>14, <2>1, <2>2 DEF IInv, TypeOK
<1>16. /\ sources'[s] = row /\ schedules'[s] = history /\ templates'[s] = segments
       /\ heads'[s] = head /\ occurrences'[s] = occurrences[s]
  BY <1>2, <1>6, <1>7 DEF IInv, TypeOK
<1>17. TotalAt(s)'
  BY <1>4, <1>3, <1>5, <1>10, <1>14, <1>16 DEF SourceSound, TotalAt, Open
<1>18. HeadAt(s)'
  BY <1>4, <1>10, <1>11, <1>14, <1>16 DEF SourceSound, HeadAt
<1>19. ExactAt(s)'
  BY <1>4, <1>14, <1>16 DEF SourceSound, ExactAt
<1>20. SourceSound(s)'
  BY <1>8, <1>9, <1>11, <1>13, <1>14, <1>16, <1>17, <1>18, <1>19 DEF SourceSound
<1>21. Progressed(s)
  BY <1>4, <1>13, <1>14, <1>16 DEF Progressed
<1>22. \A t \in Sources \ {s} : SameRows(t)
  BY <1>2, <1>6, <1>7 DEF SameRows, IInv, TypeOK
<1>23. \A v \in Workers : commands'[v] = commands[v] \/ commands'[v].pc \notin OnSource
  BY <1>6, IdleAfter
<1> QED BY <1>2, <1>15, <1>20, <1>21, <1>22, <1>23, SourceStep

\* apply_lifecycle_command leaves a head exactly if the source stays open.
LEMMA CommitLifecycleStep ==
    ASSUME IInv, NEW w \in Workers, CommitLifecycle(w),
           NEW s \in Sources, s = commands[w].source
    PROVE  IInv'
<1> DEFINE c         == commands[w]
           operation == c.operation
           lifecycle == Target(operation)
           revision  == sources[s].revision + 1
           row  == [sources[s] EXCEPT !.lifecycle = lifecycle, !.revision = revision]
           head == CASE operation = "pause"  -> heads[s]
                     [] operation = "resume" -> SkippedHead(heads[s], schedules[s], c.observed)
                     [] operation \in {"stop", "delete"} -> NoHead
<1>1. c.pc = "lifecycle" /\ c.pc \in OnSource /\ TransitionAllowed(sources[s].lifecycle, operation)
  BY DEF CommitLifecycle, Pc, OnSource
<1>2. /\ c \in Command /\ sources[s].lifecycle # "none"
      /\ HasOpen(schedules[s]) /\ HasOpenTemplate(templates[s])
  BY <1>1, CommandOnSource
<1>3. c \in LifecycleCommand /\ operation \in LifecycleCommands /\ c.observed \in Nat
  BY <1>1, <1>2, CommandKinds DEF LifecycleCommand
<1>4. /\ sources[s] \in SourceRow /\ sources[s].total \in Nat /\ sources[s].count \in Nat
      /\ sources[s].revision \in Nat
      /\ schedules[s] \in Seq(ScheduleRow) /\ heads[s] \in HeadRow
      /\ SourceSound(s)
  BY <1>2, SourceOfRow DEF IInv
<1>5. /\ heads' = [heads EXCEPT ![s] = head]
      /\ Become(w, Idle)
      /\ UNCHANGED <<clock, schedules, templates, occurrences, failures, alerts,
                     categories, faults>>
  <2>1. heads \in [Sources -> HeadRow]
    BY DEF IInv, TypeOK
  <2> QED BY <1>2, <2>1 DEF CommitLifecycle
<1>6. sources' = [sources EXCEPT ![s] = row]
  <2>1. sources' = [sources EXCEPT ![s].lifecycle = lifecycle, ![s].revision = @ + 1]
    BY DEF CommitLifecycle
  <2>2. sources \in [Sources -> SourceRow]
    BY DEF IInv, TypeOK
  <2> HIDE DEF lifecycle
  <2> QED BY <1>2, <2>1, <2>2 DEF SourceRow
<1>7. /\ operation \in {"pause", "resume", "stop", "delete"}
      /\ operation = "pause" => sources[s].lifecycle = "active" /\ lifecycle = "paused"
      /\ operation = "resume" => sources[s].lifecycle = "paused" /\ lifecycle = "active"
      /\ operation = "stop" => lifecycle = "stopped"
      /\ operation = "delete" => lifecycle = "tombstoned"
  BY <1>1, <1>3 DEF TransitionAllowed, Target, LifecycleCommands
<1>8. lifecycle \in Lifecycles /\ lifecycle # "none" /\ lifecycle # "completed"
  BY <1>7 DEF Lifecycles
<1>9. /\ row \in SourceRow /\ row.lifecycle = lifecycle
      /\ row.revision = sources[s].revision + 1
      /\ row.count = sources[s].count /\ row.total = sources[s].total
  <2>1. revision \in Nat
    BY <1>4
  <2> HIDE DEF lifecycle, revision
  <2>2. /\ row \in SourceRow /\ row.lifecycle = lifecycle /\ row.revision = revision
        /\ row.count = sources[s].count /\ row.total = sources[s].total
    BY <1>4, <1>8, <2>1 DEF SourceRow
  <2> QED BY <2>2 DEF revision
<1>10. /\ head \in HeadRow
       /\ head # NoHead => ProperHead(schedules[s], head)
       /\ head # NoHead <=> lifecycle \in {"active", "paused"}
  <2>1. CASE operation = "pause"
    BY <1>4, <1>7, <2>1 DEF SourceSound, HeadAt
  <2>2. CASE operation = "resume"
    <3>1. heads[s] # NoHead /\ ProperHead(schedules[s], heads[s])
      BY <1>4, <1>7, <2>2 DEF SourceSound, HeadAt
    <3>2. ProperHead(schedules[s], SkippedHead(heads[s], schedules[s], c.observed))
      BY <1>2, <1>3, <1>4, <3>1, SkippedHeadLands
    <3>3. head = SkippedHead(heads[s], schedules[s], c.observed)
      BY <2>2
    <3>4. head # NoHead
      BY <3>2, <3>3, ProperIsNotNone
    <3> QED BY <1>7, <2>2, <3>2, <3>3, <3>4 DEF ProperHead
  <2>3. CASE operation \in {"stop", "delete"}
    <3>1. head = NoHead
      BY <2>3
    <3> QED BY <1>7, <2>3, <3>1 DEF NoHead, HeadRow
  <2> HIDE DEF head, lifecycle
  <2> QED BY <1>7, <2>1, <2>2, <2>3
<1> HIDE DEF row, head, lifecycle
<1>11. TypeOK'
  <2>1. commands' \in [Workers -> Command]
    BY <1>5, IdleAfter
  <2> QED BY <1>2, <1>5, <1>6, <1>9, <1>10, <2>1 DEF IInv, TypeOK
<1>12. /\ sources'[s] = row /\ schedules'[s] = schedules[s]
       /\ templates'[s] = templates[s] /\ heads'[s] = head
       /\ occurrences'[s] = occurrences[s]
  BY <1>2, <1>5, <1>6 DEF IInv, TypeOK
<1>13. TotalAt(s)'
  BY <1>4, <1>7, <1>8, <1>9, <1>12 DEF SourceSound, TotalAt
<1>14. ExactAt(s)' /\ HeadAt(s)'
  BY <1>4, <1>9, <1>10, <1>12 DEF SourceSound, ExactAt, HeadAt
<1>15. SourceSound(s)'
  BY <1>2, <1>8, <1>9, <1>10, <1>12, <1>13, <1>14 DEF SourceSound
<1>16. Progressed(s)
  BY <1>4, <1>8, <1>9, <1>12 DEF Progressed
<1>17. \A t \in Sources \ {s} : SameRows(t)
  BY <1>2, <1>5, <1>6 DEF SameRows, IInv, TypeOK
<1>18. \A v \in Workers : commands'[v] = commands[v] \/ commands'[v].pc \notin OnSource
  BY <1>5, IdleAfter
<1> QED BY <1>2, <1>11, <1>15, <1>16, <1>17, <1>18, SourceStep

\* apply_generation_repair recuts the template and marks the failure.
LEMMA CommitRepairStep ==
    ASSUME IInv, NEW w \in Workers, CommitRepair(w),
           NEW s \in Sources, s = commands[w].source
    PROVE  IInv'
<1> DEFINE c        == commands[w]
           affected == Unfulfilled(templates[s], heads[s])
           split    == {t \in affected : t.from < heads[s].next
                                           /\ t # OpenTemplate(templates[s])}
           segments == Recategorized(templates[s], affected, split, heads[s], c.category)
           revision == sources[s].revision + 1
           row      == [sources[s] EXCEPT !.revision = revision]
           parked   == {IF f.resolved THEN f ELSE [f EXCEPT !.repaired = TRUE] : f \in failures[s]}
<1>1. c.pc = "repair" /\ c.pc \in OnSource
  BY DEF CommitRepair, Pc, OnSource
<1>2. /\ c \in Command /\ sources[s].lifecycle # "none"
      /\ HasOpen(schedules[s]) /\ HasOpenTemplate(templates[s])
  BY <1>1, CommandOnSource
<1>3. c.category \in Categories \union {NoCategory}
  BY <1>1, <1>2, CommandKinds DEF RepairCommand
<1>4. sources[s] \in SourceRow /\ sources[s].revision \in Nat /\ heads[s] \in HeadRow
        /\ SourceSound(s)
  BY SourceOfRow DEF IInv
<1>5. /\ templates' = [templates EXCEPT ![s] = segments]
      /\ failures' = [failures EXCEPT ![s] = parked]
      /\ Become(w, [pc |-> "retry"])
      /\ UNCHANGED <<clock, schedules, heads, occurrences, alerts, categories, faults>>
  <2>1. templates \in [Sources -> SUBSET TemplateRow] /\ failures \in [Sources -> SUBSET FailureRow]
    BY DEF IInv, TypeOK
  <2> QED BY <2>1 DEF CommitRepair
<1>6. sources' = [sources EXCEPT ![s] = row]
  <2>1. sources' = [sources EXCEPT ![s].revision = @ + 1]
    BY DEF CommitRepair
  <2>2. sources \in [Sources -> SourceRow]
    BY DEF IInv, TypeOK
  <2> QED BY <2>1, <2>2 DEF SourceRow
<1>7. HasOpenTemplate(segments)
  <2>1. affected \subseteq templates[s] /\ split \subseteq affected
    BY DEF Unfulfilled
  <2> HIDE DEF affected, split
  <2> QED BY <1>2, <1>3, <1>4, <2>1, RecategorizedType
<1>8. parked \subseteq FailureRow
  <2>1. \A f \in failures[s] : f \in FailureRow /\ [f EXCEPT !.repaired = TRUE] \in FailureRow
    BY MarkedFailure DEF IInv, TypeOK
  <2> QED BY <2>1
<1>9. /\ row \in SourceRow /\ row.revision = sources[s].revision + 1
      /\ row.lifecycle = sources[s].lifecycle
      /\ row.count = sources[s].count /\ row.total = sources[s].total
  BY <1>4 DEF SourceRow
<1> HIDE DEF affected, split, segments, row, parked
<1>10. TypeOK'
  <2>1. commands' \in [Workers -> Command]
    BY <1>5, IdleAfter
  <2> QED BY <1>5, <1>6, <1>7, <1>8, <1>9, <2>1 DEF IInv, TypeOK, HasOpenTemplate
<1>11. /\ sources'[s] = row /\ schedules'[s] = schedules[s]
       /\ templates'[s] = segments /\ heads'[s] = heads[s]
       /\ occurrences'[s] = occurrences[s]
  BY <1>5, <1>6 DEF IInv, TypeOK
<1>12. SourceSound(s)'
  BY <1>4, <1>7, <1>9, <1>11 DEF SourceSound, ExactAt, TotalAt, HeadAt
<1>13. Progressed(s)
  BY <1>4, <1>9, <1>11 DEF Progressed
<1>14. \A t \in Sources \ {s} : SameRows(t)
  BY <1>5, <1>6 DEF SameRows, IInv, TypeOK
<1>15. \A v \in Workers : commands'[v] = commands[v] \/ commands'[v].pc \notin OnSource
  BY <1>5, IdleAfter
<1> QED BY <1>10, <1>12, <1>13, <1>14, <1>15, SourceStep

\* A category's deletion recuts the templates of every source that uses it.
LEMMA DeleteCategoryStep ==
    ASSUME IInv, NEW w \in Workers, NEW category \in Categories, DeleteCategory(w, category)
    PROVE  IInv'
<1> DEFINE affected(s) == IF heads[s] = NoHead THEN {}
                          ELSE {t \in Unfulfilled(templates[s], heads[s]) :
                                   t.category = category}
           split(s)    == {t \in affected(s) : t.from < heads[s].next}
           segments(s) == Recategorized(templates[s], affected(s), split(s), heads[s], NoCategory)
           row(s)      == IF affected(s) = {} THEN sources[s]
                          ELSE [sources[s] EXCEPT !.revision = @ + 1]
<1>1. /\ templates' = [s \in Sources |-> segments(s)]
      /\ sources' = [s \in Sources |-> row(s)]
      /\ categories' = categories \ {category}
      /\ UNCHANGED <<clock, schedules, heads, occurrences, failures, alerts, commands, faults>>
  BY DEF DeleteCategory
<1>2. ASSUME NEW s \in Sources
      PROVE  /\ row(s) \in SourceRow
             /\ row(s).revision \in {sources[s].revision, sources[s].revision + 1}
             /\ row(s).lifecycle = sources[s].lifecycle
             /\ row(s).count = sources[s].count /\ row(s).total = sources[s].total
  <2>1. sources[s] \in SourceRow /\ sources[s].revision \in Nat
    BY SourceOfRow
  <2> HIDE DEF affected
  <2> QED BY <2>1 DEF SourceRow
<1>3. ASSUME NEW s \in Sources
      PROVE  /\ segments(s) \subseteq TemplateRow
             /\ HasOpenTemplate(templates[s]) => HasOpenTemplate(segments(s))
  <2>1. affected(s) \subseteq templates[s] /\ split(s) \subseteq affected(s)
    BY DEF Unfulfilled
  <2>2. CASE HasOpenTemplate(templates[s])
    <3> HIDE DEF affected, split
    <3>1. heads[s] \in HeadRow
      BY SourceOfRow
    <3> QED BY <2>1, <2>2, <3>1, RecategorizedType DEF HasOpenTemplate
  <2>3. CASE ~HasOpenTemplate(templates[s])
    <3>1. heads[s] = NoHead
      BY <2>3 DEF IInv, SourceSound, HeadAt
    <3>2. affected(s) = {} /\ split(s) = {}
      BY <3>1
    <3> HIDE DEF affected, split
    <3>3. segments(s) = templates[s]
      BY <3>2 DEF Recategorized
    <3> QED BY <2>3, <3>3, SourceOfRow
  <2> QED BY <2>2, <2>3
<1> HIDE DEF segments, row
<1>4. TypeOK'
  BY <1>1, <1>2, <1>3 DEF IInv, TypeOK
<1>5. ASSUME NEW s \in Sources
      PROVE  SourceSound(s)' /\ Progressed(s)
  <2>1. /\ sources'[s] = row(s) /\ templates'[s] = segments(s)
        /\ schedules'[s] = schedules[s] /\ heads'[s] = heads[s]
        /\ occurrences'[s] = occurrences[s]
    BY <1>1
  <2>2. SourceSound(s)'
    BY <1>2, <1>3, <2>1 DEF IInv, SourceSound, ExactAt, TotalAt, HeadAt
  <2>3. Progressed(s)
    BY <1>2, <2>1, SourceOfRow DEF Progressed
  <2> QED BY <2>2, <2>3
<1> QED BY <1>1, <1>4, <1>5, DatabaseStep

-----------------------------------------------------------------------------
(***************************************************************************)
(* The invariant.                                                          *)
(***************************************************************************)
\* The empty database satisfies the invariant.
LEMMA InitIInv == Init => IInv
<1> SUFFICES ASSUME Init PROVE IInv
  OBVIOUS
<1>1. NoSource \in SourceRow /\ NoHead \in HeadRow /\ Idle \in Command
  BY PlainCommands DEF NoSource, NoTotal, SourceRow, Lifecycles, NoHead, HeadRow
<1>2. <<>> \in Seq(ScheduleRow)
  OBVIOUS
<1>3. TypeOK
  BY <1>1, <1>2, RecurringAssumption DEF Init, TypeOK
<1>4. ASSUME NEW s \in Sources PROVE SourceSound(s)
  <2>1. sources[s] = NoSource /\ heads[s] = NoHead /\ occurrences[s] = {}
    BY DEF Init
  <2> QED BY <2>1 DEF SourceSound, ExactAt, TotalAt, HeadAt, NoSource
<1>5. ASSUME NEW w \in Workers PROVE CommandSound(commands[w])
  <2>1. commands[w] = Idle
    BY DEF Init
  <2> QED BY <2>1 DEF CommandSound, OnSource, Idle
<1> QED BY <1>3, <1>4, <1>5 DEF IInv

\* Every step keeps the invariant.
LEMMA NextIInv == IInv /\ [Next]_vars => IInv'
<1> SUFFICES ASSUME IInv, [Next]_vars PROVE IInv'
  OBVIOUS
<1>1. ASSUME NEW w \in Workers, Process(w) PROVE IInv'
  BY <1>1, SliceSteps, FulfillStep, ParkStep, HealStep, FailingSteps DEF Process
<1>2. ASSUME NEW w \in Workers, Proceed(w) PROVE IInv'
  <2>1. CASE CommitUpdate(w) \/ CommitLifecycle(w) \/ CommitRepair(w)
    <3>1. commands[w].pc \in OnSource
      BY <2>1 DEF CommitUpdate, CommitLifecycle, CommitRepair, Pc, OnSource
    <3>2. commands[w].source \in Sources
      BY <3>1, CommandOnSource
    <3> QED BY <2>1, <3>2, CommitUpdateStep, CommitLifecycleStep, CommitRepairStep, ZenonT(30)
  <2>2. CASE FailUpdate(w) \/ FailLifecycle(w) \/ FailRepair(w)
    <3>1. faults \in 0..MaxFaults
      BY DEF IInv, TypeOK
    <3> QED BY <2>2, <3>1, BecomeIdle DEF FailUpdate, FailLifecycle, FailRepair
  <2>3. CASE Recheck(w) \/ Reread(w)
    <3>1. commands[w].pc \in OnSource
      BY <2>3 DEF Recheck, Reread, Pc, OnSource
    <3>2. commands[w].source \in Sources /\ "pause" \in LifecycleCommands
      BY <3>1, CommandOnSource DEF LifecycleCommands
    <3> QED BY <2>3, <3>2, LifecycleSteps
  <2> QED BY <1>2, <2>1, <2>2, <2>3 DEF Proceed
<1>3. ASSUME NEW w \in Workers, Begin(w) PROVE IInv'
  BY <1>3, CreateStep, AdoptStep, BeginUpdateStep, LifecycleSteps, RepairSteps,
     DeleteCategoryStep, Zenon DEF Begin
<1>4. CASE Environment
  <2>1. CASE \E w \in Workers : Contention(w)
    <3>1. PICK w \in Workers : Contention(w)
      BY <2>1
    <3>2. faults' \in 0..MaxFaults
      BY <3>1, RecurringAssumption DEF IInv, TypeOK, Contention, Fault
    <3> QED BY <3>1, <3>2, BecomeIdle DEF Contention
  <2> QED BY <1>4, <2>1, EnvironmentSteps DEF Environment
<1>5. CASE UNCHANGED vars
  <2>1. UNCHANGED database /\ commands' = commands /\ clock' = clock /\ faults' = faults
    BY <1>5 DEF vars
  <2> QED BY <2>1, ControlStep DEF IInv, TypeOK
<1> QED BY <1>1, <1>2, <1>3, <1>4, <1>5 DEF Next

\* The inductive invariant holds in every reachable state.
THEOREM Invariance == Spec => []IInv
BY InitIInv, NextIInv, PTL DEF Spec

-----------------------------------------------------------------------------
\* Whatever commands, slices, crashes and clock changes interleave, every
\* table keeps its types.
THEOREM Typing == Spec => []TypeOK
<1>1. IInv => TypeOK
  BY DEF IInv
<1> QED BY <1>1, Invariance, PTL

\* No slot is fulfilled twice and fulfilled_count is the number of the
\* source's occurrences, for any number of workers processing at once.
THEOREM OccurrencesExact == Spec => []ExactlyOnce
<1>1. IInv => ExactlyOnce
  BY DEF IInv, SourceSound, ExactAt, ExactlyOnce
<1> QED BY <1>1, Invariance, PTL

\* No interleaving of an edit of the total with processing exceeds it or
\* leaves a source open that has reached it.
THEOREM TotalsRespected == Spec => []FiniteTotalRespected
<1>1. IInv => FiniteTotalRespected
  BY DEF IInv, SourceSound, TotalAt, FiniteTotalRespected
<1> QED BY <1>1, Invariance, PTL

\* A source has a head exactly while it is active or paused.
THEOREM HeadsWhileOpen == Spec => []HeadWhileOpen
<1>1. IInv => HeadWhileOpen
  BY DEF IInv, SourceSound, HeadAt, HeadWhileOpen
<1> QED BY <1>1, Invariance, PTL

-----------------------------------------------------------------------------
(***************************************************************************)
(* An ended source is final: it has no head, so that no slice takes it up, *)
(* and an edit of its total was read before it ended and is fenced out.    *)
(***************************************************************************)
Ended == {"stopped", "completed", "tombstoned"}

Final(s) ==
    sources[s].lifecycle \in Ended =>
        /\ occurrences'[s] = occurrences[s]
        /\ sources'[s].lifecycle \in {sources[s].lifecycle, "tombstoned"}

\* A write to another source leaves an ended one alone.
LEMMA RowsFinal ==
    ASSUME NEW s \in Sources, SameRows(s)
    PROVE  Final(s)
BY DEF Final, SameRows

\* Processing an occurrence of a source leaves those that ended alone.
LEMMA ProcessFinal ==
    ASSUME IInv, NEW w \in Workers, Process(w), NEW s \in Sources
    PROVE  Final(s)
<1>1. ASSUME BeginSlice(w) \/ CaughtUp(w) \/ \E t \in Sources : ProcessError(w, t)
      PROVE  Final(s)
  <2>1. UNCHANGED database
    BY <1>1 DEF BeginSlice, CaughtUp, ProcessError
  <2> QED BY <2>1, RowsFinal DEF database, SameRows
<1>2. ASSUME NEW t \in Sources,
             ProcessFulfill(w, t) \/ ProcessPark(w, t) \/ ProcessHeal(w, t)
      PROVE  Final(s)
  <2>1. sources[t].lifecycle = "active"
    BY <1>2, ProcessedSource DEF ProcessFulfill, ProcessPark, ProcessHeal
  <2>2. CASE s = t
    BY <2>1, <2>2 DEF Final, Ended
  <2>3. CASE s # t
    <3>1. sources \in [Sources -> SourceRow] /\ occurrences \in [Sources -> SUBSET OccurrenceRow]
      BY DEF IInv, TypeOK
    <3>2. sources'[s] = sources[s] /\ occurrences'[s] = occurrences[s]
      BY <1>2, <2>3, <3>1
      DEF ProcessFulfill, ProcessPark, ProcessHeal, Fulfill, Park, Heal
    <3> QED BY <3>2 DEF Final
  <2> QED BY <2>2, <2>3
<1> QED BY <1>1, <1>2 DEF Process

\* The commit of a command: an edit completes only an open source, and the
\* only transition out of an end is the deletion.
LEMMA ProceedFinal ==
    ASSUME IInv, NEW w \in Workers, Proceed(w), NEW s \in Sources
    PROVE  Final(s)
<1> DEFINE c == commands[w]
<1>1. sources \in [Sources -> SourceRow]
  BY DEF IInv, TypeOK
<1>2. CASE CommitUpdate(w)
  <2>1. c.pc = "update" /\ c.pc \in OnSource /\ ~Stale(c)
    BY <1>2 DEF CommitUpdate, Pc, OnSource, UpdateFails
  <2>2. c.source \in Sources /\ CommandSound(c)
    BY <2>1, CommandOnSource
  <2>3. CompletesByEdit(c) => sources[c.source].lifecycle \in Open
    BY <2>1, <2>2 DEF CompletesByEdit, CommandSound, EditSound, Stale
  <2>4. /\ occurrences' = occurrences
        /\ sources'[s].lifecycle = (IF s = c.source /\ CompletesByEdit(c) THEN "completed"
                                    ELSE sources[s].lifecycle)
    <3>1. sources' = [sources EXCEPT
             ![c.source].total     = IF "count" \in c.apply THEN c.input.total ELSE @,
             ![c.source].lifecycle = IF CompletesByEdit(c) THEN "completed" ELSE @,
             ![c.source].revision  = @ + 1]
      BY <1>2 DEF CommitUpdate
    <3> QED BY <1>1, <1>2, <2>2, <3>1, SMTT(30) DEF CommitUpdate, SourceRow
  <2> QED BY <2>3, <2>4 DEF Final, Ended, Open
<1>3. CASE CommitLifecycle(w)
  <2>1. c.pc = "lifecycle" /\ c.pc \in OnSource
    BY <1>3 DEF CommitLifecycle, Pc, OnSource
  <2>2. c.source \in Sources /\ c.operation \in LifecycleCommands
    BY <2>1, CommandOnSource, CommandKinds DEF LifecycleCommand
  <2>3. TransitionAllowed(sources[c.source].lifecycle, c.operation)
    BY <1>3 DEF CommitLifecycle
  <2>4. sources[c.source].lifecycle \in Ended => Target(c.operation) = "tombstoned"
    BY <2>2, <2>3 DEF TransitionAllowed, Target, Ended, LifecycleCommands
  <2>5. sources' = [sources EXCEPT ![c.source].lifecycle = Target(c.operation),
                                   ![c.source].revision = @ + 1]
          /\ occurrences' = occurrences
    BY <1>3 DEF CommitLifecycle
  <2>6. sources'[s].lifecycle = (IF s = c.source THEN Target(c.operation)
                                 ELSE sources[s].lifecycle)
    BY <1>1, <2>2, <2>5 DEF SourceRow
  <2> QED BY <2>4, <2>5, <2>6 DEF Final
<1>4. CASE CommitRepair(w)
  <2>1. c.source \in Sources
    <3>1. c.pc \in OnSource
      BY <1>4 DEF CommitRepair, Pc, OnSource
    <3> QED BY <3>1, CommandOnSource
  <2>2. /\ sources' = [sources EXCEPT ![c.source].revision = @ + 1]
        /\ occurrences' = occurrences
    BY <1>4 DEF CommitRepair
  <2>3. sources'[s].lifecycle = sources[s].lifecycle
    BY <1>1, <2>1, <2>2 DEF SourceRow
  <2> QED BY <2>2, <2>3 DEF Final
<1>5. ASSUME FailUpdate(w) \/ Recheck(w) \/ Reread(w) \/ FailLifecycle(w) \/ FailRepair(w)
      PROVE  Final(s)
  <2>1. UNCHANGED database
    BY <1>5 DEF FailUpdate, Recheck, Reread, FailLifecycle, FailRepair
  <2> QED BY <2>1, RowsFinal DEF database, SameRows
<1> QED BY <1>2, <1>3, <1>4, <1>5 DEF Proceed

\* A command that begins: create and adopt take an unused id.
LEMMA BeginFinal ==
    ASSUME IInv, NEW w \in Workers, Begin(w), NEW s \in Sources
    PROVE  Final(s)
<1>1. sources \in [Sources -> SourceRow] /\ occurrences \in [Sources -> SUBSET OccurrenceRow]
  BY DEF IInv, TypeOK
<1>2. ASSUME NEW t \in Sources, NEW draft \in Drafts,
             \/ Create(w, t, draft)
             \/ \E transaction \in Manual : Adopt(w, t, draft, transaction)
      PROVE  Final(s)
  <2>1. sources[t] = NoSource
    BY <1>2 DEF Create, Adopt
  <2>2. CASE s = t
    BY <2>1, <2>2 DEF Final, Ended, NoSource
  <2>3. CASE s # t
    BY <1>1, <1>2, <2>3 DEF Final, Create, Adopt
  <2> QED BY <2>2, <2>3
<1>3. ASSUME NEW t \in Sources,
             \/ \E input \in EditedDocuments(t) : BeginUpdate(w, t, input)
             \/ \E operation \in LifecycleCommands : BeginLifecycle(w, t, operation)
             \/ \E category \in Categories \union {NoCategory} : BeginRepair(w, t, category)
             \/ Retry(w, t)
      PROVE  Final(s)
  <2>1. UNCHANGED database
    BY <1>3 DEF BeginUpdate, BeginLifecycle, BeginRepair, Retry
  <2> QED BY <2>1, RowsFinal DEF database, SameRows
<1>4. ASSUME NEW category \in Categories, DeleteCategory(w, category)
      PROVE  Final(s)
  <2>1. /\ occurrences' = occurrences
        /\ \/ sources'[s] = sources[s]
           \/ sources'[s] = [sources[s] EXCEPT !.revision = @ + 1]
    BY <1>4 DEF DeleteCategory
  <2> QED BY <1>1, <2>1 DEF Final, SourceRow
<1> QED BY <1>2, <1>3, <1>4 DEF Begin

\* A stopped, completed or deleted source records nothing more, whatever
\* slice or edit was under way when it ended, and can only be deleted.
THEOREM EndsAreFinal == Spec => EndIsFinal
<1>1. IInv /\ [Next]_vars => [\A s \in Sources : Final(s)]_vars
  <2> SUFFICES ASSUME IInv, Next PROVE \A s \in Sources : Final(s)
    OBVIOUS
  <2>1. ASSUME Environment, NEW s \in Sources PROVE Final(s)
    <3>1. UNCHANGED database
      BY <2>1 DEF Environment, Tick, SetClockBack, Crash, Contention
    <3> QED BY <3>1, RowsFinal DEF database, SameRows
  <2> QED BY <2>1, ProcessFinal, ProceedFinal, BeginFinal DEF Next
<1>2. Spec => [][\A s \in Sources : Final(s)]_vars
  BY <1>1, Invariance, PTL DEF Spec
<1>3. [][\A s \in Sources : Final(s)]_vars => EndIsFinal
  <2>1. [\A s \in Sources : Final(s)]_vars =>
          [\A s \in Sources : sources[s].lifecycle \in {"stopped", "completed", "tombstoned"} =>
             /\ occurrences'[s] = occurrences[s]
             /\ sources'[s].lifecycle \in {sources[s].lifecycle, "tombstoned"}]_vars
    BY DEF Final, Ended
  <2> QED BY <2>1, PTL DEF EndIsFinal
<1> QED BY <1>2, <1>3, PTL

-----------------------------------------------------------------------------
(***************************************************************************)
(* A resumption skips: it moves the head past its own observation and      *)
(* generates nothing. No other step commits a lifecycle command.           *)
(***************************************************************************)
Skips(w, s) ==
    /\ CommitsLifecycle(w, s)
    /\ sources[s].lifecycle = "paused" /\ sources'[s].lifecycle = "active"
    => /\ heads'[s].next > commands[w].observed
       /\ schedules'[s] = schedules[s]
       /\ sources'[s].count = sources[s].count

\* Only worker w's own commit both changes the source of its lifecycle
\* command and ends the command.
LEMMA CommitIsOwn ==
    ASSUME IInv, Next, NEW w \in Workers, NEW s \in Sources, CommitsLifecycle(w, s)
    PROVE  CommitLifecycle(w)
<1>1. commands[w].pc = "lifecycle" /\ commands'[w].pc = "idle" /\ sources'[s] # sources[s]
  BY DEF CommitsLifecycle
<1>2. commands \in [Workers -> Command]
  BY DEF IInv, TypeOK
<1>3. ASSUME Environment PROVE FALSE
  BY <1>1, <1>3 DEF Environment, Tick, SetClockBack, Crash, Contention, database
<1>4. ASSUME NEW v \in Workers, Process(v) PROVE FALSE
  <2>1. Pc(v) \in {"idle", "retry", "slice", "catchUp"}
    BY <1>4 DEF Process, BeginSlice, CaughtUp, ProcessFulfill, ProcessPark, ProcessHeal,
                ProcessError, Processing
  <2>2. \/ commands' = commands
        \/ \E c : commands' = [commands EXCEPT ![v] = c]
    BY <1>4 DEF Process, BeginSlice, CaughtUp, ProcessFulfill, ProcessPark, ProcessHeal,
                ProcessError, ContinueOrExhaust, Become
  <2>3. v # w
    BY <1>1, <2>1 DEF Pc
  <2> QED BY <1>1, <1>2, <2>2, <2>3
<1>5. ASSUME NEW v \in Workers, Begin(v) PROVE FALSE
  <2>1. Pc(v) = "idle"
    BY <1>5, ZenonT(40) DEF Begin, Operating, Create, Adopt, BeginUpdate, BeginLifecycle, BeginRepair,
                Retry, DeleteCategory
  <2>2. \/ commands' = commands
        \/ \E c : commands' = [commands EXCEPT ![v] = c]
    BY <1>5, ZenonT(40) DEF Begin, Create, Adopt, BeginUpdate, BeginLifecycle, BeginRepair, Retry,
                DeleteCategory, Become
  <2>3. v # w
    BY <1>1, <2>1 DEF Pc
  <2> QED BY <1>1, <1>2, <2>2, <2>3
<1>6. ASSUME NEW v \in Workers, Proceed(v) PROVE CommitLifecycle(w)
  <2>1. \E c : commands' = [commands EXCEPT ![v] = c]
    BY <1>6 DEF Proceed, CommitUpdate, FailUpdate, Recheck, Reread, CommitLifecycle,
                FailLifecycle, CommitRepair, FailRepair, Become
  <2>2. v = w
    BY <1>1, <1>2, <2>1
  <2> QED BY <1>1, <1>6, <2>2, ZenonT(30)
     DEF Proceed, CommitUpdate, FailUpdate, Recheck, Reread, FailLifecycle, CommitRepair,
         FailRepair, Pc, database
<1> QED BY <1>3, <1>4, <1>5, <1>6 DEF Next

\* The commit of a resumption.
LEMMA ResumeSkips ==
    ASSUME IInv, Next, NEW w \in Workers, NEW s \in Sources
    PROVE  Skips(w, s)
<1> DEFINE c == commands[w]
<1> SUFFICES ASSUME CommitsLifecycle(w, s),
                    sources[s].lifecycle = "paused", sources'[s].lifecycle = "active"
             PROVE  /\ heads'[s].next > c.observed
                    /\ schedules'[s] = schedules[s]
                    /\ sources'[s].count = sources[s].count
  BY DEF Skips
<1>1. CommitLifecycle(w) /\ c.source = s /\ c.pc = "lifecycle"
  BY CommitIsOwn DEF CommitsLifecycle
<1>2. c \in LifecycleCommand /\ c.operation \in LifecycleCommands /\ c.observed \in Nat
  <2>1. c \in Command
    BY DEF IInv, TypeOK
  <2> QED BY <1>1, <2>1, CommandKinds DEF LifecycleCommand
<1>3. /\ sources \in [Sources -> SourceRow] /\ heads \in [Sources -> HeadRow]
      /\ schedules[s] \in Seq(ScheduleRow)
  BY DEF IInv, TypeOK
<1>4. /\ sources' = [sources EXCEPT ![s].lifecycle = Target(c.operation),
                                    ![s].revision = @ + 1]
      /\ schedules' = schedules
  BY <1>1 DEF CommitLifecycle
<1>5. sources'[s].lifecycle = Target(c.operation) /\ sources'[s].count = sources[s].count
  BY <1>3, <1>4 DEF SourceRow
<1>6. c.operation = "resume"
  BY <1>2, <1>5 DEF Target, LifecycleCommands
<1>7. heads'[s] = SkippedHead(heads[s], schedules[s], c.observed)
  BY <1>1, <1>3, <1>6 DEF CommitLifecycle
<1>8. ProperHead(schedules[s], heads[s]) /\ HasOpen(schedules[s])
  BY DEF IInv, SourceSound, HeadAt
<1> QED BY <1>2, <1>3, <1>4, <1>5, <1>7, <1>8, SkippedHeadLands

\* What fell due while a source was paused stays skipped, whichever revision
\* the head is in and whatever the calendar rule.
THEOREM ResumptionSkips == Spec => SkippedStaySkipped
<1> DEFINE A == \A w \in Workers, s \in Sources : Skips(w, s)
<1>1. IInv /\ [Next]_vars => [A]_vars
  BY ResumeSkips
<1>2. Spec => [][A]_vars
  BY <1>1, Invariance, PTL DEF Spec
<1>3. [][A]_vars => SkippedStaySkipped
  <2>1. [A]_vars =>
          [\A w \in Workers, s \in Sources :
              /\ CommitsLifecycle(w, s)
              /\ sources[s].lifecycle = "paused" /\ sources'[s].lifecycle = "active"
              => /\ heads'[s].next > commands[w].observed
                 /\ schedules'[s] = schedules[s]
                 /\ sources'[s].count = sources[s].count]_vars
    BY DEF Skips
  <2> QED BY <2>1, PTL DEF SkippedStaySkipped
<1> QED BY <1>2, <1>3, PTL

-----------------------------------------------------------------------------
(***************************************************************************)
(* A step that records an occurrence of a transaction entered by hand is   *)
(* an adoption, which finds it in no source.                               *)
(***************************************************************************)
\* The step leaves the occurrences of every source, or adds one to one source
\* that is generated or of a transaction no source has.
RecordsOne ==
    \/ occurrences' = occurrences
    \/ \E s \in Sources, o \in OccurrenceRow :
         /\ \/ occurrences' = [occurrences EXCEPT ![s] = @ \union {o}]
            \/ occurrences[s] = {} /\ occurrences' = [occurrences EXCEPT ![s] = {o}]
         /\ o.transaction = Generated \/ o.transaction \notin Adopted

LEMMA NextRecordsOne ==
    ASSUME IInv, IInv', [Next]_vars
    PROVE  RecordsOne
<1>1. /\ occurrences \in [Sources -> SUBSET OccurrenceRow]
      /\ occurrences' \in [Sources -> SUBSET OccurrenceRow]
  BY DEF IInv, TypeOK
<1>2. ASSUME NEW w \in Workers, NEW s \in Sources, ProcessFulfill(w, s)
      PROVE  RecordsOne
  <2> DEFINE o == [rev |-> heads[s].rev, ordinal |-> heads[s].ordinal, at |-> heads[s].next,
                   position |-> sources[s].count + 1, transaction |-> Generated]
  <2>1. occurrences' = [occurrences EXCEPT ![s] = @ \union {o}]
    BY <1>2 DEF ProcessFulfill, Fulfill
  <2>2. o \in OccurrenceRow
    <3> HIDE DEF o
    <3>1. o \in occurrences'[s]
      BY <1>1, <2>1
    <3> QED BY <1>1, <3>1
  <2> QED BY <2>1, <2>2 DEF RecordsOne
<1>3. ASSUME NEW w \in Workers, NEW s \in Sources, NEW draft \in Drafts,
             NEW transaction \in Manual, Adopt(w, s, draft, transaction)
      PROVE  RecordsOne
  <2> DEFINE o == [rev |-> 1, ordinal |-> 1, at |-> draft.first, position |-> 1,
                   transaction |-> transaction]
  <2>1. occurrences' = [occurrences EXCEPT ![s] = {o}] /\ sources[s] = NoSource
        /\ o.transaction \notin Adopted
    BY <1>3 DEF Adopt
  <2>2. occurrences[s] = {}
    BY <2>1 DEF IInv, SourceSound, NoSource
  <2>3. o \in OccurrenceRow
    <3> HIDE DEF o
    <3>1. o \in occurrences'[s]
      BY <1>1, <2>1
    <3> QED BY <1>1, <3>1
  <2> QED BY <2>1, <2>2, <2>3 DEF RecordsOne
<1>4. ASSUME NEW w \in Workers, Process(w) PROVE RecordsOne
  BY <1>2, <1>4, ZenonT(40) DEF Process, BeginSlice, CaughtUp, ProcessPark, ProcessHeal, ProcessError,
                    Park, Heal, RecordsOne, database
<1>5. ASSUME NEW w \in Workers, Proceed(w) PROVE RecordsOne
  BY <1>5 DEF Proceed, CommitUpdate, FailUpdate, Recheck, Reread, CommitLifecycle,
              FailLifecycle, CommitRepair, FailRepair, RecordsOne, database
<1>6. ASSUME NEW w \in Workers, Begin(w) PROVE RecordsOne
  BY <1>3, <1>6 DEF Begin, Create, BeginUpdate, BeginLifecycle, BeginRepair, Retry,
                    DeleteCategory, RecordsOne, database
<1>7. CASE Environment \/ UNCHANGED vars
  BY <1>7 DEF Environment, Tick, SetClockBack, Crash, Contention, RecordsOne, database, vars
<1> QED BY <1>4, <1>5, <1>6, <1>7 DEF Next

\* One more occurrence keeps what is entered by hand in one place.
LEMMA RecordsOneKeeps ==
    ASSUME IInv, RecordsOne, OneOccurrencePerTransaction
    PROVE  OneOccurrencePerTransaction'
<1>1. occurrences \in [Sources -> SUBSET OccurrenceRow]
  BY DEF IInv, TypeOK
<1>2. CASE occurrences' = occurrences
  BY <1>2 DEF OneOccurrencePerTransaction
<1>3. ASSUME NEW s \in Sources, NEW o \in OccurrenceRow,
             \/ occurrences' = [occurrences EXCEPT ![s] = @ \union {o}]
             \/ occurrences[s] = {} /\ occurrences' = [occurrences EXCEPT ![s] = {o}],
             o.transaction = Generated \/ o.transaction \notin Adopted
      PROVE  OneOccurrencePerTransaction'
  <2>1. \A t \in Sources : \A p \in occurrences'[t] : p \in occurrences[t] \/ (t = s /\ p = o)
    BY <1>1, <1>3
  <2>2. \A t \in Sources : \A p \in occurrences[t] :
           o.transaction # Generated => p.transaction # o.transaction
    <3> SUFFICES ASSUME NEW t \in Sources, NEW p \in occurrences[t],
                        o.transaction # Generated, p.transaction = o.transaction
                 PROVE  FALSE
      OBVIOUS
    <3>1. p \in UNION {occurrences[r] : r \in Sources}
      OBVIOUS
    <3>2. p.transaction \in Adopted
      BY <3>1 DEF Adopted
    <3> QED BY <1>3, <3>2
  <2> QED BY <2>1, <2>2 DEF OneOccurrencePerTransaction
<1> QED BY <1>2, <1>3 DEF RecordsOne

\* No two sources, and no two occurrences of one, share a transaction entered
\* by hand, for any number of clients adopting at once.
THEOREM AdoptedOnce == Spec => []OneOccurrencePerTransaction
<1>1. Init => OneOccurrencePerTransaction
  BY DEF Init, OneOccurrencePerTransaction
<1>2. IInv /\ IInv' /\ OneOccurrencePerTransaction /\ [Next]_vars
        => OneOccurrencePerTransaction'
  BY NextRecordsOne, RecordsOneKeeps
<1> QED BY <1>1, <1>2, Invariance, PTL DEF Spec

-----------------------------------------------------------------------------
(***************************************************************************)
(* AlertsAgree, one source at a time: the slots of generated occurrences   *)
(* and of unresolved failures against those of the alerts.                 *)
(***************************************************************************)
GeneratedSlots(rows)  == {Identity(o) : o \in {p \in rows : p.transaction = Generated}}
UnresolvedSlots(rows) == {Identity(f) : f \in {g \in rows : ~g.resolved}}
AlertedSlots(rows)    == {Identity(a) : a \in {b \in rows : b.kind = "occurrence"}}
OpenFailureSlots(rows) == {Identity(a) : a \in {b \in rows : b.kind = "failure" /\ b.open}}

AlertsMatch(recorded, failed, rows) ==
    /\ GeneratedSlots(recorded) = AlertedSlots(rows)
    /\ UnresolvedSlots(failed) = OpenFailureSlots(rows)

\* AlertsAgree says that of every source.
LEMMA AlertsAgreeBySource ==
    AlertsAgree <=> \A s \in Sources : AlertsMatch(occurrences[s], failures[s], alerts[s])
BY DEF AlertsAgree, AlertsMatch, GeneratedSlots, UnresolvedSlots, AlertedSlots,
       OpenFailureSlots, Unresolved

\* An alert is named by its kind, its slot and whether it is open.
LEMMA AlertIsNamed ==
    ASSUME NEW kind, NEW slot, NEW open, NEW a \in AlertRow,
           a.kind = kind, a.open = open, Identity(a) = Identity(slot)
    PROVE  a = AlertFor(kind, slot, open)
<1>1. a = [kind |-> a.kind, rev |-> a.rev, ordinal |-> a.ordinal, open |-> a.open]
  BY DEF AlertRow
<1>2. a.rev = slot.rev /\ a.ordinal = slot.ordinal
  BY DEF Identity
<1> QED BY <1>1, <1>2 DEF AlertFor

\* The alerts the two sets are made of.
OccurrenceAlerts(rows)  == {b \in rows : b.kind = "occurrence"}
OpenFailureAlerts(rows) == {b \in rows : b.kind = "failure" /\ b.open}

\* Their slots.
LEMMA SlotsOfAlerts ==
    ASSUME NEW rows
    PROVE  /\ AlertedSlots(rows) = {Identity(a) : a \in OccurrenceAlerts(rows)}
           /\ OpenFailureSlots(rows) = {Identity(a) : a \in OpenFailureAlerts(rows)}
BY DEF AlertedSlots, OpenFailureSlots, OccurrenceAlerts, OpenFailureAlerts

\* An occurrence's alert adds its slot ...
LEMMA OccurrenceAlertAdded ==
    ASSUME NEW rows, NEW slot
    PROVE  /\ AlertedSlots(rows \union {AlertFor("occurrence", slot, TRUE)})
                = AlertedSlots(rows) \union {Identity(slot)}
           /\ OpenFailureSlots(rows \union {AlertFor("occurrence", slot, TRUE)})
                = OpenFailureSlots(rows)
<1> DEFINE a == AlertFor("occurrence", slot, TRUE)
<1>1. a.kind = "occurrence" /\ Identity(a) = Identity(slot)
  BY DEF AlertFor, Identity
<1> HIDE DEF a
<1>2. /\ OccurrenceAlerts(rows \union {a}) = OccurrenceAlerts(rows) \union {a}
      /\ OpenFailureAlerts(rows \union {a}) = OpenFailureAlerts(rows)
  BY <1>1 DEF OccurrenceAlerts, OpenFailureAlerts
<1>3. {Identity(x) : x \in OccurrenceAlerts(rows) \union {a}}
        = {Identity(x) : x \in OccurrenceAlerts(rows)} \union {Identity(a)}
  OBVIOUS
<1> QED BY <1>1, <1>2, <1>3, SlotsOfAlerts DEF a

\* ... and a failure's alert, opened ...
LEMMA FailureAlertOpened ==
    ASSUME NEW rows, NEW slot
    PROVE  /\ AlertedSlots(rows \union {AlertFor("failure", slot, TRUE)}) = AlertedSlots(rows)
           /\ OpenFailureSlots(rows \union {AlertFor("failure", slot, TRUE)})
                = OpenFailureSlots(rows) \union {Identity(slot)}
<1> DEFINE a == AlertFor("failure", slot, TRUE)
<1>1. a.kind = "failure" /\ a.open /\ Identity(a) = Identity(slot)
  BY DEF AlertFor, Identity
<1> HIDE DEF a
<1>2. /\ OccurrenceAlerts(rows \union {a}) = OccurrenceAlerts(rows)
      /\ OpenFailureAlerts(rows \union {a}) = OpenFailureAlerts(rows) \union {a}
  BY <1>1 DEF OccurrenceAlerts, OpenFailureAlerts
<1>3. {Identity(x) : x \in OpenFailureAlerts(rows) \union {a}}
        = {Identity(x) : x \in OpenFailureAlerts(rows)} \union {Identity(a)}
  OBVIOUS
<1> QED BY <1>1, <1>2, <1>3, SlotsOfAlerts DEF a

\* ... or taken away while open, its own;
LEMMA FailureAlertClosed ==
    ASSUME NEW rows, rows \subseteq AlertRow, NEW slot
    PROVE  /\ AlertedSlots(rows \ {AlertFor("failure", slot, TRUE)}) = AlertedSlots(rows)
           /\ OpenFailureSlots(rows \ {AlertFor("failure", slot, TRUE)})
                = OpenFailureSlots(rows) \ {Identity(slot)}
<1> DEFINE a == AlertFor("failure", slot, TRUE)
<1>1. a.kind = "failure" /\ a.open /\ Identity(a) = Identity(slot)
  BY DEF AlertFor, Identity
<1>0. \A b \in AlertRow :
         b.kind = "failure" /\ b.open = TRUE /\ Identity(b) = Identity(slot) => b = a
  BY AlertIsNamed
<1> HIDE DEF a
<1>2. /\ OccurrenceAlerts(rows \ {a}) = OccurrenceAlerts(rows)
      /\ OpenFailureAlerts(rows \ {a}) = OpenFailureAlerts(rows) \ {a}
  BY <1>1 DEF OccurrenceAlerts, OpenFailureAlerts
<1>3. \A b \in OpenFailureAlerts(rows) : Identity(b) = Identity(slot) => b = a
  <2>1. \A b \in OpenFailureAlerts(rows) : b \in AlertRow /\ b.kind = "failure" /\ b.open
    BY DEF OpenFailureAlerts
  <2>2. \A b \in AlertRow : b.open \in BOOLEAN
    BY DEF AlertRow
  <2> QED BY <1>0, <2>1, <2>2
<1>4. {Identity(x) : x \in OpenFailureAlerts(rows) \ {a}}
        = {Identity(x) : x \in OpenFailureAlerts(rows)} \ {Identity(slot)}
  BY <1>1, <1>3
<1> QED BY <1>2, <1>4, SlotsOfAlerts DEF a

\* a resolved one may come and go.
LEMMA ResolvedAlertIgnored ==
    ASSUME NEW rows, NEW slot
    PROVE  /\ AlertedSlots(rows \ {AlertFor("failure", slot, FALSE)}) = AlertedSlots(rows)
           /\ OpenFailureSlots(rows \ {AlertFor("failure", slot, FALSE)})
                = OpenFailureSlots(rows)
           /\ AlertedSlots(rows \union {AlertFor("failure", slot, FALSE)}) = AlertedSlots(rows)
           /\ OpenFailureSlots(rows \union {AlertFor("failure", slot, FALSE)})
                = OpenFailureSlots(rows)
<1> DEFINE a == AlertFor("failure", slot, FALSE)
<1>1. a.kind = "failure" /\ a.open = FALSE
  BY DEF AlertFor, Identity
<1> HIDE DEF a
<1>2. /\ OccurrenceAlerts(rows \ {a}) = OccurrenceAlerts(rows)
      /\ OpenFailureAlerts(rows \ {a}) = OpenFailureAlerts(rows)
      /\ OccurrenceAlerts(rows \union {a}) = OccurrenceAlerts(rows)
      /\ OpenFailureAlerts(rows \union {a}) = OpenFailureAlerts(rows)
  BY <1>1 DEF OccurrenceAlerts, OpenFailureAlerts
<1> QED BY <1>2, SlotsOfAlerts DEF a

\* The alerts of a fulfilled occurrence.
LEMMA FulfilledAlertsMatch ==
    ASSUME NEW recorded, NEW failed, failed \subseteq FailureRow,
           NEW rows, rows \subseteq AlertRow, NEW slot, NEW new,
           AlertsMatch(recorded, failed, rows),
           Identity(new) = Identity(slot), new.transaction = Generated,
           NEW own, own = {f \in {g \in failed : ~g.resolved} : Identity(f) = Identity(slot)}
    PROVE  AlertsMatch(recorded \union {new},
                       (failed \ own) \union {[f EXCEPT !.resolved = TRUE] : f \in own},
                       FulfilledAlerts(rows, Identity(slot), own # {}))
<1> DEFINE left == (failed \ own) \union {[f EXCEPT !.resolved = TRUE] : f \in own}
           i    == Identity(slot)
<1>1. Identity(i) = i
  BY DEF Identity
<1>2. GeneratedSlots(recorded \union {new}) = GeneratedSlots(recorded) \union {i}
  BY DEF GeneratedSlots
<1>3. UnresolvedSlots(left) = UnresolvedSlots(failed) \ {i}
  <2>1. \A f \in own : [f EXCEPT !.resolved = TRUE].resolved = TRUE
    BY DEF FailureRow
  <2> QED BY <2>1 DEF UnresolvedSlots
<1>4. own = {} <=> i \notin UnresolvedSlots(failed)
  BY DEF UnresolvedSlots
<1> HIDE DEF left
<1>5. CASE own = {}
  <2>1. FulfilledAlerts(rows, i, own # {}) = rows \union {AlertFor("occurrence", i, TRUE)}
    BY <1>5 DEF FulfilledAlerts
  <2> HIDE DEF i
  <2>2. /\ AlertedSlots(rows \union {AlertFor("occurrence", i, TRUE)})
             = AlertedSlots(rows) \union {i}
        /\ OpenFailureSlots(rows \union {AlertFor("occurrence", i, TRUE)})
             = OpenFailureSlots(rows)
    BY <1>1, OccurrenceAlertAdded
  <2>3. i \notin UnresolvedSlots(failed)
    BY <1>4, <1>5
  <2>4. FulfilledAlerts(rows, i, own # {}) = rows \union {AlertFor("occurrence", i, TRUE)}
    BY <2>1
  <2>5. UnresolvedSlots(left) = UnresolvedSlots(failed)
    BY <1>3, <2>3
  <2>6. AlertsMatch(recorded \union {new}, left, FulfilledAlerts(rows, i, own # {}))
    BY <1>2, <2>2, <2>4, <2>5 DEF AlertsMatch
  <2> QED BY <2>6 DEF i, left
<1>6. CASE own # {}
  <2> DEFINE closed == rows \ {AlertFor("failure", i, TRUE)}
             marked == closed \union {AlertFor("failure", i, FALSE)}
  <2>1. FulfilledAlerts(rows, i, own # {}) = marked \union {AlertFor("occurrence", i, TRUE)}
    BY <1>6 DEF FulfilledAlerts
  <2>2. closed \subseteq AlertRow /\ marked \subseteq AlertRow
    <3>1. i.rev = slot.rev /\ i.ordinal = slot.ordinal
      BY DEF Identity
    <3>2. i \in OpenFailureSlots(rows)
      BY <1>4, <1>6 DEF AlertsMatch
    <3>3. PICK a \in rows : Identity(a) = i
      BY <3>2 DEF OpenFailureSlots
    <3>4. i.rev \in Nat \ {0} /\ i.ordinal \in Nat \ {0}
      BY <3>3 DEF Identity, AlertRow
    <3>5. AlertFor("failure", i, FALSE) \in AlertRow
      BY <3>4 DEF AlertFor, AlertRow
    <3> QED BY <3>5
  <2>3. /\ AlertedSlots(closed) = AlertedSlots(rows)
        /\ OpenFailureSlots(closed) = OpenFailureSlots(rows) \ {i}
    <3> HIDE DEF i
    <3> QED BY <1>1, FailureAlertClosed
  <2>4. /\ AlertedSlots(marked) = AlertedSlots(closed)
        /\ OpenFailureSlots(marked) = OpenFailureSlots(closed)
    <3> HIDE DEF i, closed
    <3> QED BY <1>1, <2>2, ResolvedAlertIgnored
  <2>5. /\ AlertedSlots(marked \union {AlertFor("occurrence", i, TRUE)})
             = AlertedSlots(marked) \union {i}
        /\ OpenFailureSlots(marked \union {AlertFor("occurrence", i, TRUE)})
             = OpenFailureSlots(marked)
    <3> HIDE DEF i, closed, marked
    <3> QED BY <1>1, <2>2, OccurrenceAlertAdded
  <2> HIDE DEF i, closed, marked
  <2>6. AlertsMatch(recorded \union {new}, left, FulfilledAlerts(rows, i, own # {}))
    BY <1>2, <1>3, <2>1, <2>3, <2>4, <2>5 DEF AlertsMatch
  <2> QED BY <2>6 DEF i, left
<1> QED BY <1>5, <1>6

\* A parked failure, unresolved, and its alert, open.
LEMMA ParkedAlertsMatch ==
    ASSUME NEW recorded, NEW failed, NEW rows, rows \subseteq AlertRow, NEW slot, NEW new,
           AlertsMatch(recorded, failed, rows),
           Identity(new) = Identity(slot), ~new.resolved,
           NEW earlier, earlier = {f \in failed : Identity(f) = Identity(slot)}
    PROVE  AlertsMatch(recorded, (failed \ earlier) \union {new},
                       (rows \ {AlertFor("failure", slot, FALSE)})
                          \union {AlertFor("failure", slot, TRUE)})
<1> DEFINE left == rows \ {AlertFor("failure", slot, FALSE)}
<1>1. UnresolvedSlots((failed \ earlier) \union {new})
        = UnresolvedSlots(failed) \union {Identity(slot)}
  BY DEF UnresolvedSlots
<1>2. left \subseteq AlertRow
  OBVIOUS
<1>3. /\ AlertedSlots(left) = AlertedSlots(rows)
      /\ OpenFailureSlots(left) = OpenFailureSlots(rows)
  BY ResolvedAlertIgnored
<1> HIDE DEF left
<1>4. /\ AlertedSlots(left \union {AlertFor("failure", slot, TRUE)}) = AlertedSlots(left)
      /\ OpenFailureSlots(left \union {AlertFor("failure", slot, TRUE)})
           = OpenFailureSlots(left) \union {Identity(slot)}
  BY <1>2, FailureAlertOpened
<1> QED BY <1>1, <1>3, <1>4 DEF AlertsMatch, left

\* A repair marks failures and resolves none.
LEMMA RepairedAlertsMatch ==
    ASSUME NEW recorded, NEW failed, failed \subseteq FailureRow, NEW rows,
           AlertsMatch(recorded, failed, rows)
    PROVE  AlertsMatch(recorded,
                       {IF f.resolved THEN f ELSE [f EXCEPT !.repaired = TRUE] : f \in failed},
                       rows)
<1> DEFINE mark(f) == IF f.resolved THEN f ELSE [f EXCEPT !.repaired = TRUE]
<1>1. \A f \in failed : mark(f).resolved = f.resolved /\ Identity(mark(f)) = Identity(f)
  BY DEF FailureRow, Identity
<1> HIDE DEF mark
<1>2. UnresolvedSlots({mark(f) : f \in failed}) = UnresolvedSlots(failed)
  BY <1>1 DEF UnresolvedSlots
<1> QED BY <1>2 DEF AlertsMatch, mark

\* The rows an alert agrees with, of one source, are left alone ...
AlertRowsKept(s) ==
    /\ occurrences'[s] = occurrences[s] /\ failures'[s] = failures[s] /\ alerts'[s] = alerts[s]

\* ... or a step changes them as one of the four that do.
LEMMA AlertsFollow ==
    ASSUME IInv, IInv', [Next]_vars, AlertsAgree, NEW s \in Sources
    PROVE  AlertsMatch(occurrences'[s], failures'[s], alerts'[s])
<1>1. AlertsMatch(occurrences[s], failures[s], alerts[s])
  BY AlertsAgreeBySource
<1>2. /\ occurrences \in [Sources -> SUBSET OccurrenceRow]
      /\ failures \in [Sources -> SUBSET FailureRow]
      /\ alerts \in [Sources -> SUBSET AlertRow]
  BY DEF IInv, TypeOK
<1>3. AlertRowsKept(s) => AlertsMatch(occurrences'[s], failures'[s], alerts'[s])
  BY <1>1 DEF AlertRowsKept
<1>4. ASSUME NEW w \in Workers, NEW t \in Sources, ProcessFulfill(w, t)
      PROVE  AlertsMatch(occurrences'[s], failures'[s], alerts'[s])
  <2> DEFINE new == [rev |-> heads[t].rev, ordinal |-> heads[t].ordinal, at |-> heads[t].next,
                     position |-> sources[t].count + 1, transaction |-> Generated]
             own == OwnFailures(t)
  <2>1. /\ occurrences' = [occurrences EXCEPT ![t] = @ \union {new}]
        /\ failures' = [failures EXCEPT ![t] =
                (@ \ own) \union {[f EXCEPT !.resolved = TRUE] : f \in own}]
        /\ alerts' = [alerts EXCEPT ![t] =
                FulfilledAlerts(@, Identity(heads[t]), own # {})]
    BY <1>4 DEF ProcessFulfill, Fulfill
  <2>2. CASE s # t
    BY <1>2, <1>3, <2>1, <2>2 DEF AlertRowsKept
  <2>3. CASE s = t
    <3>1. own = {f \in {g \in failures[s] : ~g.resolved} : Identity(f) = Identity(heads[s])}
      BY <2>3 DEF OwnFailures, Unresolved
    <3>2. Identity(new) = Identity(heads[s]) /\ new.transaction = Generated
      BY <2>3 DEF Identity
    <3>3. failures[s] \subseteq FailureRow /\ alerts[s] \subseteq AlertRow
      BY <1>2
    <3>4. /\ occurrences'[s] = occurrences[s] \union {new}
          /\ failures'[s] = (failures[s] \ own) \union {[f EXCEPT !.resolved = TRUE] : f \in own}
          /\ alerts'[s] = FulfilledAlerts(alerts[s], Identity(heads[s]), own # {})
      BY <1>2, <2>1, <2>3
    <3> HIDE DEF new, own
    <3>5. AlertsMatch(occurrences[s] \union {new},
                      (failures[s] \ own) \union {[f EXCEPT !.resolved = TRUE] : f \in own},
                      FulfilledAlerts(alerts[s], Identity(heads[s]), own # {}))
      BY <1>1, <3>1, <3>2, <3>3, FulfilledAlertsMatch
    <3> QED BY <3>4, <3>5
  <2> QED BY <2>2, <2>3
<1>5. ASSUME NEW w \in Workers, NEW t \in Sources, ProcessPark(w, t)
      PROVE  AlertsMatch(occurrences'[s], failures'[s], alerts'[s])
  <2> DEFINE at == heads[t]
             earlier == {f \in failures[t] : Identity(f) = Identity(at)}
             parkedAt == IF earlier = {} THEN at.next ELSE (CHOOSE f \in earlier : TRUE).at
             new == [rev |-> at.rev, ordinal |-> at.ordinal, at |-> parkedAt,
                     repairable |-> ~TemplateMissing(t), repaired |-> FALSE, resolved |-> FALSE]
  <2>1. /\ occurrences' = occurrences
        /\ failures' = [failures EXCEPT ![t] = (@ \ earlier) \union {new}]
        /\ alerts' = [alerts EXCEPT ![t] =
              (@ \ {AlertFor("failure", at, FALSE)}) \union {AlertFor("failure", at, TRUE)}]
    BY <1>5 DEF ProcessPark, Park
  <2>2. Identity(new) = Identity(at) /\ ~new.resolved
    BY DEF Identity
  <2> HIDE DEF new
  <2>3. CASE s # t
    BY <1>2, <1>3, <2>1, <2>3 DEF AlertRowsKept
  <2>4. CASE s = t
    <3>1. /\ occurrences'[s] = occurrences[s]
          /\ failures'[s] = (failures[s] \ earlier) \union {new}
          /\ alerts'[s] = (alerts[s] \ {AlertFor("failure", at, FALSE)})
                             \union {AlertFor("failure", at, TRUE)}
      BY <1>2, <2>1, <2>4
    <3>2. earlier = {f \in failures[s] : Identity(f) = Identity(at)} /\ alerts[s] \subseteq AlertRow
      BY <1>2, <2>4
    <3> HIDE DEF at, earlier
    <3>3. AlertsMatch(occurrences[s], (failures[s] \ earlier) \union {new},
                      (alerts[s] \ {AlertFor("failure", at, FALSE)})
                         \union {AlertFor("failure", at, TRUE)})
      BY <1>1, <2>2, <3>2, ParkedAlertsMatch
    <3> QED BY <3>1, <3>3
  <2> QED BY <2>3, <2>4
<1>6. ASSUME NEW w \in Workers, CommitRepair(w)
      PROVE  AlertsMatch(occurrences'[s], failures'[s], alerts'[s])
  <2> DEFINE t == commands[w].source
  <2>1. /\ occurrences' = occurrences /\ alerts' = alerts
        /\ failures' = [failures EXCEPT ![t] =
              {IF f.resolved THEN f ELSE [f EXCEPT !.repaired = TRUE] : f \in @}]
    BY <1>6 DEF CommitRepair
  <2>2. CASE s # t
    BY <1>2, <1>3, <2>1, <2>2 DEF AlertRowsKept
  <2>3. CASE s = t
    <3>1. failures'[s] =
            {IF f.resolved THEN f ELSE [f EXCEPT !.repaired = TRUE] : f \in failures[s]}
      BY <1>2, <2>1, <2>3
    <3>2. failures[s] \subseteq FailureRow
      BY <1>2
    <3>3. AlertsMatch(occurrences[s],
            {IF f.resolved THEN f ELSE [f EXCEPT !.repaired = TRUE] : f \in failures[s]},
            alerts[s])
      BY <1>1, <3>2, RepairedAlertsMatch, Zenon
    <3> QED BY <2>1, <3>1, <3>3
  <2> QED BY <2>2, <2>3
<1>7. ASSUME NEW w \in Workers, NEW t \in Sources, NEW draft \in Drafts,
             NEW transaction \in Manual, Adopt(w, t, draft, transaction)
      PROVE  AlertsMatch(occurrences'[s], failures'[s], alerts'[s])
  <2> DEFINE new == [rev |-> 1, ordinal |-> 1, at |-> draft.first, position |-> 1,
                     transaction |-> transaction]
  <2>1. /\ occurrences' = [occurrences EXCEPT ![t] = {new}]
        /\ failures' = failures /\ alerts' = alerts /\ sources[t] = NoSource
    BY <1>7 DEF Adopt
  <2>2. CASE s # t
    BY <1>2, <1>3, <2>1, <2>2 DEF AlertRowsKept
  <2>3. CASE s = t
    <3>1. occurrences[s] = {}
      BY <2>1, <2>3 DEF IInv, SourceSound, NoSource
    <3>2. occurrences'[s] = {new}
      BY <1>2, <2>1, <2>3
    <3>3. new.transaction # Generated
      BY RecurringAssumption
    <3> HIDE DEF new
    <3>4. GeneratedSlots({}) = {} /\ GeneratedSlots({new}) = {}
      BY <3>3 DEF GeneratedSlots
    <3> QED BY <1>1, <2>1, <3>1, <3>2, <3>4 DEF AlertsMatch
  <2> QED BY <2>2, <2>3
<1>8. ASSUME NEW w \in Workers, Process(w)
      PROVE  \/ AlertRowsKept(s)
             \/ \E t \in Sources : ProcessFulfill(w, t) \/ ProcessPark(w, t)
  BY <1>8, ZenonT(40) DEF Process, BeginSlice, CaughtUp, ProcessHeal, ProcessError, Heal,
                          AlertRowsKept, database
<1>9. ASSUME NEW w \in Workers, Proceed(w) PROVE AlertRowsKept(s) \/ CommitRepair(w)
  BY <1>9, ZenonT(40) DEF Proceed, CommitUpdate, FailUpdate, Recheck, Reread, CommitLifecycle,
                          FailLifecycle, FailRepair, AlertRowsKept, database
<1>10. ASSUME NEW w \in Workers, Begin(w)
       PROVE  \/ AlertRowsKept(s)
              \/ \E t \in Sources, draft \in Drafts, transaction \in Manual :
                    Adopt(w, t, draft, transaction)
  BY <1>10, ZenonT(40) DEF Begin, Create, BeginUpdate, BeginLifecycle, BeginRepair, Retry,
                           DeleteCategory, AlertRowsKept, database
<1>11. CASE Environment \/ UNCHANGED vars
  <2>1. AlertRowsKept(s)
    BY <1>11 DEF Environment, Tick, SetClockBack, Crash, Contention, AlertRowsKept, database, vars
  <2> QED BY <1>3, <2>1
<1> QED
  BY <1>3, <1>4, <1>5, <1>6, <1>7, <1>8, <1>9, <1>10, <1>11 DEF Next

\* Every generated occurrence has its alert and failure alerts are open exactly
\* while their failure is unresolved, whoever generates, parks, repairs or adopts.
THEOREM AlertsFollowRows == Spec => []AlertsAgree
<1>1. Init => AlertsAgree
  BY DEF Init, AlertsAgree, Unresolved
<1>2. IInv /\ IInv' /\ AlertsAgree /\ [Next]_vars => AlertsAgree'
  <2> SUFFICES ASSUME IInv, IInv', AlertsAgree, [Next]_vars
               PROVE  AlertsAgree'
    OBVIOUS
  <2>1. \A s \in Sources : AlertsMatch(occurrences'[s], failures'[s], alerts'[s])
    BY AlertsFollow
  <2> QED BY <2>1, AlertsAgreeBySource DEF AlertsAgree, AlertsMatch, GeneratedSlots,
             UnresolvedSlots, AlertedSlots, OpenFailureSlots, Unresolved
<1> QED BY <1>1, <1>2, Invariance, PTL DEF Spec

-----------------------------------------------------------------------------
(***************************************************************************)
(* RecurringOccurrences implements OccurrenceLedger, and heads stay        *)
(* coherent, for every number of sources, clients, categories and days, in *)
(* the behaviours where what the code is known to do otherwise does not    *)
(* happen (EditsKeepDates, ResumesWithinTwo).                              *)
(*                                                                         *)
(* Both rest on the order of a source's revision history (InOrder): each   *)
(* revision is closed no earlier than the next one starts, so that the one *)
(* in force at a date is the last to start by then, later at later dates;  *)
(* the slots recorded come before the head, by date and by identity.       *)
(* From it also follow that a parked slot is not passed by, and that what  *)
(* is forecast or counted as due (RecurringProjection) is what comes.      *)
(***************************************************************************)

-----------------------------------------------------------------------------
(***************************************************************************)
(* The hypotheses, of a behaviour.                                         *)
(***************************************************************************)
\* An edit to "day n of every month" sets the head to day n of the month asked
\* for, which may be past, and starts the revision at another day than its first
\* slot. All other edits keep the date asked for, as does one that asks for day n.
KeepsDate(c) == FirstSlot(c.input.rule, c.input.next) = c.input.next

EditsKeepDates ==
    \A w \in Workers :
        commands[w].pc = "update" /\ "schedule" \in commands[w].apply => KeepsDate(commands[w])

\* skip_head_past_observation changes revision once: with three, the head may
\* land past the start of the last one.
Resumes(c) == c.pc = "lifecycle" /\ c.operation = "resume"

ResumesWithinTwo ==
    \A w \in Workers :
        Resumes(commands[w]) => Len(schedules[commands[w].source]) <= 2

\* Rules for which every edit keeps the date asked for.
Rules == EditRules \union {d.rule : d \in Drafts}

IntervalRulesOnly == \A rule \in Rules : rule.unit # "monthlyDay"

-----------------------------------------------------------------------------
(***************************************************************************)
(* The invariant.                                                          *)
(***************************************************************************)
\* Revisions follow each other, and from the second on start with a slot.
HistoryInOrder(revisions) ==
    /\ \A k \in DOMAIN revisions :
         /\ revisions[k].rule \in Rules
         /\ IF k = Len(revisions) THEN revisions[k].until = Forever
            ELSE /\ revisions[k].until # Forever
                 /\ revisions[k].until >= revisions[k + 1].from
         /\ k # 1 => SlotAt(revisions, k, 1) = revisions[k].from

Before(o, head) ==
    /\ o.at < head.next
    /\ o.rev <= head.rev
    /\ o.rev = head.rev => o.ordinal < head.ordinal

InOrder(revisions, head, rows) ==
    /\ HistoryInOrder(revisions)
    /\ \A o \in rows : o.rev \in DOMAIN revisions /\ revisions[o.rev].from <= o.at
    /\ head # NoHead =>
         /\ head.rev \in DOMAIN revisions /\ revisions[head.rev].from <= head.next
         /\ \A o \in rows : Before(o, head)

\* The head is a slot of the revision in force at it: what HeadCoherent asks for, and more.
Coherent(revisions, head) ==
    /\ ScheduleAt(revisions, head.next) = head.rev
    /\ SlotAt(revisions, head.rev, head.ordinal) = head.next

\* What a worker has decided to write: while the revision it read is still the
\* source's, an edit of the schedule moves the head on.
CommandInOrder(c) ==
    /\ c.pc \in {"slice", "catchUp"} => c.observed \in 0..MaxClock
    /\ c.pc \in {"catchUp", "recheck", "reread", "lifecycle"} => c.operation \in Operations
    /\ c.pc = "update" =>
         /\ "count" \in c.apply => c.input.total \in EditTotals
         /\ "schedule" \in c.apply =>
              /\ c.input.rule \in Rules
              /\ c.revision = sources[c.source].revision =>
                   heads[c.source] # NoHead /\ c.input.next >= heads[c.source].next

SourceInOrder(s) == InOrder(schedules[s], heads[s], occurrences[s])

CoherentAt(s) == heads[s] # NoHead => Coherent(schedules[s], heads[s])

OrderInv ==
    /\ \A s \in Sources : SourceInOrder(s)
    /\ \A w \in Workers : CommandInOrder(commands[w])

-----------------------------------------------------------------------------
(***************************************************************************)
(* Revision histories in order.                                            *)
(***************************************************************************)
\* The columns of a revision.
LEMMA ScheduleFields ==
    ASSUME NEW revisions \in Seq(ScheduleRow), NEW k \in DOMAIN revisions
    PROVE  /\ k \in 1..Len(revisions) /\ k \in Nat /\ Len(revisions) \in Nat
           /\ revisions[k].from \in Nat /\ revisions[k].first \in Nat
           /\ revisions[k].until \in Nat \union {Forever}
           /\ revisions[k].rule \in ScheduleRule
<1>1. revisions[k] \in ScheduleRow
  OBVIOUS
<1> QED BY <1>1 DEF ScheduleRow

\* A revision found in force at a date has begun by then.
LEMMA FoundHasBegun ==
    ASSUME NEW revisions \in Seq(ScheduleRow), NEW local,
           ScheduleAt(revisions, local) # 0
    PROVE  /\ ScheduleAt(revisions, local) \in DOMAIN revisions
           /\ revisions[ScheduleAt(revisions, local)].from <= local
<1> DEFINE T == {0} \union {i \in DOMAIN revisions : Covers(revisions[i], local)}
<1>1. DOMAIN revisions = 1..Len(revisions) /\ Len(revisions) \in Nat
  OBVIOUS
<1>2. T \subseteq Nat /\ T # {} /\ \A x \in T : x <= Len(revisions)
  BY <1>1
<1>3. Max(T) \in T
  <2> HIDE DEF T
  <2> QED BY <1>1, <1>2, MaxIsGreatest
<1>4. ScheduleAt(revisions, local) = Max(T)
  BY DEF ScheduleAt
<1> QED BY <1>3, <1>4 DEF Covers

\* In an ordered history the revision in force at a date is the last one to begin by then.
InForce(revisions, local, at) ==
    /\ at \in DOMAIN revisions
    /\ revisions[at].from <= local
    /\ \A k \in DOMAIN revisions : revisions[k].from <= local => k <= at

LEMMA LastToBegin ==
    ASSUME NEW revisions \in Seq(ScheduleRow), HistoryInOrder(revisions),
           NEW local \in Nat, NEW k \in DOMAIN revisions, revisions[k].from <= local
    PROVE  InForce(revisions, local, ScheduleAt(revisions, local))
<1> DEFINE S == {i \in DOMAIN revisions : revisions[i].from <= local}
           T == {0} \union {i \in DOMAIN revisions : Covers(revisions[i], local)}
<1>1. DOMAIN revisions = 1..Len(revisions) /\ Len(revisions) \in Nat
  OBVIOUS
<1>2. S \subseteq Nat /\ S # {} /\ \A x \in S : x <= Len(revisions)
  BY <1>1
<1>3. Max(S) \in S /\ \A y \in S : y <= Max(S)
  <2> HIDE DEF S
  <2> QED BY <1>1, <1>2, MaxIsGreatest
<1> DEFINE last == Max(S)
<1>4. last \in DOMAIN revisions /\ revisions[last].from <= local
  BY <1>3
<1>5. Covers(revisions[last], local)
  <2> HIDE DEF last
  <2>1. CASE last = Len(revisions)
    BY <1>4, <2>1 DEF HistoryInOrder, Covers
  <2>2. CASE last # Len(revisions)
    <3>1. last + 1 \in DOMAIN revisions
      BY <1>1, <1>4, <2>2
    <3>2. ~(revisions[last + 1].from <= local)
      <4>1. SUFFICES ASSUME last + 1 \in S PROVE FALSE
        BY <3>1
      <4>2. last + 1 <= last /\ last \in Nat
        BY <1>1, <1>3, <1>4, <4>1 DEF last
      <4> QED BY <4>2
    <3>3. revisions[last].until >= revisions[last + 1].from
      BY <1>4, <2>2 DEF HistoryInOrder
    <3>4. /\ revisions[last].until \in Nat \union {Forever}
          /\ revisions[last + 1].from \in Nat
      BY <1>4, <3>1, ScheduleFields
    <3> QED BY <1>4, <3>2, <3>3, <3>4 DEF Covers, Forever
  <2> QED BY <2>1, <2>2
<1>6. T \subseteq Nat /\ T # {} /\ \A x \in T : x <= Len(revisions)
  BY <1>1
<1>7. Max(T) \in T /\ \A y \in T : y <= Max(T)
  <2> HIDE DEF T
  <2> QED BY <1>1, <1>6, MaxIsGreatest
<1>8. ScheduleAt(revisions, local) = Max(T)
  BY DEF ScheduleAt
<1>9. last \in T /\ last >= 1
  BY <1>1, <1>4, <1>5
<1>10. Max(T) \in S
  <2> HIDE DEF last
  <2> QED BY <1>1, <1>7, <1>9 DEF Covers
<1>11. \A y \in S : y <= Max(T)
  <2>1. Max(T) <= last /\ last <= Max(T)
    BY <1>3, <1>7, <1>9, <1>10
  <2>2. last \in Nat /\ Max(T) \in Nat /\ S \subseteq Nat
    BY <1>2, <1>3, <1>10
  <2> HIDE DEF S, T
  <2> QED BY <1>3, <2>1, <2>2
<1> HIDE DEF T
<1> QED BY <1>8, <1>10, <1>11 DEF InForce

\* The open revision is the last.
LEMMA OpenIsLast ==
    ASSUME NEW revisions \in Seq(ScheduleRow), HistoryInOrder(revisions), HasOpen(revisions)
    PROVE  /\ OpenSchedule(revisions) = Len(revisions)
           /\ Len(revisions) \in DOMAIN revisions /\ Len(revisions) \in Nat \ {0}
<1>1. /\ OpenSchedule(revisions) \in DOMAIN revisions
      /\ revisions[OpenSchedule(revisions)].until = Forever
  BY OpenScheduleFound
<1>2. OpenSchedule(revisions) = Len(revisions)
  BY <1>1 DEF HistoryInOrder
<1>3. Len(revisions) \in Nat /\ DOMAIN revisions = 1..Len(revisions)
  OBVIOUS
<1> QED BY <1>1, <1>2, <1>3

-----------------------------------------------------------------------------
(***************************************************************************)
(* Where the head goes.                                                    *)
(***************************************************************************)
\* The head moves on from a slot at a date, in date and in identity.
Follows(revisions, head, rev, ordinal, local) ==
    /\ head.rev \in DOMAIN revisions /\ revisions[head.rev].from <= head.next
    /\ head.next > local
    /\ head.rev >= rev
    /\ head.rev = rev => head.ordinal > ordinal

\* next_head_after_occurrence moves on from the occurrence.
LEMMA NextHeadFollows ==
    ASSUME NEW revisions \in Seq(ScheduleRow), HistoryInOrder(revisions),
           NEW rev \in DOMAIN revisions, NEW ordinal \in Nat \ {0}, NEW local \in Nat,
           ScheduleAt(revisions, local) = rev, SlotAt(revisions, rev, ordinal + 1) > local
    PROVE  /\ Follows(revisions, NextHeadAfter(revisions, rev, ordinal), rev, ordinal, local)
           /\ Coherent(revisions, NextHeadAfter(revisions, rev, ordinal))
<1> DEFINE provisional == SlotAt(revisions, rev, ordinal + 1)
           at   == ScheduleAt(revisions, provisional)
           head == NextHeadAfter(revisions, rev, ordinal)
<1>1. rev \in Nat \ {0} /\ provisional \in Nat /\ provisional > local
  BY SlotAtType, ScheduleFields
<1>2. revisions[rev].from <= local /\ revisions[rev].from \in Nat
  BY <1>1, FoundHasBegun, ScheduleFields
<1>3. InForce(revisions, local, rev)
  BY <1>2, LastToBegin
<1> HIDE DEF provisional
<1>4. InForce(revisions, provisional, at)
  BY <1>1, <1>2, LastToBegin
<1>5. at \in DOMAIN revisions /\ at \in Nat /\ at >= rev /\ at # 0
      /\ revisions[at].from <= provisional /\ revisions[at].from \in Nat
  BY <1>1, <1>2, <1>4, ScheduleFields DEF InForce
<1>6. head = IF at = rev
             THEN [rev |-> rev, ordinal |-> ordinal + 1, next |-> provisional]
             ELSE [rev |-> at, ordinal |-> 1, next |-> SlotAt(revisions, at, 1)]
  BY <1>5 DEF NextHeadAfter, provisional
<1> HIDE DEF head
<1>7. CASE at = rev
  <2>1. head.rev = rev /\ head.ordinal = ordinal + 1 /\ head.next = provisional
    BY <1>6, <1>7
  <2>2. Follows(revisions, head, rev, ordinal, local)
    BY <1>1, <1>2, <2>1 DEF Follows
  <2>3. Coherent(revisions, head)
    BY <1>7, <2>1 DEF Coherent, provisional
  <2> QED BY <2>2, <2>3 DEF head
<1>8. CASE at # rev
  <2>1. at # 1 /\ ~(revisions[at].from <= local)
    BY <1>1, <1>3, <1>5, <1>8 DEF InForce
  <2>2. SlotAt(revisions, at, 1) = revisions[at].from
    BY <1>5, <2>1 DEF HistoryInOrder
  <2>3. head.rev = at /\ head.ordinal = 1 /\ head.next = revisions[at].from
    BY <1>6, <1>8, <2>2
  <2>4. Follows(revisions, head, rev, ordinal, local)
    BY <1>1, <1>5, <1>8, <2>1, <2>3 DEF Follows
  <2> DEFINE found == ScheduleAt(revisions, revisions[at].from)
  <2>5. InForce(revisions, revisions[at].from, found)
    BY <1>5, LastToBegin
  <2> HIDE DEF found
  <2>6. found \in Nat /\ found >= at /\ revisions[found].from <= provisional
    BY <1>1, <1>5, <2>5, ScheduleFields DEF InForce
  <2>7. found <= at
    BY <1>4, <2>5, <2>6 DEF InForce
  <2>8. Coherent(revisions, head)
    BY <1>5, <2>2, <2>3, <2>6, <2>7 DEF Coherent, found
  <2> QED BY <2>4, <2>8 DEF head
<1> QED BY <1>7, <1>8

\* A slot of a revision is no earlier than its first one.
LEMMA SlotsFromFirst ==
    ASSUME NEW revisions \in Seq(ScheduleRow), NEW rev \in DOMAIN revisions,
           NEW ordinal \in Nat \ {0}
    PROVE  SlotAt(revisions, rev, ordinal) >= SlotAt(revisions, rev, 1)
<1>1. revisions[rev].rule \in ScheduleRule /\ revisions[rev].first \in Nat
  BY ScheduleFields
<1>2. SlotAt(revisions, rev, ordinal) \in Nat /\ SlotAt(revisions, rev, 1) \in Nat
  BY SlotAtType
<1>3. CASE ordinal = 1
  BY <1>2, <1>3
<1>4. CASE ordinal > 1
  BY <1>1, <1>2, <1>4, SlotsIncrease DEF SlotAt
<1> QED BY <1>3, <1>4

\* AdvanceHeadPastLands, of the record it returns.
Landed(landed, rule, first, ordinal, next, observed) ==
    /\ landed.ordinal \in Nat /\ landed.ordinal >= ordinal
    /\ landed.next \in Nat /\ landed.next > observed
    /\ landed.next = IF next > observed THEN next
                     ELSE ScheduledLocalAt(rule, first, landed.ordinal)
    /\ next > observed => landed.ordinal = ordinal

LEMMA HeadPastLands ==
    ASSUME NEW rule \in ScheduleRule, NEW first \in Nat, NEW ordinal \in Nat \ {0},
           NEW next \in Nat, NEW observed \in Nat,
           NEW landed, landed = AdvanceHeadPast(rule, first, ordinal, next, observed)
    PROVE  Landed(landed, rule, first, ordinal, next, observed)
<1>1. next > observed => landed.ordinal = ordinal
  BY DEF AdvanceHeadPast, Past
<1> QED BY <1>1, AdvanceHeadPastLands DEF Landed

\* skip_head_past_observation moves a head on, or leaves it; with two revisions, to a slot.
SkipsOn(revisions, head, skipped) ==
    /\ skipped.rev \in DOMAIN revisions /\ revisions[skipped.rev].from <= skipped.next
    /\ skipped.next >= head.next
    /\ skipped.rev >= head.rev
    /\ skipped.rev = head.rev => skipped.ordinal >= head.ordinal
    /\ Len(revisions) <= 2 /\ Coherent(revisions, head) => Coherent(revisions, skipped)

LEMMA SkippedHeadSkips ==
    ASSUME NEW revisions \in Seq(ScheduleRow), HistoryInOrder(revisions),
           NEW head, ProperHead(revisions, head), revisions[head.rev].from <= head.next,
           NEW observed \in Nat
    PROVE  SkipsOn(revisions, head, SkippedHead(head, revisions, observed))
<1>1. /\ head.rev \in DOMAIN revisions /\ head.rev \in Nat /\ head.next \in Nat
      /\ head.ordinal \in Nat \ {0} /\ head # NoHead
  BY ProperIsNotNone, ScheduleFields DEF ProperHead, HeadRow
<1>2. CASE head.next > observed
  <2>1. SkippedHead(head, revisions, observed) = head
    BY <1>2 DEF SkippedHead
  <2> QED BY <1>1, <2>1 DEF SkipsOn
<1>3. CASE ~(head.next > observed)
  <2> DEFINE at(local, default) == IF ScheduleAt(revisions, local) = 0 THEN default
                                   ELSE ScheduleAt(revisions, local)
             rev      == at(head.next, OpenSchedule(revisions))
             skip     == AdvanceHeadPast(revisions[rev].rule, revisions[rev].first,
                                         head.ordinal, head.next, observed)
             selected == at(skip.next, rev)
             start    == SlotAt(revisions, selected, 1)
             again    == AdvanceHeadPast(revisions[selected].rule, revisions[selected].first,
                                         1, start, observed)
             landed   == IF selected = rev THEN skip ELSE again
             skipped  == SkippedHead(head, revisions, observed)
  <2>0. skipped = [rev |-> selected, ordinal |-> landed.ordinal, next |-> landed.next]
    <3>1. head # NoHead
      BY <1>1
    <3> QED BY <1>3, <3>1 DEF SkippedHead
  <2>1. InForce(revisions, head.next, rev)
    <3> DEFINE found == ScheduleAt(revisions, head.next)
    <3>1. InForce(revisions, head.next, found)
      BY <1>1, LastToBegin
    <3> HIDE DEF found
    <3>2. found # 0
      BY <3>1, ScheduleFields DEF InForce
    <3> QED BY <3>1, <3>2 DEF found
  <2>2. /\ rev \in DOMAIN revisions /\ rev \in Nat \ {0} /\ rev >= head.rev
        /\ revisions[rev].from <= head.next /\ revisions[rev].from \in Nat
    BY <1>1, <2>1, ScheduleFields DEF InForce
  <2>3. /\ skip.ordinal \in Nat /\ skip.ordinal >= head.ordinal
        /\ skip.next \in Nat /\ skip.next > observed
        /\ skip.next = SlotAt(revisions, rev, skip.ordinal)
    <3> HIDE DEF rev
    <3> DEFINE rule  == revisions[rev].rule
               first == revisions[rev].first
    <3>1. rule \in ScheduleRule /\ first \in Nat
      BY <2>2, ScheduleFields
    <3>2. skip = AdvanceHeadPast(rule, first, head.ordinal, head.next, observed)
      OBVIOUS
    <3> HIDE DEF rule, first, skip
    <3>3. Landed(skip, rule, first, head.ordinal, head.next, observed)
      BY <1>1, <3>1, <3>2, HeadPastLands
    <3> QED BY <1>3, <3>3 DEF Landed, SlotAt, rule, first
  <2>4. InForce(revisions, skip.next, selected) /\ ScheduleAt(revisions, skip.next) = selected
    <3> HIDE DEF rev, skip
    <3>1. revisions[rev].from <= skip.next
      BY <1>1, <1>3, <2>2, <2>3
    <3> DEFINE found == ScheduleAt(revisions, skip.next)
    <3>2. InForce(revisions, skip.next, found)
      BY <2>2, <2>3, <3>1, LastToBegin
    <3> HIDE DEF found
    <3>3. found # 0
      BY <3>2, ScheduleFields DEF InForce
    <3> QED BY <3>2, <3>3 DEF found
  <2> HIDE DEF rev, skip
  <2>6. /\ selected \in DOMAIN revisions /\ selected \in Nat /\ selected >= rev
        /\ revisions[selected].from <= skip.next /\ revisions[selected].from \in Nat
    <3>1. revisions[rev].from <= skip.next
      BY <1>1, <1>3, <2>2, <2>3
    <3> HIDE DEF selected
    <3> QED BY <2>2, <2>4, <3>1, ScheduleFields DEF InForce
  <2> HIDE DEF skipped
  <2>7. CASE selected = rev
    <3>1. skipped.rev = rev /\ skipped.ordinal = skip.ordinal /\ skipped.next = skip.next
      BY <2>0, <2>7
    <3>2. Coherent(revisions, skipped)
      BY <2>3, <2>4, <2>7, <3>1 DEF Coherent
    <3> HIDE DEF selected
    <3> QED BY <1>1, <1>3, <2>2, <2>3, <2>6, <2>7, <3>1, <3>2 DEF SkipsOn, skipped
  <2>8. CASE selected # rev
    <3> HIDE DEF selected
    <3>1. selected > rev /\ selected # 1 /\ selected # head.rev
      BY <1>1, <2>2, <2>6, <2>8, ScheduleFields
    <3>2. /\ revisions[selected].rule \in ScheduleRule /\ revisions[selected].first \in Nat
          /\ start \in Nat
      BY <2>6, ScheduleFields, SlotAtType
    <3>3. /\ again.ordinal \in Nat /\ again.ordinal >= 1
          /\ again.next \in Nat /\ again.next > observed
          /\ again.next = IF start > observed THEN start
                          ELSE SlotAt(revisions, selected, again.ordinal)
          /\ start > observed => again.ordinal = 1
      <4> DEFINE rule  == revisions[selected].rule
                 first == revisions[selected].first
      <4>1. rule \in ScheduleRule /\ first \in Nat /\ 1 \in Nat \ {0}
        BY <3>2
      <4>2. again = AdvanceHeadPast(rule, first, 1, start, observed)
        OBVIOUS
      <4> HIDE DEF rule, first, again, start
      <4>3. Landed(again, rule, first, 1, start, observed)
        BY <3>2, <4>1, <4>2, HeadPastLands
      <4> QED BY <4>3 DEF Landed, SlotAt, rule, first
    <3>4. skipped.rev = selected /\ skipped.ordinal = again.ordinal /\ skipped.next = again.next
      <4> HIDE DEF again
      <4> QED BY <2>0, <2>8
    <3> HIDE DEF again
    <3>5. again.next >= start
      BY <2>6, <3>2, <3>3, SlotsFromFirst
    <3>6. start = revisions[selected].from
      BY <2>6, <3>1 DEF HistoryInOrder
    <3>7. again.next = SlotAt(revisions, selected, again.ordinal)
      BY <3>3
    <3> HIDE DEF start
    <3>8. Len(revisions) <= 2 => ScheduleAt(revisions, again.next) = selected
      <4> DEFINE found == ScheduleAt(revisions, again.next)
      <4>1. InForce(revisions, again.next, found)
        BY <2>6, <3>3, <3>5, <3>6, LastToBegin
      <4> HIDE DEF found
      <4>2. found \in 1..Len(revisions) /\ found >= selected /\ selected >= 2
            /\ Len(revisions) \in Nat
        BY <2>2, <2>6, <3>1, <3>3, <3>5, <3>6, <4>1, ScheduleFields DEF InForce
      <4>3. Len(revisions) <= 2 => found = selected
        BY <2>6, <4>2
      <4> QED BY <4>3 DEF found
    <3>9. Len(revisions) <= 2 => Coherent(revisions, skipped)
      BY <3>4, <3>7, <3>8 DEF Coherent
    <3> QED BY <1>1, <1>3, <2>2, <2>6, <3>1, <3>3, <3>4, <3>5, <3>6, <3>9 DEF SkipsOn, skipped
  <2> QED BY <2>7, <2>8
<1> QED BY <1>2, <1>3

-----------------------------------------------------------------------------
(***************************************************************************)
(* An edit of the schedule, from the next occurrence on.                   *)
(***************************************************************************)
\* What apply_schedule_change leaves of a history: a new last revision, the one
\* before it closed there, all others as they were.
Revises(revisions, new, input) ==
    /\ new \in Seq(ScheduleRow)
    /\ Len(new) = IF input.next <= revisions[Len(revisions)].from
                  THEN Len(revisions) ELSE Len(revisions) + 1
    /\ new[Len(new)].from = input.next /\ new[Len(new)].until = Forever
    /\ new[Len(new)].first = input.next /\ new[Len(new)].rule = input.rule
    /\ \A k \in 1..Len(new) - 1 :
         /\ k \in DOMAIN revisions
         /\ new[k].from = revisions[k].from /\ new[k].first = revisions[k].first
         /\ new[k].rule = revisions[k].rule
         /\ new[k].until = IF k = Len(revisions) THEN input.next ELSE revisions[k].until

LEMMA RevisedSchedulesRevise ==
    ASSUME NEW revisions \in Seq(ScheduleRow), HistoryInOrder(revisions), HasOpen(revisions),
           NEW input \in Document, FirstSlot(input.rule, input.next) = input.next
    PROVE  Revises(revisions, RevisedSchedules(revisions, input), input)
<1> DEFINE n      == Len(revisions)
           added  == [from |-> input.next, until |-> Forever,
                      first |-> FirstSlot(input.rule, input.next), rule |-> input.rule]
           closed == [revisions EXCEPT ![n].until = input.next]
           new    == RevisedSchedules(revisions, input)
<1>1. input.rule \in ScheduleRule /\ input.next \in Nat
  BY DEF Document
<1>2. FirstSlot(input.rule, input.next) = input.next
  OBVIOUS
<1>3. OpenSchedule(revisions) = n /\ n \in DOMAIN revisions /\ n \in Nat \ {0}
  BY OpenIsLast
<1>4. new \in Seq(ScheduleRow)
  BY RevisedSchedulesType
<1>5. added.from = input.next /\ added.until = Forever /\ added.first = input.next
      /\ added.rule = input.rule
  BY <1>2
<1>6. new = IF input.next <= revisions[n].from THEN [revisions EXCEPT ![n] = added]
            ELSE Append(closed, added)
  BY <1>3 DEF RevisedSchedules
<1>7. DOMAIN revisions = 1..n /\ n = Len(revisions)
  OBVIOUS
<1> HIDE DEF new, added, n
<1>8. CASE input.next <= revisions[n].from
  <2>1. new = [revisions EXCEPT ![n] = added] /\ Len(new) = n
    BY <1>3, <1>6, <1>7, <1>8
  <2>2. new[n] = added /\ \A k \in 1..n - 1 : k \in DOMAIN revisions /\ new[k] = revisions[k]
                                               /\ k # n
    BY <1>3, <1>7, <2>1
  <2> QED BY <1>4, <1>5, <1>7, <1>8, <2>1, <2>2 DEF Revises, new
<1>9. CASE ~(input.next <= revisions[n].from)
  <2>1. Len(closed) = n /\ DOMAIN closed = 1..n
        /\ \A k \in 1..n : closed[k] = IF k = n THEN [revisions[n] EXCEPT !.until = input.next]
                                       ELSE revisions[k]
    BY <1>3, <1>7
  <2>2. closed \in Seq(ScheduleRow)
    <3>1. revisions[n] \in ScheduleRow
      BY <1>3
    <3>2. [revisions[n] EXCEPT !.until = input.next] \in ScheduleRow
      BY <1>1, <3>1 DEF ScheduleRow
    <3> QED BY <1>3, <3>2
  <2> HIDE DEF closed
  <2>3. new = Append(closed, added) /\ Len(new) = n + 1 /\ new[n + 1] = added
        /\ \A k \in 1..n : new[k] = closed[k]
    BY <1>3, <1>6, <1>9, <2>1, <2>2
  <2>4. \A k \in 1..n :
          /\ new[k].from = revisions[k].from /\ new[k].first = revisions[k].first
          /\ new[k].rule = revisions[k].rule
          /\ new[k].until = IF k = n THEN input.next ELSE revisions[k].until
    <3> TAKE k \in 1..n
    <3>1. revisions[k] \in ScheduleRow
      BY <1>7
    <3> QED BY <2>1, <2>3, <3>1 DEF ScheduleRow
  <2>5. Len(new) - 1 = n
    BY <1>3, <2>3
  <2> QED BY <1>3, <1>4, <1>5, <1>7, <1>9, <2>3, <2>4, <2>5 DEF Revises, new
<1> QED BY <1>8, <1>9

\* A revision that began before the date asked for is not the one written.
LEMMA BegunBeforeIsKept ==
    ASSUME NEW revisions \in Seq(ScheduleRow), NEW input \in Document,
           NEW new, Revises(revisions, new, input),
           NEW k \in DOMAIN revisions, revisions[k].from < input.next
    PROVE  k \in 1..Len(new) - 1 /\ k \in DOMAIN new
<1>1. k \in 1..Len(revisions) /\ Len(revisions) \in Nat /\ revisions[k].from \in Nat
      /\ Len(new) \in Nat /\ DOMAIN new = 1..Len(new) /\ input.next \in Nat
  BY ScheduleFields DEF Revises, Document
<1>2. CASE input.next <= revisions[Len(revisions)].from
  <2>1. k # Len(revisions)
    BY <1>1, <1>2
  <2> DEFINE n == Len(revisions)
             m == Len(new)
  <2>2. m = n /\ n \in Nat /\ k \in 1..n /\ k # n /\ DOMAIN new = 1..m
    BY <1>1, <1>2, <2>1 DEF Revises
  <2> HIDE DEF n, m
  <2>3. k \in 1..m - 1 /\ k \in DOMAIN new
    BY <2>2
  <2> QED BY <2>3 DEF m
<1>3. CASE ~(input.next <= revisions[Len(revisions)].from)
  <2> DEFINE n == Len(revisions)
             m == Len(new)
  <2>1. m = n + 1 /\ n \in Nat /\ k \in 1..n /\ DOMAIN new = 1..m
    BY <1>1, <1>3 DEF Revises
  <2> HIDE DEF n, m
  <2>2. k \in 1..m - 1 /\ k \in DOMAIN new
    BY <2>1
  <2> QED BY <2>2 DEF m
<1> QED BY <1>2, <1>3

\* The history stays in order.
LEMMA RevisedHistoryInOrder ==
    ASSUME NEW revisions \in Seq(ScheduleRow), HistoryInOrder(revisions),
           Len(revisions) \in DOMAIN revisions,
           NEW input \in Document, input.rule \in Rules,
           FirstSlot(input.rule, input.next) = input.next,
           NEW new, Revises(revisions, new, input)
    PROVE  HistoryInOrder(new)
<1>1. /\ Len(revisions) \in Nat \ {0} /\ Len(new) \in Nat /\ DOMAIN new = 1..Len(new)
      /\ DOMAIN revisions = 1..Len(revisions) /\ input.next \in Nat
  BY DEF Revises, Document
<1>2. Len(new) <= Len(revisions) + 1 /\ Len(new) >= Len(revisions)
  <2> DEFINE n == Len(revisions)
             m == Len(new)
  <2>1. m = IF input.next <= revisions[n].from THEN n ELSE n + 1
    BY DEF Revises
  <2>2. n \in Nat
    BY <1>1
  <2> HIDE DEF n, m
  <2>3. m <= n + 1 /\ m >= n
    BY <2>1, <2>2
  <2> QED BY <2>3 DEF n, m
<1> SUFFICES ASSUME NEW k \in DOMAIN new
             PROVE  /\ new[k].rule \in Rules
                    /\ IF k = Len(new) THEN new[k].until = Forever
                       ELSE /\ new[k].until # Forever
                            /\ new[k].until >= new[k + 1].from
                    /\ k # 1 => SlotAt(new, k, 1) = new[k].from
  BY DEF HistoryInOrder
<1>3. CASE k = Len(new)
  <2>1. SlotAt(new, k, 1) = new[k].from
    BY <1>3 DEF Revises, SlotAt, FirstSlot
  <2> QED BY <1>3, <2>1 DEF Revises
<1>4. CASE k # Len(new)
  <2>1. /\ k \in 1..Len(new) - 1 /\ k \in DOMAIN revisions /\ k + 1 \in DOMAIN new
        /\ new[k].from = revisions[k].from /\ new[k].first = revisions[k].first
        /\ new[k].rule = revisions[k].rule
        /\ new[k].until = IF k = Len(revisions) THEN input.next ELSE revisions[k].until
    <3> DEFINE m == Len(new)
    <3>1. m \in Nat /\ k \in 1..m /\ k # m
      BY <1>1, <1>4
    <3> HIDE DEF m
    <3>2. k \in 1..m - 1 /\ k + 1 \in 1..m
      BY <3>1
    <3>3. k \in 1..Len(new) - 1 /\ k + 1 \in DOMAIN new
      BY <1>1, <3>2 DEF m
    <3> QED BY <3>3, Zenon DEF Revises
  <2>4. new[k].rule \in Rules /\ (k # 1 => SlotAt(new, k, 1) = new[k].from)
    <3>1. /\ revisions[k].rule \in Rules
          /\ k # 1 => SlotAt(revisions, k, 1) = revisions[k].from
      BY <2>1 DEF HistoryInOrder
    <3> QED BY <2>1, <3>1 DEF SlotAt
  <2>2. CASE k = Len(revisions)
    <3>1. k + 1 = Len(new)
      <4> DEFINE n == Len(revisions)
                 m == Len(new)
      <4>1. n \in Nat /\ m \in Nat /\ m <= n + 1 /\ k = n /\ k \in 1..m - 1
        BY <1>1, <1>2, <2>1, <2>2
      <4> HIDE DEF n, m
      <4>2. k + 1 = m
        BY <4>1
      <4> QED BY <4>2 DEF m
    <3>2. new[k + 1].from = input.next /\ new[k].until = input.next
      BY <2>1, <2>2, <3>1 DEF Revises
    <3>3. input.next # Forever /\ input.next >= input.next
      BY <1>1 DEF Forever
    <3>4. new[k].until # Forever /\ new[k].until >= new[k + 1].from
      BY <3>2, <3>3, Zenon
    <3> QED BY <1>4, <2>4, <3>4
  <2>3. CASE k # Len(revisions)
    <3>1. /\ k + 1 \in DOMAIN revisions /\ revisions[k].until # Forever
          /\ revisions[k].until >= revisions[k + 1].from
          /\ revisions[k].until \in Nat \union {Forever} /\ revisions[k + 1].from \in Nat
      BY <1>1, <2>1, <2>3, ScheduleFields DEF HistoryInOrder
    <3>2. CASE k + 1 = Len(new)
      <4>1. Len(new) = Len(revisions) /\ input.next <= revisions[Len(revisions)].from
        <5> DEFINE n == Len(revisions)
                   m == Len(new)
        <5>1. n \in Nat /\ m \in Nat /\ m >= n /\ k \in Nat /\ k + 1 = m
          BY <1>1, <1>2, <2>1, <3>2
        <5>2. k <= n /\ k # n
          BY <1>1, <2>1, <2>3
        <5>3. m = IF input.next <= revisions[n].from THEN n ELSE n + 1
          BY DEF Revises
        <5> HIDE DEF n, m
        <5>4. m = n /\ m # n + 1
          BY <5>1, <5>2
        <5> QED BY <5>3, <5>4 DEF n, m
      <4>2. new[k + 1].from = input.next /\ input.next <= revisions[k + 1].from
        BY <3>2, <4>1 DEF Revises
      <4>3. new[k].until >= new[k + 1].from
        BY <1>1, <2>1, <2>3, <3>1, <4>2 DEF Forever
      <4> QED BY <1>4, <2>1, <2>3, <2>4, <3>1, <4>3
    <3>3. CASE k + 1 # Len(new)
      <4>1. k + 1 \in 1..Len(new) - 1
        BY <1>1, <2>1, <3>3
      <4>2. new[k + 1].from = revisions[k + 1].from
        BY <4>1 DEF Revises
      <4> QED BY <1>4, <2>1, <2>3, <2>4, <3>1, <4>2
    <3> QED BY <3>2, <3>3
  <2> QED BY <2>2, <2>3
<1> QED BY <1>3, <1>4

\* Before the date asked for, the same revision is in force.
LEMMA SameInForceBefore ==
    ASSUME NEW revisions \in Seq(ScheduleRow), HistoryInOrder(revisions),
           NEW input \in Document, NEW new, Revises(revisions, new, input),
           NEW local \in Nat, local < input.next
    PROVE  ScheduleAt(new, local) = ScheduleAt(revisions, local)
<1> DEFINE S == {i \in DOMAIN revisions : Covers(revisions[i], local)}
           T == {i \in DOMAIN new : Covers(new[i], local)}
<1>1. /\ Len(revisions) \in Nat /\ Len(new) \in Nat /\ DOMAIN new = 1..Len(new)
      /\ DOMAIN revisions = 1..Len(revisions) /\ input.next \in Nat
  BY DEF Revises, Document
<1>2. ASSUME NEW i \in S PROVE i \in T
  <2>1. revisions[i].from <= local /\ revisions[i].from \in Nat /\ i \in DOMAIN revisions
    BY ScheduleFields DEF Covers
  <2>2. i \in 1..Len(new) - 1 /\ i \in DOMAIN new
    BY <1>1, <2>1, BegunBeforeIsKept
  <2>3. /\ new[i].from = revisions[i].from
        /\ new[i].until = IF i = Len(revisions) THEN input.next ELSE revisions[i].until
    BY <2>2 DEF Revises
  <2> QED BY <2>2, <2>3 DEF Covers
<1>3. ASSUME NEW i \in T PROVE i \in S
  <2>1. i \in DOMAIN new /\ new[i].from <= local
    BY DEF Covers
  <2>2. i # Len(new)
    <3>1. new[Len(new)].from = input.next
      BY DEF Revises
    <3>2. SUFFICES ASSUME i = Len(new) PROVE FALSE
      OBVIOUS
    <3>3. input.next <= local
      BY <2>1, <3>1, <3>2
    <3> QED BY <1>1, <3>3
  <2>3. i \in 1..Len(new) - 1
    BY <1>1, <2>1, <2>2
  <2>4. /\ i \in DOMAIN revisions /\ new[i].from = revisions[i].from
        /\ new[i].until = IF i = Len(revisions) THEN input.next ELSE revisions[i].until
    BY <2>3 DEF Revises
  <2>5. i = Len(revisions) => revisions[i].until = Forever
    BY <2>4 DEF HistoryInOrder
  <2> QED BY <2>4, <2>5 DEF Covers
<1>4. S = T
  BY <1>2, <1>3
<1> QED BY <1>4 DEF ScheduleAt

\* The rows recorded stay where they were, and the head with them, or it moves
\* to the start of the new revision.
LEMMA RevisedInOrder ==
    ASSUME NEW revisions \in Seq(ScheduleRow), HistoryInOrder(revisions), HasOpen(revisions),
           NEW input \in Document, input.rule \in Rules,
           FirstSlot(input.rule, input.next) = input.next, NEW head, ProperHead(revisions, head), head.next <= input.next,
           NEW rows, rows \subseteq OccurrenceRow, InOrder(revisions, head, rows),
           NEW new, new = RevisedSchedules(revisions, input),
           NEW moved, moved = RescheduledHead(head, new, input)
    PROVE  /\ InOrder(new, moved, rows) /\ InOrder(new, NoHead, rows)
           /\ Coherent(revisions, head) => Coherent(new, moved)
<1>1. /\ input.rule \in ScheduleRule /\ input.next \in Nat
      /\ FirstSlot(input.rule, input.next) = input.next
  BY DEF Document
<1>2. Revises(revisions, new, input)
  BY <1>1, RevisedSchedulesRevise
<1>3. Len(revisions) \in DOMAIN revisions
  BY OpenIsLast
<1>4. HistoryInOrder(new) /\ new \in Seq(ScheduleRow)
  BY <1>2, <1>3, RevisedHistoryInOrder DEF Revises
<1>5. /\ head # NoHead /\ head.rev \in DOMAIN revisions /\ head.next \in Nat
      /\ head.ordinal \in Nat \ {0} /\ revisions[head.rev].from <= head.next
      /\ head.rev \in Nat /\ revisions[head.rev].from \in Nat
  BY ProperIsNotNone, ScheduleFields DEF ProperHead, HeadRow, InOrder
<1>6. OpenSchedule(new) = Len(new) /\ Len(new) \in DOMAIN new /\ Len(new) \in Nat \ {0}
  <2>1. HasOpen(new)
    BY RevisedSchedulesType
  <2> QED BY <1>4, <2>1, OpenIsLast
<1>7. moved = IF head.next = input.next
              THEN [rev |-> Len(new), ordinal |-> 1, next |-> input.next] ELSE head
  BY <1>1, <1>5, <1>6 DEF RescheduledHead
<1>8. ASSUME NEW o \in rows
      PROVE  /\ o.rev \in 1..Len(new) - 1 /\ o.rev \in DOMAIN new
             /\ new[o.rev].from = revisions[o.rev].from
             /\ revisions[o.rev].from <= o.at /\ Before(o, head)
             /\ o.rev \in Nat /\ o.at \in Nat /\ o.ordinal \in Nat
  <2>1. /\ o.rev \in DOMAIN revisions /\ revisions[o.rev].from <= o.at
        /\ Before(o, head)
    BY <1>5 DEF InOrder
  <2>2. o.rev \in Nat /\ o.at \in Nat /\ o.ordinal \in Nat /\ revisions[o.rev].from \in Nat
    BY <2>1, ScheduleFields DEF OccurrenceRow
  <2>3. revisions[o.rev].from < input.next
    BY <1>1, <1>5, <2>1, <2>2 DEF Before
  <2>4. o.rev \in 1..Len(new) - 1 /\ o.rev \in DOMAIN new
    BY <1>2, <2>1, <2>3, BegunBeforeIsKept
  <2> QED BY <1>2, <2>1, <2>2, <2>4 DEF Revises
<1>9. \A o \in rows : o.rev \in DOMAIN new /\ new[o.rev].from <= o.at
  BY <1>8
<1>10. InOrder(new, NoHead, rows)
  BY <1>4, <1>9 DEF InOrder
<1>11. CASE head.next = input.next
  <2>1. moved.rev = Len(new) /\ moved.ordinal = 1 /\ moved.next = input.next
    BY <1>7, <1>11
  <2>2. new[Len(new)].from = input.next /\ new[Len(new)].first = input.next
        /\ new[Len(new)].rule = input.rule
    BY <1>2 DEF Revises
  <2>3. ASSUME NEW o \in rows PROVE Before(o, moved)
    <3> DEFINE m == Len(new)
    <3>1. o.rev \in 1..m - 1 /\ m \in Nat /\ moved.rev = m
      BY <1>6, <1>8, <2>1
    <3> HIDE DEF m
    <3>2. o.rev <= moved.rev /\ o.rev # moved.rev
      BY <3>1
    <3>3. o.at < moved.next
      BY <1>8, <1>11, <2>1 DEF Before
    <3> QED BY <3>2, <3>3 DEF Before
  <2>4. moved.rev \in DOMAIN new /\ new[moved.rev].from <= moved.next
    BY <1>1, <1>6, <2>1, <2>2
  <2>5. InOrder(new, moved, rows)
    BY <1>4, <1>9, <2>3, <2>4 DEF InOrder
  <2> DEFINE found == ScheduleAt(new, input.next)
  <2>6. InForce(new, input.next, found)
    BY <1>1, <1>4, <1>6, <2>2, LastToBegin
  <2> HIDE DEF found
  <2>7. found = Len(new)
    <3> DEFINE m == Len(new)
    <3>1. m <= found /\ found \in 1..m /\ m \in Nat
      BY <1>1, <1>4, <1>6, <2>2, <2>6 DEF InForce
    <3> HIDE DEF m
    <3>2. found = m
      BY <3>1
    <3> QED BY <3>2 DEF m
  <2>8. SlotAt(new, Len(new), 1) = input.next
    BY <1>1, <2>2 DEF SlotAt, FirstSlot
  <2>9. Coherent(new, moved)
    BY <2>1, <2>7, <2>8 DEF Coherent, found
  <2> QED BY <1>10, <2>5, <2>9
<1>12. CASE head.next # input.next
  <2>1. moved = head /\ head.next < input.next
    BY <1>1, <1>5, <1>7, <1>12
  <2>2. revisions[head.rev].from < input.next
    BY <1>1, <1>5, <2>1
  <2>3. head.rev \in 1..Len(new) - 1 /\ head.rev \in DOMAIN new
    BY <1>2, <1>5, <2>2, BegunBeforeIsKept
  <2>4. /\ new[head.rev].from = revisions[head.rev].from
        /\ new[head.rev].first = revisions[head.rev].first
        /\ new[head.rev].rule = revisions[head.rev].rule
    BY <1>2, <2>3 DEF Revises
  <2>5. InOrder(new, moved, rows)
    BY <1>4, <1>5, <1>8, <1>9, <2>1, <2>3, <2>4 DEF InOrder
  <2>6. ScheduleAt(new, head.next) = ScheduleAt(revisions, head.next)
    BY <1>2, <1>5, <2>1, SameInForceBefore
  <2>7. SlotAt(new, head.rev, head.ordinal) = SlotAt(revisions, head.rev, head.ordinal)
    BY <2>4 DEF SlotAt
  <2>8. Coherent(revisions, head) => Coherent(new, moved)
    BY <2>1, <2>6, <2>7 DEF Coherent
  <2> QED BY <1>10, <2>5, <2>8
<1> QED BY <1>11, <1>12

-----------------------------------------------------------------------------
(***************************************************************************)
(* An occurrence recorded.                                                 *)
(***************************************************************************)
\* The row at the head joins those recorded, and the head moves on from it.
LEMMA RecordedInOrder ==
    ASSUME NEW revisions \in Seq(ScheduleRow), NEW head, ProperHead(revisions, head),
           NEW rows, rows \subseteq OccurrenceRow, InOrder(revisions, head, rows),
           NEW o, o.rev = head.rev, o.ordinal = head.ordinal, o.at = head.next,
           NEW next, \/ next = NoHead
                     \/ /\ ProperHead(revisions, next)
                        /\ Follows(revisions, next, head.rev, head.ordinal, head.next)
    PROVE  InOrder(revisions, next, rows \union {o})
<1>1. /\ head # NoHead /\ head.rev \in DOMAIN revisions /\ head.next \in Nat
      /\ head.ordinal \in Nat \ {0} /\ head.rev \in Nat
  BY ProperIsNotNone, ScheduleFields DEF ProperHead, HeadRow
<1>2. \A p \in rows \union {o} : p.rev \in DOMAIN revisions /\ revisions[p.rev].from <= p.at
  BY <1>1 DEF InOrder
<1>3. CASE next = NoHead
  BY <1>2, <1>3 DEF InOrder
<1>4. CASE next # NoHead
  <2>1. ProperHead(revisions, next)
        /\ Follows(revisions, next, head.rev, head.ordinal, head.next)
    BY <1>4
  <2>2. next.rev \in Nat /\ next.ordinal \in Nat /\ next.next \in Nat
    BY <2>1 DEF ProperHead, HeadRow
  <2>3. ASSUME NEW p \in rows PROVE Before(p, next)
    <3>1. p.rev \in Nat /\ p.ordinal \in Nat /\ p.at \in Nat
      BY DEF OccurrenceRow
    <3>2. Before(p, head)
      BY <1>1 DEF InOrder
    <3> QED BY <1>1, <2>1, <2>2, <3>1, <3>2 DEF Before, Follows
  <2>4. Before(o, next)
    BY <1>1, <2>1, <2>2 DEF Before, Follows
  <2>5. next.rev \in DOMAIN revisions /\ revisions[next.rev].from <= next.next
    BY <2>1 DEF Follows
  <2> QED BY <1>2, <2>3, <2>4, <2>5 DEF InOrder
<1> QED BY <1>3, <1>4

-----------------------------------------------------------------------------
(***************************************************************************)
(* What a step does to a source's schedule, head and occurrences, whatever *)
(* it does to the other tables.                                            *)
(***************************************************************************)
KeptAt(s) ==
    /\ schedules'[s] = schedules[s] /\ heads'[s] = heads[s] /\ occurrences'[s] = occurrences[s]
    /\ sources'[s].lifecycle = sources[s].lifecycle
    /\ sources'[s].total = sources[s].total /\ sources'[s].count = sources[s].count
    /\ sources'[s].revision >= sources[s].revision

CreatedAt(s, draft) ==
    /\ sources[s] = NoSource
    /\ sources'[s] = [lifecycle |-> "active", total |-> draft.total, count |-> 0, revision |-> 1]
    /\ schedules'[s] = <<NewSchedule(draft, FirstSlot(draft.rule, draft.first))>>
    /\ heads'[s] = [rev |-> 1, ordinal |-> 1, next |-> FirstSlot(draft.rule, draft.first)]
    /\ occurrences'[s] = occurrences[s]

AdoptedAt(s, draft, transaction) ==
    /\ sources[s] = NoSource
    /\ sources'[s] = FulfilledSource([lifecycle |-> "active", total |-> draft.total,
                                      count |-> 0, revision |-> 1], 1)
    /\ schedules'[s] = <<NewSchedule(draft, draft.first)>>
    /\ heads'[s] = HeadAfter(draft.total, 1, <<NewSchedule(draft, draft.first)>>, 1, 1)
    /\ occurrences'[s] = {[rev |-> 1, ordinal |-> 1, at |-> draft.first, position |-> 1,
                           transaction |-> transaction]}

RowAtHead(s) ==
    [rev |-> heads[s].rev, ordinal |-> heads[s].ordinal, at |-> heads[s].next,
     position |-> sources[s].count + 1, transaction |-> Generated]

FulfilledAt(s) ==
    /\ sources[s].lifecycle = "active"
    /\ heads[s].next \in 0..MaxClock
    /\ Coherent(schedules[s], heads[s])
    /\ sources'[s] = FulfilledSource(sources[s], sources[s].count + 1)
    /\ heads'[s] = HeadAfter(sources[s].total, sources[s].count + 1, schedules[s],
                             heads[s].rev, heads[s].ordinal)
    /\ occurrences'[s] = occurrences[s] \union {RowAtHead(s)}
    /\ schedules'[s] = schedules[s]

UpdatedSchedules(c) ==
    IF "schedule" \in c.apply THEN RevisedSchedules(schedules[c.source], c.input)
    ELSE schedules[c.source]

UpdatedHead(c) ==
    IF CompletesByEdit(c) THEN NoHead
    ELSE IF "schedule" \in c.apply
    THEN RescheduledHead(heads[c.source], UpdatedSchedules(c), c.input) ELSE heads[c.source]

UpdatedAt(s, c) ==
    /\ c.pc = "update" /\ c.source = s /\ ~Stale(c)
    /\ schedules'[s] = UpdatedSchedules(c)
    /\ heads'[s] = UpdatedHead(c)
    /\ sources'[s].total = IF "count" \in c.apply THEN c.input.total ELSE sources[s].total
    /\ sources'[s].lifecycle = IF CompletesByEdit(c) THEN "completed" ELSE sources[s].lifecycle
    /\ sources'[s].count = sources[s].count
    /\ sources'[s].revision = sources[s].revision + 1
    /\ occurrences'[s] = occurrences[s]

SwitchedAt(s, c) ==
    /\ c.pc = "lifecycle" /\ c.source = s
    /\ TransitionAllowed(sources[s].lifecycle, c.operation)
    /\ sources'[s].total = sources[s].total /\ sources'[s].count = sources[s].count
    /\ sources'[s].lifecycle = Target(c.operation)
    /\ sources'[s].revision = sources[s].revision + 1
    /\ heads'[s] = CASE c.operation = "pause" -> heads[s]
                     [] c.operation = "resume" -> SkippedHead(heads[s], schedules[s], c.observed)
                     [] c.operation \in {"stop", "delete"} -> NoHead
    /\ schedules'[s] = schedules[s] /\ occurrences'[s] = occurrences[s]

WrittenAt(s) ==
    \/ \E draft \in Drafts : \/ CreatedAt(s, draft)
                             \/ \E transaction \in Manual : AdoptedAt(s, draft, transaction)
    \/ FulfilledAt(s)
    \/ \E w \in Workers : UpdatedAt(s, commands[w]) \/ SwitchedAt(s, commands[w])

\* A source's head moves only with its revision, which fences edits out.
HeadFenced(s) ==
    \/ sources'[s].revision > sources[s].revision
    \/ sources'[s].revision = sources[s].revision /\ heads'[s] = heads[s]

\* A source left alone stays in order.
LEMMA KeptInOrder ==
    ASSUME IInv, IInv', NEW s \in Sources, SourceInOrder(s), KeptAt(s)
    PROVE  SourceInOrder(s)' /\ HeadFenced(s) /\ (CoherentAt(s) => CoherentAt(s)')
<1>1. sources[s].revision \in Nat /\ sources'[s].revision \in Nat
  BY DEF IInv, TypeOK, SourceRow
<1> QED BY <1>1 DEF KeptAt, SourceInOrder, HeadFenced, CoherentAt

\* A history with one revision is in order.
LEMMA NewHistoryInOrder ==
    ASSUME NEW draft \in Drafts, NEW first \in Nat,
           NEW revisions, revisions = <<NewSchedule(draft, first)>>
    PROVE  /\ revisions \in Seq(ScheduleRow) /\ HistoryInOrder(revisions)
           /\ 1 \in DOMAIN revisions /\ revisions[1] = NewSchedule(draft, first)
           /\ revisions[1].from = first /\ ScheduleAt(revisions, first) = 1
<1>1. revisions \in Seq(ScheduleRow) /\ 1 \in DOMAIN revisions
  BY NewHistories
<1>2. /\ revisions[1] = NewSchedule(draft, first) /\ Len(revisions) = 1
      /\ DOMAIN revisions = {1}
  OBVIOUS
<1>3. /\ revisions[1].from = first /\ revisions[1].until = Forever
      /\ revisions[1].rule = draft.rule
  BY <1>2 DEF NewSchedule
<1>4. HistoryInOrder(revisions)
  <2>1. revisions[1].rule \in Rules
    BY <1>3 DEF Rules
  <2> QED BY <1>2, <1>3, <2>1 DEF HistoryInOrder
<1> DEFINE found == ScheduleAt(revisions, first)
<1>5. InForce(revisions, first, found)
  <2>1. revisions[1].from <= first
    BY <1>3
  <2> QED BY <1>1, <1>4, <2>1, LastToBegin
<1>6. found = 1
  BY <1>2, <1>5 DEF InForce
<1> QED BY <1>1, <1>2, <1>3, <1>4, <1>6

\* create() starts a source with its first slot.
LEMMA CreatedInOrder ==
    ASSUME IInv, IInv', NEW s \in Sources, NEW draft \in Drafts, CreatedAt(s, draft)
    PROVE  SourceInOrder(s)' /\ HeadFenced(s) /\ CoherentAt(s)'
<1> DEFINE first == FirstSlot(draft.rule, draft.first)
           revisions == <<NewSchedule(draft, first)>>
<1>1. first \in Nat /\ ScheduledLocalAt(draft.rule, first, 1) = first
  BY DraftFields, FirstSlotAgain DEF FirstSlot
<1>2. /\ schedules'[s] = revisions /\ occurrences'[s] = occurrences[s]
      /\ heads'[s].rev = 1 /\ heads'[s].ordinal = 1 /\ heads'[s].next = first
      /\ sources[s].revision = 0 /\ sources'[s].revision = 1
  BY DEF CreatedAt, NoSource
<1>3. occurrences[s] = {}
  BY DEF IInv, SourceSound, CreatedAt, NoSource
<1> HIDE DEF first
<1>4. /\ revisions \in Seq(ScheduleRow) /\ HistoryInOrder(revisions)
      /\ 1 \in DOMAIN revisions /\ revisions[1] = NewSchedule(draft, first)
      /\ revisions[1].from = first /\ ScheduleAt(revisions, first) = 1
  BY <1>1, NewHistoryInOrder
<1>5. SlotAt(revisions, 1, 1) = first
  BY <1>1, <1>4 DEF SlotAt, NewSchedule
<1> HIDE DEF revisions
<1>6. InOrder(revisions, heads'[s], {})
  BY <1>1, <1>2, <1>4 DEF InOrder
<1>7. Coherent(revisions, heads'[s])
  BY <1>2, <1>4, <1>5 DEF Coherent
<1> QED BY <1>2, <1>3, <1>6, <1>7 DEF SourceInOrder, HeadFenced, CoherentAt

\* adopt() starts a source past the transaction's own date.
LEMMA AdoptedInOrder ==
    ASSUME IInv, IInv', NEW s \in Sources, NEW draft \in Drafts,
           NEW transaction \in Manual, AdoptedAt(s, draft, transaction)
    PROVE  SourceInOrder(s)' /\ HeadFenced(s) /\ CoherentAt(s)'
<1> DEFINE first == draft.first
           revisions == <<NewSchedule(draft, first)>>
           o == [rev |-> 1, ordinal |-> 1, at |-> first, position |-> 1,
                 transaction |-> transaction]
           head == NextHeadAfter(revisions, 1, 1)
<1>1. first \in Nat /\ draft.rule \in ScheduleRule
  BY DraftFields
<1>2. /\ schedules'[s] = revisions /\ occurrences'[s] = {o}
      /\ heads'[s] = NoHead \/ heads'[s] = head
      /\ sources[s].revision = 0
  BY DEF AdoptedAt, NoSource, HeadAfter
<1>3. sources'[s].revision = 2
  <2> DEFINE row == [lifecycle |-> "active", total |-> draft.total, count |-> 0, revision |-> 1]
  <2>1. row \in SourceRow /\ row.lifecycle = "active" /\ row.revision = 1 /\ 1 \in Nat
    BY DraftFields DEF SourceRow, Lifecycles
  <2>2. sources'[s] = FulfilledSource(row, 1)
    BY DEF AdoptedAt
  <2> HIDE DEF row
  <2> QED BY <2>1, <2>2, FulfilledSourceType
<1>4. o.rev = 1 /\ o.ordinal = 1 /\ o.at = first
  OBVIOUS
<1>5. /\ revisions \in Seq(ScheduleRow) /\ HistoryInOrder(revisions)
      /\ 1 \in DOMAIN revisions /\ revisions[1] = NewSchedule(draft, first)
      /\ revisions[1].from = first /\ ScheduleAt(revisions, first) = 1
  BY <1>1, NewHistoryInOrder
<1>6. SlotAt(revisions, 1, 1 + 1) > first
  BY <1>1, <1>5, SecondSlotIsLater DEF SlotAt, NewSchedule
<1> HIDE DEF revisions, first, o
<1>7. /\ Follows(revisions, head, 1, 1, first) /\ Coherent(revisions, head)
      /\ ProperHead(revisions, head)
  <2>1. 1 \in Nat \ {0}
    OBVIOUS
  <2> QED BY <1>1, <1>5, <1>6, <2>1, NextHeadFollows, NextHeadAfterType
<1> HIDE DEF head
<1>8. InOrder(revisions, NoHead, {o})
  BY <1>1, <1>4, <1>5 DEF InOrder
<1>9. InOrder(revisions, head, {o})
  <2>1. Before(o, head)
    BY <1>4, <1>7 DEF Follows, Before
  <2> QED BY <1>7, <1>8, <2>1 DEF InOrder, Follows
<1> QED BY <1>2, <1>3, <1>7, <1>8, <1>9 DEF SourceInOrder, HeadFenced, CoherentAt

\* fulfill_generated_occurrence moves the head on from the row it records.
LEMMA FulfilledInOrder ==
    ASSUME IInv, IInv', NEW s \in Sources, SourceInOrder(s), FulfilledAt(s)
    PROVE  SourceInOrder(s)' /\ HeadFenced(s) /\ CoherentAt(s)'
<1> DEFINE head == heads[s]
           revisions == schedules[s]
           next == NextHeadAfter(revisions, head.rev, head.ordinal)
           o == RowAtHead(s)
<1>1. /\ head # NoHead /\ ProperHead(revisions, head) /\ revisions \in Seq(ScheduleRow)
      /\ head.rev \in DOMAIN revisions /\ head.ordinal \in Nat \ {0} /\ head.next \in Nat
      /\ occurrences[s] \subseteq OccurrenceRow /\ sources[s] \in SourceRow
      /\ sources[s].count \in Nat /\ sources[s].revision \in Nat
  <2>1. SourceSound(s) /\ sources[s].lifecycle = "active"
    BY DEF IInv, FulfilledAt
  <2>2. head # NoHead /\ ProperHead(revisions, head)
    BY <2>1 DEF SourceSound, HeadAt
  <2> QED BY <2>2, SourceOfRow DEF ProperHead, IInv, TypeOK
<1>2. o.rev = head.rev /\ o.ordinal = head.ordinal /\ o.at = head.next
  BY DEF RowAtHead
<1>3. /\ schedules'[s] = revisions /\ occurrences'[s] = occurrences[s] \union {o}
      /\ heads'[s] = NoHead \/ heads'[s] = next
      /\ Coherent(revisions, head)
  BY DEF FulfilledAt, HeadAfter
<1>4. sources'[s].revision = sources[s].revision + 1
  <2>1. sources[s].lifecycle = "active" /\ sources[s].count + 1 \in Nat
        /\ sources'[s] = FulfilledSource(sources[s], sources[s].count + 1)
    BY <1>1 DEF FulfilledAt
  <2> QED BY <1>1, <2>1, FulfilledSourceType
<1> HIDE DEF o, next
<1>5. InOrder(revisions, head, occurrences[s])
  BY DEF SourceInOrder
<1> HIDE DEF revisions, head
<1>6. SlotAt(revisions, head.rev, head.ordinal + 1) > head.next
  <2>1. revisions[head.rev].rule \in ScheduleRule /\ revisions[head.rev].first \in Nat
    BY <1>1, ScheduleFields
  <2>2. head.ordinal + 1 \in Nat \ {0} /\ head.ordinal < head.ordinal + 1
    BY <1>1
  <2>3. SlotAt(revisions, head.rev, head.ordinal) < SlotAt(revisions, head.rev, head.ordinal + 1)
    BY <1>1, <2>1, <2>2, SlotsIncrease DEF SlotAt
  <2>4. /\ SlotAt(revisions, head.rev, head.ordinal) = head.next
        /\ SlotAt(revisions, head.rev, head.ordinal + 1) \in Nat
    BY <1>1, <1>3, <2>2, SlotAtType DEF Coherent
  <2> QED BY <1>1, <2>3, <2>4
<1>7. /\ Follows(revisions, next, head.rev, head.ordinal, head.next)
      /\ Coherent(revisions, next) /\ ProperHead(revisions, next)
  <2>1. ScheduleAt(revisions, head.next) = head.rev /\ HistoryInOrder(revisions)
    BY <1>3, <1>5 DEF Coherent, InOrder
  <2> QED BY <1>1, <1>6, <2>1, NextHeadFollows, NextHeadAfterType DEF next
<1>8. InOrder(revisions, heads'[s], occurrences[s] \union {o})
  BY <1>1, <1>2, <1>3, <1>5, <1>7, RecordedInOrder
<1> QED BY <1>1, <1>3, <1>4, <1>7, <1>8 DEF SourceInOrder, HeadFenced, CoherentAt

\* The fence makes what the validation of an edit established the present.
LEMMA UpdatedInOrder ==
    ASSUME IInv, IInv', NEW s \in Sources, SourceInOrder(s),
           NEW c \in Command, CommandSound(c), CommandInOrder(c), UpdatedAt(s, c),
           "schedule" \in c.apply => KeepsDate(c)
    PROVE  SourceInOrder(s)' /\ HeadFenced(s) /\ (CoherentAt(s) => CoherentAt(s)')
<1> DEFINE head == heads[s]
           revisions == schedules[s]
           new == RevisedSchedules(revisions, c.input)
           moved == RescheduledHead(head, new, c.input)
<1>1. c.pc = "update" /\ c.source = s /\ sources[s].revision = c.revision
      /\ sources[s].revision \in Nat /\ sources[s].lifecycle # "none"
      /\ sources'[s].revision = sources[s].revision + 1
  BY DEF UpdatedAt, Stale, CommandSound, OnSource, IInv, TypeOK, SourceRow
<1>2. HeadFenced(s)
  BY <1>1 DEF HeadFenced
<1>3. InOrder(revisions, head, occurrences[s])
  BY DEF SourceInOrder
<1>4. InOrder(revisions, NoHead, occurrences[s])
  BY <1>3 DEF InOrder
<1>5. CASE "schedule" \in c.apply
  <2>1. /\ c.input.rule \in Rules /\ head # NoHead /\ c.input.next >= head.next
        /\ FirstSlot(c.input.rule, c.input.next) = c.input.next
    BY <1>1, <1>5 DEF CommandInOrder, KeepsDate
  <2>2. ProperHead(revisions, head) /\ HasOpen(revisions) /\ revisions \in Seq(ScheduleRow)
        /\ HistoryInOrder(revisions) /\ occurrences[s] \subseteq OccurrenceRow
        /\ head.next \in Nat
    BY <1>1, <1>3, <2>1, SourceOfRow DEF IInv, SourceSound, InOrder, TypeOK
  <2>3. c.input \in Document /\ c.input.next \in Nat
    BY <1>1, CommandKinds DEF UpdateCommand, Document
  <2>4. head.next <= c.input.next
    BY <2>1, <2>2, <2>3
  <2>5. /\ schedules'[s] = new /\ occurrences'[s] = occurrences[s]
        /\ heads'[s] = NoHead \/ heads'[s] = moved
    BY <1>1, <1>5 DEF UpdatedAt, UpdatedSchedules, UpdatedHead
  <2>8. CoherentAt(s) => Coherent(revisions, head)
    BY <2>1 DEF CoherentAt
  <2> HIDE DEF revisions, head, new, moved
  <2>6. new = RevisedSchedules(revisions, c.input) /\ moved = RescheduledHead(head, new, c.input)
    BY DEF new, moved
  <2>7. /\ InOrder(new, moved, occurrences[s]) /\ InOrder(new, NoHead, occurrences[s])
        /\ Coherent(revisions, head) => Coherent(new, moved)
    BY <1>3, <2>1, <2>2, <2>3, <2>4, <2>6, RevisedInOrder
  <2> QED BY <1>2, <2>5, <2>7, <2>8 DEF SourceInOrder, CoherentAt
<1>6. CASE "schedule" \notin c.apply
  <2>1. /\ schedules'[s] = revisions /\ occurrences'[s] = occurrences[s]
        /\ heads'[s] = NoHead \/ heads'[s] = head
    BY <1>1, <1>6 DEF UpdatedAt, UpdatedSchedules, UpdatedHead
  <2> QED BY <1>2, <1>3, <1>4, <2>1 DEF SourceInOrder, CoherentAt
<1> QED BY <1>5, <1>6

\* A resumption moves the head on; in a history of two revisions, to a slot of the right one.
LEMMA SwitchedInOrder ==
    ASSUME IInv, IInv', NEW s \in Sources, SourceInOrder(s),
           NEW c \in Command, CommandInOrder(c), SwitchedAt(s, c)
    PROVE  /\ SourceInOrder(s)' /\ HeadFenced(s)
           /\ (Resumes(c) => Len(schedules[s]) <= 2) /\ CoherentAt(s) => CoherentAt(s)'
<1> DEFINE head == heads[s]
           revisions == schedules[s]
           skipped == SkippedHead(head, revisions, c.observed)
<1>1. c.pc = "lifecycle" /\ c.source = s /\ c.operation \in LifecycleCommands
      /\ c.observed \in Nat /\ c.operation \in Operations
      /\ sources[s].revision \in Nat
      /\ sources'[s].revision = sources[s].revision + 1
  BY CommandKinds
     DEF SwitchedAt, LifecycleCommand, CommandInOrder, IInv, TypeOK, SourceRow
<1>2. HeadFenced(s)
  BY <1>1 DEF HeadFenced
<1>3. InOrder(revisions, head, occurrences[s])
  BY DEF SourceInOrder
<1>4. InOrder(revisions, NoHead, occurrences[s])
  BY <1>3 DEF InOrder
<1>5. schedules'[s] = revisions /\ occurrences'[s] = occurrences[s]
  BY DEF SwitchedAt
<1>6. CASE c.operation = "resume"
  <2>1. heads'[s] = skipped /\ sources[s].lifecycle = "paused"
    BY <1>6 DEF SwitchedAt, TransitionAllowed
  <2>2. /\ head # NoHead /\ ProperHead(revisions, head) /\ revisions \in Seq(ScheduleRow)
        /\ HasOpen(revisions) /\ occurrences[s] \subseteq OccurrenceRow
        /\ head.next \in Nat
    BY <2>1, SourceOfRow DEF IInv, SourceSound, HeadAt, TypeOK
  <2>9. CoherentAt(s) => Coherent(revisions, head)
    BY <2>2 DEF CoherentAt
  <2>10. (Resumes(c) => Len(schedules[s]) <= 2) => Len(revisions) <= 2
    BY <1>1, <1>6 DEF Resumes
  <2> HIDE DEF revisions, head
  <2>3. HistoryInOrder(revisions) /\ revisions[head.rev].from <= head.next
    BY <1>3, <2>2 DEF InOrder
  <2>4. SkipsOn(revisions, head, skipped) /\ ProperHead(revisions, skipped)
    BY <1>1, <2>2, <2>3, SkippedHeadSkips, SkippedHeadLands
  <2> HIDE DEF skipped
  <2>5. /\ skipped.rev \in Nat /\ skipped.ordinal \in Nat /\ skipped.next \in Nat
        /\ head.rev \in Nat /\ head.ordinal \in Nat
    BY <2>2, <2>4 DEF ProperHead, HeadRow
  <2>6. ASSUME NEW o \in occurrences[s] PROVE Before(o, skipped)
    <3>1. o.rev \in Nat /\ o.ordinal \in Nat /\ o.at \in Nat
      BY <2>2 DEF OccurrenceRow
    <3>2. Before(o, head)
      BY <1>3, <2>2 DEF InOrder
    <3> QED BY <2>2, <2>4, <2>5, <3>1, <3>2 DEF Before, SkipsOn
  <2>7. InOrder(revisions, skipped, occurrences[s])
    BY <1>4, <2>4, <2>6 DEF InOrder, SkipsOn
  <2>8. Len(revisions) <= 2 /\ Coherent(revisions, head) => Coherent(revisions, skipped)
    BY <2>4 DEF SkipsOn
  <2>11. heads'[s] = skipped /\ schedules'[s] = revisions
    BY <1>5, <2>1
  <2> QED BY <1>2, <1>5, <2>7, <2>8, <2>9, <2>10, <2>11 DEF SourceInOrder, CoherentAt
<1>7. CASE c.operation # "resume"
  <2>1. heads'[s] = head \/ heads'[s] = NoHead
    BY <1>1, <1>7 DEF SwitchedAt, LifecycleCommands
  <2> QED BY <1>2, <1>3, <1>4, <1>5, <2>1 DEF SourceInOrder, CoherentAt
<1> QED BY <1>6, <1>7

-----------------------------------------------------------------------------
(***************************************************************************)
(* Every step leaves all sources alone, or writes to one of them.          *)
(***************************************************************************)
Writes ==
    \/ \A t \in Sources : KeptAt(t)
    \/ \E s \in Sources : WrittenAt(s) /\ \A t \in Sources \ {s} : KeptAt(t)

\* A step that changes none of the four tables.
LEMMA NothingWritten ==
    ASSUME IInv, sources' = sources, schedules' = schedules, heads' = heads,
           occurrences' = occurrences
    PROVE  Writes
<1>1. \A t \in Sources : sources[t].revision \in Nat
  BY DEF IInv, TypeOK, SourceRow
<1> QED BY <1>1 DEF Writes, KeptAt

\* A step that changes them at one source.
OnlyAt(s) ==
    \E source, revisions, head, rows :
        /\ sources' = [sources EXCEPT ![s] = source]
        /\ schedules' = [schedules EXCEPT ![s] = revisions]
        /\ heads' = [heads EXCEPT ![s] = head]
        /\ occurrences' = [occurrences EXCEPT ![s] = rows]

LEMMA OneWritten ==
    ASSUME IInv, NEW s \in Sources, OnlyAt(s), WrittenAt(s)
    PROVE  Writes
<1>1. \A t \in Sources \ {s} : /\ sources'[t] = sources[t] /\ schedules'[t] = schedules[t]
                               /\ heads'[t] = heads[t] /\ occurrences'[t] = occurrences[t]
  BY DEF OnlyAt, IInv, TypeOK
<1>2. \A t \in Sources : sources[t].revision \in Nat
  BY DEF IInv, TypeOK, SourceRow
<1>3. \A t \in Sources \ {s} : KeptAt(t)
  BY <1>1, <1>2 DEF KeptAt
<1> QED BY <1>3 DEF Writes

\* The four tables are functions of the sources.
LEMMA Tables ==
    ASSUME IInv, NEW s \in Sources
    PROVE  /\ sources = [sources EXCEPT ![s] = sources[s]]
           /\ schedules = [schedules EXCEPT ![s] = schedules[s]]
           /\ heads = [heads EXCEPT ![s] = heads[s]]
           /\ occurrences = [occurrences EXCEPT ![s] = occurrences[s]]
           /\ \A x : /\ [sources EXCEPT ![s] = x][s] = x
                     /\ [schedules EXCEPT ![s] = x][s] = x
                     /\ [heads EXCEPT ![s] = x][s] = x
                     /\ [occurrences EXCEPT ![s] = x][s] = x
BY DEF IInv, TypeOK

\* create().
LEMMA CreateWrites ==
    ASSUME IInv, NEW w \in Workers, NEW s \in Sources, NEW draft \in Drafts,
           Create(w, s, draft)
    PROVE  Writes
<1> DEFINE first == FirstSlot(draft.rule, draft.first)
           source == [lifecycle |-> "active", total |-> draft.total, count |-> 0,
                      revision |-> 1]
           revisions == <<NewSchedule(draft, first)>>
           head == [rev |-> 1, ordinal |-> 1, next |-> first]
<1>1. /\ sources[s] = NoSource
      /\ sources' = [sources EXCEPT ![s] = source]
      /\ schedules' = [schedules EXCEPT ![s] = revisions]
      /\ heads' = [heads EXCEPT ![s] = head]
      /\ occurrences' = occurrences
  BY DEF Create
<1> HIDE DEF source, revisions, head
<1>2. OnlyAt(s) /\ sources'[s] = source /\ schedules'[s] = revisions /\ heads'[s] = head
  <2>1. occurrences' = [occurrences EXCEPT ![s] = occurrences[s]]
    BY <1>1, Tables
  <2>2. OnlyAt(s)
    BY <1>1, <2>1, Zenon DEF OnlyAt
  <2> QED BY <1>1, <2>2, Tables, Zenon
<1>3. CreatedAt(s, draft)
  BY <1>1, <1>2 DEF CreatedAt, source, revisions, head
<1> QED BY <1>2, <1>3, OneWritten DEF WrittenAt

\* adopt().
LEMMA AdoptWrites ==
    ASSUME IInv, NEW w \in Workers, NEW s \in Sources, NEW draft \in Drafts,
           NEW transaction \in Manual, Adopt(w, s, draft, transaction)
    PROVE  Writes
<1> DEFINE source == FulfilledSource([lifecycle |-> "active", total |-> draft.total,
                                      count |-> 0, revision |-> 1], 1)
           revisions == <<NewSchedule(draft, draft.first)>>
           head == HeadAfter(draft.total, 1, revisions, 1, 1)
           rows == {[rev |-> 1, ordinal |-> 1, at |-> draft.first, position |-> 1,
                     transaction |-> transaction]}
<1>1. /\ sources[s] = NoSource
      /\ sources' = [sources EXCEPT ![s] = source]
      /\ schedules' = [schedules EXCEPT ![s] = revisions]
      /\ heads' = [heads EXCEPT ![s] = head]
      /\ occurrences' = [occurrences EXCEPT ![s] = rows]
  BY DEF Adopt
<1> HIDE DEF source, revisions, head, rows
<1>2. /\ OnlyAt(s) /\ sources'[s] = source /\ schedules'[s] = revisions /\ heads'[s] = head
      /\ occurrences'[s] = rows
  BY <1>1, Tables DEF OnlyAt
<1>3. AdoptedAt(s, draft, transaction)
  BY <1>1, <1>2 DEF AdoptedAt, source, revisions, head, rows
<1> QED BY <1>2, <1>3, OneWritten DEF WrittenAt

\* The slot at the head of a source is not fulfilled yet, so nothing is ever healed.
LEMMA HeadUnfulfilled ==
    ASSUME IInv, NEW s \in Sources, SourceInOrder(s), sources[s].lifecycle = "active"
    PROVE  FulfilledAtHead(s) = {}
<1>1. heads[s] # NoHead /\ ProperHead(schedules[s], heads[s])
  BY DEF IInv, SourceSound, HeadAt
<1>2. SUFFICES ASSUME NEW o \in occurrences[s], Identity(o) = Identity(heads[s])
               PROVE  FALSE
  BY DEF FulfilledAtHead
<1>3. o.rev = heads[s].rev /\ o.ordinal = heads[s].ordinal /\ heads[s].ordinal \in Nat
  BY <1>1, <1>2 DEF Identity, ProperHead
<1>4. Before(o, heads[s])
  BY <1>1 DEF SourceInOrder, InOrder
<1> QED BY <1>3, <1>4 DEF Before

\* A worker's due slots are on days of the clock.
LEMMA ProcessedInOrder ==
    ASSUME IInv, OrderInv, NEW w \in Workers, NEW s \in Sources, Processing(w, s)
    PROVE  heads[s].next \in 0..MaxClock /\ FulfilledAtHead(s) = {}
<1>1. /\ sources[s].lifecycle = "active" /\ heads[s].next \in Nat
      /\ Eligible(s, commands[w].observed)
  BY ProcessedSource
<1>2. commands[w].observed \in 0..MaxClock
  BY DEF OrderInv, CommandInOrder, Processing, Pc
<1>3. heads[s].next <= commands[w].observed /\ MaxClock \in Nat
  BY <1>1, RecurringAssumption DEF Eligible
<1> QED BY <1>1, <1>2, <1>3, HeadUnfulfilled DEF OrderInv

\* fulfill_generated_occurrence.
LEMMA FulfillWrites ==
    ASSUME IInv, OrderInv, NEW w \in Workers, NEW s \in Sources, ProcessFulfill(w, s)
    PROVE  Writes
<1> DEFINE source == FulfilledSource(sources[s], sources[s].count + 1)
           head == HeadAfter(sources[s].total, sources[s].count + 1, schedules[s],
                             heads[s].rev, heads[s].ordinal)
           rows == occurrences[s] \union {RowAtHead(s)}
<1>1. /\ sources' = [sources EXCEPT ![s] = source]
      /\ schedules' = schedules
      /\ heads' = [heads EXCEPT ![s] = head]
      /\ occurrences' = [occurrences EXCEPT ![s] = rows]
  <2>1. Fulfill(s)
    BY DEF ProcessFulfill
  <2> QED BY <2>1 DEF Fulfill, RowAtHead
<1>2. Processing(w, s) /\ ~ProcessingFails(s) /\ ~CannotGenerate(s)
  BY DEF ProcessFulfill
<1>3. sources[s].lifecycle = "active" /\ heads[s].next \in 0..MaxClock
  BY <1>2, ProcessedSource, ProcessedInOrder
<1>4. Coherent(schedules[s], heads[s])
  BY <1>2 DEF ProcessingFails, HeadIncoherent, CannotGenerate, TemplateMissing, Coherent
<1> HIDE DEF source, head, rows
<1>5. /\ OnlyAt(s) /\ sources'[s] = source /\ schedules'[s] = schedules[s] /\ heads'[s] = head
      /\ occurrences'[s] = rows
  BY <1>1, Tables DEF OnlyAt
<1>6. FulfilledAt(s)
  BY <1>3, <1>4, <1>5 DEF FulfilledAt, source, head, rows
<1> QED BY <1>5, <1>6, OneWritten DEF WrittenAt

\* update().
LEMMA UpdateWrites ==
    ASSUME IInv, NEW w \in Workers, CommitUpdate(w)
    PROVE  Writes
<1> DEFINE c == commands[w]
           s == c.source
           total == IF "count" \in c.apply THEN c.input.total ELSE sources[s].total
           lifecycle == IF CompletesByEdit(c) THEN "completed" ELSE sources[s].lifecycle
           revision == sources[s].revision + 1
           source == [sources[s] EXCEPT !.total = total, !.lifecycle = lifecycle,
                                        !.revision = revision]
<1>1. c.pc = "update" /\ c.pc \in OnSource /\ ~Stale(c)
  BY DEF CommitUpdate, Pc, OnSource, UpdateFails
<1>2. s \in Sources
  BY <1>1, CommandOnSource
<1>3. /\ schedules' = [schedules EXCEPT ![s] = UpdatedSchedules(c)]
      /\ heads' = [heads EXCEPT ![s] = UpdatedHead(c)]
      /\ occurrences' = occurrences
  <2>1. heads \in [Sources -> HeadRow]
    BY DEF IInv, TypeOK
  <2> QED BY <1>2, <2>1 DEF CommitUpdate, UpdatedSchedules, UpdatedHead
<1>4. sources' = [sources EXCEPT ![s] = source]
  <2>1. sources' = [sources EXCEPT
            ![s].total = IF "count" \in c.apply THEN c.input.total ELSE @,
            ![s].lifecycle = IF CompletesByEdit(c) THEN "completed" ELSE @,
            ![s].revision = @ + 1]
    BY DEF CommitUpdate
  <2>2. sources \in [Sources -> SourceRow]
    BY DEF IInv, TypeOK
  <2> QED BY <1>2, <2>1, <2>2 DEF SourceRow
<1>5. /\ source.total = total /\ source.lifecycle = lifecycle /\ source.revision = revision
      /\ source.count = sources[s].count
  <2>1. sources[s] \in SourceRow
    BY <1>2, SourceOfRow
  <2> HIDE DEF total, lifecycle, revision
  <2> QED BY <2>1 DEF SourceRow
<1> HIDE DEF source
<1>6. /\ OnlyAt(s) /\ sources'[s] = source /\ schedules'[s] = UpdatedSchedules(c)
      /\ heads'[s] = UpdatedHead(c) /\ occurrences'[s] = occurrences[s]
  <2> DEFINE revisions == UpdatedSchedules(c)
             head == UpdatedHead(c)
  <2> HIDE DEF revisions, head, c, s
  <2>1. occurrences' = [occurrences EXCEPT ![s] = occurrences[s]]
    BY <1>2, <1>3, Tables
  <2>2. schedules' = [schedules EXCEPT ![s] = revisions] /\ heads' = [heads EXCEPT ![s] = head]
    BY <1>3 DEF revisions, head
  <2>3. /\ OnlyAt(s) /\ sources'[s] = source /\ schedules'[s] = revisions
        /\ heads'[s] = head /\ occurrences'[s] = occurrences[s]
    <3>1. OnlyAt(s)
      BY <1>4, <2>1, <2>2, Zenon DEF OnlyAt
    <3>2. /\ sources'[s] = source /\ schedules'[s] = revisions /\ heads'[s] = head
          /\ occurrences'[s] = occurrences[s]
      BY <1>2, <1>4, <2>1, <2>2, Tables, Zenon
    <3> QED BY <3>1, <3>2
  <2> QED BY <2>3 DEF revisions, head
<1>7. UpdatedAt(s, c)
  BY <1>1, <1>5, <1>6 DEF UpdatedAt
<1> QED BY <1>2, <1>6, <1>7, OneWritten DEF WrittenAt

\* apply_lifecycle_command.
LEMMA LifecycleWrites ==
    ASSUME IInv, NEW w \in Workers, CommitLifecycle(w)
    PROVE  Writes
<1> DEFINE c == commands[w]
           s == c.source
           revision == sources[s].revision + 1
           source == [sources[s] EXCEPT !.lifecycle = Target(c.operation),
                                        !.revision = revision]
           head == CASE c.operation = "pause" -> heads[s]
                     [] c.operation = "resume" -> SkippedHead(heads[s], schedules[s], c.observed)
                     [] c.operation \in {"stop", "delete"} -> NoHead
<1>1. c.pc = "lifecycle" /\ c.pc \in OnSource
      /\ TransitionAllowed(sources[s].lifecycle, c.operation)
  BY DEF CommitLifecycle, Pc, OnSource
<1>2. s \in Sources
  BY <1>1, CommandOnSource
<1>3. /\ schedules' = schedules /\ occurrences' = occurrences
      /\ heads' = [heads EXCEPT ![s] = head]
  <2>1. heads \in [Sources -> HeadRow]
    BY DEF IInv, TypeOK
  <2> QED BY <1>2, <2>1 DEF CommitLifecycle
<1>4. sources' = [sources EXCEPT ![s] = source]
  <2>1. sources' = [sources EXCEPT ![s].lifecycle = Target(c.operation), ![s].revision = @ + 1]
    BY DEF CommitLifecycle
  <2>2. sources \in [Sources -> SourceRow]
    BY DEF IInv, TypeOK
  <2> QED BY <1>2, <2>1, <2>2 DEF SourceRow
<1>5. /\ source.total = sources[s].total /\ source.lifecycle = Target(c.operation)
      /\ source.revision = revision /\ source.count = sources[s].count
  <2>1. sources[s] \in SourceRow
    BY <1>2, SourceOfRow
  <2> HIDE DEF revision
  <2> QED BY <2>1 DEF SourceRow
<1> HIDE DEF source, head
<1>6. /\ OnlyAt(s) /\ sources'[s] = source /\ schedules'[s] = schedules[s]
      /\ heads'[s] = head /\ occurrences'[s] = occurrences[s]
  <2> HIDE DEF c, s
  <2>1. /\ occurrences' = [occurrences EXCEPT ![s] = occurrences[s]]
        /\ schedules' = [schedules EXCEPT ![s] = schedules[s]]
    BY <1>2, <1>3, Tables
  <2>2. OnlyAt(s)
    BY <1>3, <1>4, <2>1, Zenon DEF OnlyAt
  <2> QED BY <1>2, <1>3, <1>4, <2>2, Tables, Zenon
<1>7. SwitchedAt(s, c)
  BY <1>1, <1>5, <1>6 DEF SwitchedAt, head
<1> QED BY <1>2, <1>6, <1>7, OneWritten DEF WrittenAt

\* A repair and the deletion of a category leave the four tables alone but for the revision.
LEMMA TemplateWrites ==
    ASSUME IInv, NEW w \in Workers,
           CommitRepair(w) \/ \E category \in Categories : DeleteCategory(w, category)
    PROVE  Writes
<1>1. sources \in [Sources -> SourceRow] /\ \A t \in Sources : sources[t].revision \in Nat
  BY DEF IInv, TypeOK, SourceRow
<1>2. schedules' = schedules /\ heads' = heads /\ occurrences' = occurrences
  BY DEF CommitRepair, DeleteCategory
<1>3. ASSUME NEW t \in Sources
      PROVE  /\ sources'[t].lifecycle = sources[t].lifecycle
             /\ sources'[t].total = sources[t].total /\ sources'[t].count = sources[t].count
             /\ sources'[t].revision >= sources[t].revision
  <2> DEFINE revision == sources[t].revision + 1
             source == [sources[t] EXCEPT !.revision = revision]
  <2>1. sources'[t] = sources[t] \/ sources'[t] = source
    <3>1. CASE CommitRepair(w)
      <4>1. sources' = [sources EXCEPT ![commands[w].source].revision = @ + 1]
        BY <3>1 DEF CommitRepair
      <4> QED BY <1>1, <4>1 DEF SourceRow
    <3>2. CASE \E category \in Categories : DeleteCategory(w, category)
      BY <3>2 DEF DeleteCategory
    <3> QED BY <3>1, <3>2
  <2>2. /\ source.lifecycle = sources[t].lifecycle /\ source.total = sources[t].total
        /\ source.count = sources[t].count /\ source.revision = revision
    <3> HIDE DEF revision
    <3> QED BY <1>1 DEF SourceRow
  <2>3. revision >= sources[t].revision /\ sources[t].revision >= sources[t].revision
    BY <1>1
  <2> HIDE DEF source, revision
  <2> QED BY <2>1, <2>2, <2>3
<1>4. \A t \in Sources : KeptAt(t)
  BY <1>2, <1>3 DEF KeptAt
<1> QED BY <1>4 DEF Writes

\* The steps that write are these; all others leave the four tables alone.
LEMMA NextWrites ==
    ASSUME IInv, OrderInv, [Next]_vars
    PROVE  Writes
<1> DEFINE Same == /\ sources' = sources /\ schedules' = schedules /\ heads' = heads
                   /\ occurrences' = occurrences
<1>1. ASSUME NEW w \in Workers, Process(w) PROVE Writes
  <2>1. ASSUME NEW s \in Sources, ProcessHeal(w, s) PROVE FALSE
    BY <2>1, ProcessedInOrder DEF ProcessHeal
  <2>2. Same \/ \E s \in Sources : ProcessFulfill(w, s)
    BY <1>1, <2>1, ZenonT(40) DEF Process, BeginSlice, CaughtUp, ProcessPark, Park,
                                  ProcessError, database
  <2> QED BY <2>2, NothingWritten, FulfillWrites
<1>2. ASSUME NEW w \in Workers, Proceed(w) PROVE Writes
  <2>1. Same \/ CommitUpdate(w) \/ CommitLifecycle(w) \/ CommitRepair(w)
    BY <1>2, ZenonT(40) DEF Proceed, FailUpdate, Recheck, Reread, FailLifecycle, FailRepair,
                            database
  <2> QED BY <2>1, NothingWritten, UpdateWrites, LifecycleWrites, TemplateWrites
<1>3. ASSUME NEW w \in Workers, Begin(w) PROVE Writes
  <2>1. \/ Same
        \/ \E s \in Sources, draft \in Drafts :
              \/ Create(w, s, draft)
              \/ \E transaction \in Manual : Adopt(w, s, draft, transaction)
        \/ \E category \in Categories : DeleteCategory(w, category)
    BY <1>3, ZenonT(40) DEF Begin, BeginUpdate, BeginLifecycle, BeginRepair, Retry, database
  <2> QED BY <2>1, NothingWritten, CreateWrites, AdoptWrites, TemplateWrites
<1>4. CASE Environment \/ UNCHANGED vars
  <2>1. Same
    BY <1>4 DEF Environment, Tick, SetClockBack, Crash, Contention, database, vars
  <2> QED BY <2>1, NothingWritten
<1> QED BY <1>1, <1>2, <1>3, <1>4 DEF Next

-----------------------------------------------------------------------------
(***************************************************************************)
(* The commands: a command goes on as it was, ends, starts a slice, or     *)
(* takes a step that writes nothing and leaves it in order.                *)
(***************************************************************************)
MovesOn(w) ==
    \/ commands'[w] = commands[w]
    \/ commands'[w].pc \in {"idle", "retry", "repair"}
    \/ commands'[w] = Slicing(clock)
    \/ UNCHANGED database /\ CommandInOrder(commands'[w])

\* What becomes of a command that a step sets.
LEMMA BecomeMovesOn ==
    ASSUME IInv, NEW w \in Workers, NEW c, Become(w, c),
           \/ c.pc \in {"idle", "retry", "repair"}
           \/ c = Slicing(clock)
           \/ UNCHANGED database /\ CommandInOrder(c)
    PROVE  \A v \in Workers : MovesOn(v)
<1>1. \A v \in Workers : commands'[v] = IF v = w THEN c ELSE commands[v]
  BY DEF Become, IInv, TypeOK
<1> QED BY <1>1, Zenon DEF MovesOn

\* An edit is begun with what is read of the source in order.
LEMMA BegunUpdateInOrder ==
    ASSUME IInv, OrderInv, NEW w \in Workers, NEW s \in Sources, Visible(s),
           NEW input \in EditedDocuments(s), BeginUpdate(w, s, input)
    PROVE  \A v \in Workers : MovesOn(v)
<1> DEFINE changes == ConfigurationChanges(s, input)
           apply   == changes \union (IF DescriptionChanged(s, input)
                                      THEN {"description"} ELSE {})
           open == schedules[s][OpenSchedule(schedules[s])]
           c == [pc |-> "update", source |-> s, revision |-> sources[s].revision,
                 observed |-> clock, input |-> input, apply |-> apply]
<1>1. /\ "update" \in Operations
      /\ changes # {} => ConfigurationEditAllowed(s)
      /\ "schedule" \in changes => ScheduleValid(s, input)
      /\ Become(w, c) /\ UNCHANGED database
  BY DEF BeginUpdate, Operating
<1>2. "count" \in apply => input.total \in EditTotals
  <2>1. input.total \in {sources[s].total} \union EditTotals
    BY DEF EditedDocuments
  <2>2. "count" \in apply => sources[s].total # input.total
    BY DEF ConfigurationChanges
  <2> QED BY <2>1, <2>2
<1>3. ASSUME "schedule" \in apply
      PROVE  input.rule \in Rules /\ heads[s] # NoHead /\ input.next >= heads[s].next
  <2>1. "schedule" \in changes
    BY <1>3
  <2> HIDE DEF changes, c
  <2>2. sources[s].lifecycle \in Open /\ ScheduleValid(s, input)
    BY <1>1, <2>1 DEF ConfigurationEditAllowed, Open
  <2>3. heads[s] # NoHead /\ HasOpen(schedules[s]) /\ HistoryInOrder(schedules[s])
        /\ heads[s].next \in Nat /\ clock \in Nat /\ schedules[s] \in Seq(ScheduleRow)
    BY <2>2, SourceOfRow, RecurringAssumption
       DEF IInv, SourceSound, HeadAt, Open, OrderInv, SourceInOrder, InOrder, TypeOK
  <2>4. input.rule \in {open.rule} \union EditRules
    BY DEF EditedDocuments
  <2>5. open.rule \in Rules
    BY <2>3, OpenScheduleFound DEF HistoryInOrder
  <2>6. input.next >= heads[s].next
    <3> DEFINE T == {clock, heads[s].next}
               top == Max(T)
    <3>1. input.next >= top
      BY <2>2, <2>3 DEF ScheduleValid
    <3>2. T \subseteq Nat /\ T # {} /\ clock + heads[s].next \in Nat
          /\ \A x \in T : x <= clock + heads[s].next
      BY <2>3
    <3>3. heads[s].next \in T
      OBVIOUS
    <3> HIDE DEF T
    <3>4. top \in T /\ heads[s].next <= top
      BY <3>2, <3>3, MaxIsGreatest
    <3>5. input.next \in Nat
      BY EditedDocumentType DEF Document
    <3>6. top \in Nat
      BY <3>2, <3>4
    <3> HIDE DEF top
    <3> QED BY <2>3, <3>1, <3>4, <3>5, <3>6
  <2> QED BY <2>3, <2>4, <2>5, <2>6 DEF Rules
<1>4. /\ c.pc = "update" /\ c.source = s /\ c.input = input /\ c.apply = apply
  OBVIOUS
<1> HIDE DEF c, apply, changes
<1>5. CommandInOrder(c)
  <2>1. "schedule" \in c.apply =>
          /\ c.input.rule \in Rules
          /\ heads[c.source] # NoHead /\ c.input.next >= heads[c.source].next
    BY <1>3, <1>4
  <2>2. c.pc \notin {"slice", "catchUp", "recheck", "reread", "lifecycle"}
    BY <1>4
  <2> QED BY <1>1, <1>2, <1>4, <2>1, <2>2, Zenon DEF CommandInOrder
<1> QED BY <1>1, <1>5, BecomeMovesOn

\* A lifecycle command is one the clients issue, from its beginning on.
LEMMA LifecycleMovesOn ==
    ASSUME IInv, OrderInv, NEW w \in Workers,
           \/ \E s \in Sources, operation \in LifecycleCommands :
                BeginLifecycle(w, s, operation)
           \/ Recheck(w) \/ Reread(w) \/ CaughtUp(w)
    PROVE  \A v \in Workers : MovesOn(v)
<1>1. UNCHANGED database
  BY DEF BeginLifecycle, Recheck, Reread, CaughtUp
<1>2. Idle.pc = "idle"
  BY PlainCommands
<1>3. clock \in 0..MaxClock
  BY DEF IInv, TypeOK
<1>4. ASSUME NEW s \in Sources, NEW operation \in LifecycleCommands,
             BeginLifecycle(w, s, operation)
      PROVE  \A v \in Workers : MovesOn(v)
  <2> DEFINE pc == IF (RequiresCatchUp(operation)
                         /\ sources[s].lifecycle \in {"active", "paused"})
                        /\ sources[s].lifecycle = "active" THEN "catchUp" ELSE "reread"
             c == [pc |-> pc, operation |-> operation, source |-> s,
                   revision |-> sources[s].revision, observed |-> clock]
  <2>1. Become(w, c) /\ operation \in Operations
    BY <1>4 DEF BeginLifecycle, Operating
  <2>2. pc \in {"catchUp", "reread"}
    OBVIOUS
  <2> HIDE DEF pc
  <2>3. c.pc = pc /\ c.operation = operation /\ c.observed = clock
    OBVIOUS
  <2> HIDE DEF c
  <2>4. CommandInOrder(c)
    BY <1>3, <2>1, <2>2, <2>3 DEF CommandInOrder
  <2> QED BY <1>1, <2>1, <2>4, BecomeMovesOn
<1>5. ASSUME \/ Recheck(w) \/ Reread(w) \/ (CaughtUp(w) /\ Pc(w) = "catchUp")
      PROVE  \A v \in Workers : MovesOn(v)
  <2> DEFINE c == commands[w]
  <2>1. c.pc \in {"catchUp", "recheck", "reread"}
    BY <1>5 DEF Recheck, Reread, Pc
  <2>2. c \in LifecycleCommand /\ c.operation \in Operations
    BY <2>1, CommandKinds DEF OrderInv, CommandInOrder, IInv, TypeOK
  <2>3. \/ Become(w, Idle)
        \/ Become(w, [c EXCEPT !.pc = "recheck"])
        \/ Become(w, [c EXCEPT !.pc = "reread"])
        \/ Become(w, [c EXCEPT !.pc = "lifecycle", !.revision = sources[c.source].revision])
    BY <1>5, Zenon DEF Recheck, Reread, CaughtUp, Pc
  <2>4. \A pc \in {"recheck", "reread"} : CommandInOrder([c EXCEPT !.pc = pc])
    BY <2>2 DEF CommandInOrder, LifecycleCommand
  <2>5. CommandInOrder([c EXCEPT !.pc = "lifecycle", !.revision = sources[c.source].revision])
    BY <2>2 DEF CommandInOrder, LifecycleCommand
  <2> HIDE DEF c
  <2> QED BY <1>1, <1>2, <2>3, <2>4, <2>5, BecomeMovesOn
<1>6. CASE CaughtUp(w) /\ Pc(w) # "catchUp"
  <2>1. Become(w, Idle)
    BY <1>6 DEF CaughtUp
  <2> QED BY <1>2, <2>1, BecomeMovesOn
<1> QED BY <1>4, <1>5, <1>6

\* Commands move on in every step.
LEMMA NextMovesOn ==
    ASSUME IInv, OrderInv, [Next]_vars
    PROVE  \A v \in Workers : MovesOn(v)
<1>1. /\ Idle.pc = "idle" /\ \A r \in {[pc |-> "retry"]} : r.pc = "retry"
      /\ (commands' = commands => \A v \in Workers : MovesOn(v))
  BY PlainCommands DEF MovesOn
<1>2. ASSUME NEW w \in Workers, Process(w) PROVE \A v \in Workers : MovesOn(v)
  <2>1. \/ CaughtUp(w) \/ Become(w, Slicing(clock)) \/ Become(w, Idle)
        \/ commands' = commands
    BY <1>2, ZenonT(40) DEF Process, BeginSlice, ProcessFulfill, ProcessPark, ProcessHeal,
                            ProcessError, ContinueOrExhaust
  <2> QED BY <1>1, <2>1, LifecycleMovesOn, BecomeMovesOn
<1>3. ASSUME NEW w \in Workers, Proceed(w) PROVE \A v \in Workers : MovesOn(v)
  <2>1. \/ Recheck(w) \/ Reread(w) \/ Become(w, Idle) \/ Become(w, [pc |-> "retry"])
    BY <1>3, ZenonT(40) DEF Proceed, CommitUpdate, FailUpdate, CommitLifecycle, FailLifecycle,
                            CommitRepair, FailRepair
  <2> QED BY <1>1, <2>1, LifecycleMovesOn, BecomeMovesOn
<1>4. ASSUME NEW w \in Workers, Begin(w) PROVE \A v \in Workers : MovesOn(v)
  <2>1. \/ \E s \in Sources : Visible(s) /\ \E input \in EditedDocuments(s) :
                BeginUpdate(w, s, input)
        \/ \E s \in Sources, operation \in LifecycleCommands : BeginLifecycle(w, s, operation)
        \/ \E s \in Sources, category \in Categories \union {NoCategory} :
                BeginRepair(w, s, category)
        \/ Become(w, [pc |-> "retry"]) \/ Become(w, Slicing(clock))
        \/ commands' = commands
    BY <1>4, ZenonT(40) DEF Begin, Create, Adopt, Retry, DeleteCategory
  <2>2. ASSUME NEW s \in Sources, NEW category \in Categories \union {NoCategory},
               BeginRepair(w, s, category)
        PROVE  \A v \in Workers : MovesOn(v)
    <3> DEFINE c == [pc |-> "repair", source |-> s, revision |-> sources[s].revision,
                     category |-> category]
    <3>1. Become(w, c) /\ c.pc = "repair"
      BY <2>2 DEF BeginRepair
    <3> QED BY <3>1, BecomeMovesOn
  <2> QED BY <1>1, <2>1, <2>2, LifecycleMovesOn, BegunUpdateInOrder, BecomeMovesOn
<1>5. CASE Environment \/ UNCHANGED vars
  <2>1. \/ commands' = commands \/ commands' = [w \in Workers |-> Idle]
        \/ \E w \in Workers : Become(w, Idle)
    BY <1>5 DEF Environment, Tick, SetClockBack, Crash, Contention, vars
  <2>2. CASE commands' = [w \in Workers |-> Idle]
    BY <1>1, <2>2 DEF MovesOn
  <2> QED BY <1>1, <2>1, <2>2, BecomeMovesOn
<1> QED BY <1>2, <1>3, <1>4, <1>5 DEF Next

\* A command stays in order while heads are fenced.
LEMMA MovedInOrder ==
    ASSUME IInv, IInv', OrderInv, \A s \in Sources : HeadFenced(s),
           NEW w \in Workers, MovesOn(w)
    PROVE  CommandInOrder(commands[w])'
<1>1. CASE commands'[w] = commands[w]
  <2> DEFINE c == commands[w]
  <2>1. c \in Command /\ CommandSound(c) /\ CommandInOrder(c)
    BY DEF IInv, TypeOK, OrderInv
  <2>2. CASE c.pc = "update"
    <3>1. c.source \in Sources /\ c.revision \in Nat /\ c.pc \in OnSource
      BY <2>1, <2>2, CommandKinds DEF UpdateCommand, OnSource
    <3>2. c.revision <= sources[c.source].revision /\ HeadFenced(c.source)
          /\ sources[c.source].revision \in Nat /\ sources'[c.source].revision \in Nat
      BY <2>1, <2>2, <3>1 DEF CommandSound, EditSound, IInv, TypeOK, SourceRow
    <3>3. c.revision = sources'[c.source].revision =>
             c.revision = sources[c.source].revision /\ heads'[c.source] = heads[c.source]
      BY <3>1, <3>2 DEF HeadFenced
    <3> HIDE DEF c
    <3>4. commands'[w] = c
      BY <1>1 DEF c
    <3> QED BY <2>1, <2>2, <3>3, <3>4 DEF CommandInOrder
  <2>3. CASE c.pc # "update"
    BY <1>1, <2>1, <2>3 DEF CommandInOrder
  <2> QED BY <2>2, <2>3
<1>2. CASE commands'[w].pc \in {"idle", "retry", "repair"}
  BY <1>2 DEF CommandInOrder
<1>3. CASE commands'[w] = Slicing(clock)
  <2>1. clock \in 0..MaxClock
    BY DEF IInv, TypeOK
  <2> QED BY <1>3, <2>1 DEF CommandInOrder, Slicing
<1>4. CASE UNCHANGED database /\ CommandInOrder(commands'[w])
  <2>1. sources' = sources /\ heads' = heads
    BY <1>4 DEF database
  <2> QED BY <1>4, <2>1 DEF CommandInOrder
<1> QED BY <1>1, <1>2, <1>3, <1>4 DEF MovesOn

-----------------------------------------------------------------------------
(***************************************************************************)
(* The invariant holds, and with it heads are coherent.                    *)
(***************************************************************************)
\* Nothing is recorded at first.
LEMMA InitInOrder == Init => OrderInv
<1> SUFFICES ASSUME Init PROVE OrderInv
  OBVIOUS
<1>1. ASSUME NEW s \in Sources PROVE SourceInOrder(s)
  <2>1. schedules[s] = <<>> /\ heads[s] = NoHead /\ occurrences[s] = {}
    BY DEF Init
  <2> QED BY <2>1 DEF SourceInOrder, InOrder, HistoryInOrder
<1>2. ASSUME NEW w \in Workers PROVE CommandInOrder(commands[w])
  <2>1. commands[w].pc = "idle"
    BY PlainCommands DEF Init
  <2> QED BY <2>1 DEF CommandInOrder
<1> QED BY <1>1, <1>2 DEF OrderInv

\* A source a step writes to stays in order, and its head coherent.
LEMMA WrittenInOrder ==
    ASSUME IInv, IInv', OrderInv, EditsKeepDates, NEW s \in Sources, WrittenAt(s)
    PROVE  /\ SourceInOrder(s)' /\ HeadFenced(s)
           /\ ResumesWithinTwo /\ CoherentAt(s) => CoherentAt(s)'
<1>1. SourceInOrder(s)
  BY DEF OrderInv
<1>2. ASSUME NEW w \in Workers
      PROVE  /\ commands[w] \in Command /\ CommandSound(commands[w])
             /\ CommandInOrder(commands[w])
             /\ UpdatedAt(s, commands[w]) /\ "schedule" \in commands[w].apply =>
                  KeepsDate(commands[w])
             /\ SwitchedAt(s, commands[w]) /\ ResumesWithinTwo /\ Resumes(commands[w]) =>
                  Len(schedules[s]) <= 2
  BY DEF OrderInv, IInv, TypeOK, EditsKeepDates, ResumesWithinTwo, UpdatedAt, SwitchedAt
<1>3. ASSUME NEW w \in Workers, UpdatedAt(s, commands[w])
      PROVE  /\ SourceInOrder(s)' /\ HeadFenced(s)
             /\ CoherentAt(s) => CoherentAt(s)'
  BY <1>1, <1>2, <1>3, UpdatedInOrder
<1>4. ASSUME NEW w \in Workers, SwitchedAt(s, commands[w])
      PROVE  /\ SourceInOrder(s)' /\ HeadFenced(s)
             /\ ResumesWithinTwo /\ CoherentAt(s) => CoherentAt(s)'
  BY <1>1, <1>2, <1>4, SwitchedInOrder
<1> QED BY <1>1, <1>3, <1>4, CreatedInOrder, AdoptedInOrder, FulfilledInOrder, Zenon
        DEF WrittenAt

\* Every step keeps sources and commands in order, and heads coherent.
LEMMA NextInOrder ==
    ASSUME IInv, IInv', OrderInv, EditsKeepDates, [Next]_vars
    PROVE  /\ OrderInv'
           /\ ResumesWithinTwo => \A s \in Sources : CoherentAt(s) => CoherentAt(s)'
<1>1. \A s \in Sources : /\ SourceInOrder(s)' /\ HeadFenced(s)
                         /\ ResumesWithinTwo /\ CoherentAt(s) => CoherentAt(s)'
  <2>1. \A s \in Sources : KeptAt(s) \/ WrittenAt(s)
    BY NextWrites DEF Writes
  <2> QED BY <2>1, KeptInOrder, WrittenInOrder DEF OrderInv
<1>2. \A w \in Workers : CommandInOrder(commands[w])'
  BY <1>1, NextMovesOn, MovedInOrder
<1> QED BY <1>1, <1>2 DEF OrderInv

\* Revisions, heads and recorded slots stay in order, as long as no edit moves
\* the next occurrence from the date asked for.
THEOREM KeptInOrderAlways == Spec /\ []EditsKeepDates => []OrderInv
<1>1. IInv /\ IInv' /\ OrderInv /\ EditsKeepDates /\ [Next]_vars => OrderInv'
  BY NextInOrder
<1> QED BY <1>1, InitInOrder, Invariance, PTL DEF Spec

\* No edit does so where no rule in use is "day n of every month".
THEOREM IntervalsKeepDates ==
    ASSUME IntervalRulesOnly
    PROVE  Spec => [](OrderInv /\ EditsKeepDates)
<1>1. IInv /\ OrderInv => EditsKeepDates
  <2> SUFFICES ASSUME IInv, OrderInv, NEW w \in Workers, commands[w].pc = "update",
                      "schedule" \in commands[w].apply
               PROVE  KeepsDate(commands[w])
    BY DEF EditsKeepDates
  <2>1. commands[w].input.rule \in Rules /\ commands[w].input \in Document
    BY CommandKinds DEF OrderInv, CommandInOrder, IInv, TypeOK, UpdateCommand
  <2>2. commands[w].input.rule.unit # "monthlyDay"
    BY <2>1 DEF IntervalRulesOnly
  <2>3. commands[w].input.rule \in ScheduleRule /\ commands[w].input.next \in Nat
    BY <2>1 DEF Document
  <2> QED BY <2>2, <2>3, IntervalStartsAtFirst DEF KeepsDate, FirstSlot
<1>2. IInv /\ IInv' /\ OrderInv /\ EditsKeepDates /\ [Next]_vars => OrderInv'
  BY NextInOrder
<1> QED BY <1>1, <1>2, InitInOrder, Invariance, PTL DEF Spec

\* The head of an open source is a slot of the revision in force at it: an edit
\* in place, one that closes a revision, a completion and a fulfillment all
\* leave it so, and a resumption as long as there are no three revisions.
THEOREM HeadsCoherent == Spec /\ []EditsKeepDates /\ []ResumesWithinTwo => []HeadCoherent
<1> DEFINE AllCoherent == \A s \in Sources : CoherentAt(s)
<1>1. Init => AllCoherent
  BY DEF Init, CoherentAt
<1>2. /\ IInv /\ IInv' /\ OrderInv /\ EditsKeepDates /\ ResumesWithinTwo /\ AllCoherent
      /\ [Next]_vars
      => AllCoherent'
  BY NextInOrder
<1>3. AllCoherent => HeadCoherent
  BY DEF CoherentAt, HeadCoherent, HeadIncoherent, Coherent
<1> HIDE DEF AllCoherent
<1> QED BY <1>1, <1>2, <1>3, KeptInOrderAlways, Invariance, PTL DEF Spec

-----------------------------------------------------------------------------
(***************************************************************************)
(* The entries of a source's ledger: its rows by position.                 *)
(***************************************************************************)
Numbered(rows, count) ==
    /\ \A o \in rows : o.position \in 1..count
    /\ \A p \in 1..count : \E o \in rows : o.position = p
    /\ \A o, other \in rows : o.position = other.position => o = other

Entries(rows) ==
    [p \in 1..Cardinality(rows) |-> (CHOOSE o \in rows : o.position = p).at]

\* Numbered rows are as many as counted.
LEMMA AsManyAsCounted ==
    ASSUME NEW rows, NEW count \in Nat, Numbered(rows, count)
    PROVE  Cardinality(rows) = count
<1> DEFINE F == [p \in 1..count |-> CHOOSE o \in rows : o.position = p]
<1>1. \A p \in 1..count : F[p] \in rows /\ F[p].position = p
  BY DEF Numbered
<1>2. F \in [1..count -> rows]
  BY <1>1
<1>3. \A p, q \in 1..count : F[p] = F[q] => p = q
  BY <1>1
<1>4. \A o \in rows : \E p \in 1..count : F[p] = o
  BY <1>1 DEF Numbered
<1> HIDE DEF F
<1>5. F \in Bijection(1..count, rows)
  BY <1>2, <1>3, <1>4 DEF Bijection, Injection, Surjection, IsInjective
<1>6. ExistsBijection(1..count, rows)
  BY <1>5 DEF ExistsBijection
<1>7. 1 \in Int /\ count \in Int /\ IF 1 > count THEN 0 = count ELSE count - 1 + 1 = count
  OBVIOUS
<1>8. IsFiniteSet(1..count) /\ Cardinality(1..count) = count
  BY <1>7, FS_Interval
<1> QED BY <1>6, <1>8, FS_Bijection

\* Each row's date is the entry at its position.
EntriesOf(rows, count) ==
    /\ Entries(rows) \in Seq(Nat)
    /\ Len(Entries(rows)) = count
    /\ \A o \in rows : Entries(rows)[o.position] = o.at

LEMMA EntriesByPosition ==
    ASSUME NEW rows, rows \subseteq OccurrenceRow, NEW count \in Nat, Numbered(rows, count)
    PROVE  EntriesOf(rows, count)
<1>1. Entries(rows) = [p \in 1..count |-> (CHOOSE o \in rows : o.position = p).at]
  BY AsManyAsCounted DEF Entries
<1>2. ASSUME NEW p \in 1..count PROVE (CHOOSE o \in rows : o.position = p).at \in Nat
  <2>1. (CHOOSE o \in rows : o.position = p) \in OccurrenceRow
    BY DEF Numbered
  <2> QED BY <2>1 DEF OccurrenceRow
<1>3. Entries(rows) \in [1..count -> Nat]
  BY <1>1, <1>2
<1>4. Entries(rows) \in Seq(Nat)
  BY <1>3, SeqDef
<1>5. Len(Entries(rows)) = count
  BY <1>3, <1>4
<1>6. ASSUME NEW o \in rows PROVE Entries(rows)[o.position] = o.at
  <2>1. o.position \in 1..count /\ (CHOOSE q \in rows : q.position = o.position) = o
    BY DEF Numbered
  <2> QED BY <1>1, <2>1
<1> QED BY <1>4, <1>5, <1>6 DEF EntriesOf

\* A row at the next position is the next entry.
LEMMA EntriesAppended ==
    ASSUME NEW rows, NEW count \in Nat, Numbered(rows, count),
           NEW o, o.position = count + 1, rows \union {o} \subseteq OccurrenceRow,
           Numbered(rows \union {o}, count + 1)
    PROVE  Entries(rows \union {o}) = Append(Entries(rows), o.at)
<1> DEFINE old == Entries(rows)
           new == Entries(rows \union {o})
<1>1. EntriesOf(rows, count) /\ EntriesOf(rows \union {o}, count + 1)
  BY EntriesByPosition
<1>2. /\ old \in Seq(Nat) /\ Len(old) = count /\ \A q \in rows : old[q.position] = q.at
      /\ new \in Seq(Nat) /\ Len(new) = count + 1
      /\ \A q \in rows \union {o} : new[q.position] = q.at
  BY <1>1 DEF EntriesOf
<1>3. o.at \in Nat
  BY DEF OccurrenceRow
<1> HIDE DEF old, new
<1> DEFINE appended == Append(old, o.at)
<1>4. /\ appended \in Seq(Nat) /\ Len(appended) = count + 1
      /\ appended[count + 1] = o.at /\ \A i \in 1..count : appended[i] = old[i]
  BY <1>2, <1>3
<1> HIDE DEF appended
<1>5. ASSUME NEW i \in 1..count + 1 PROVE new[i] = appended[i]
  <2>1. CASE i = count + 1
    BY <1>2, <1>4, <2>1
  <2>2. CASE i # count + 1
    <3>1. i \in 1..count
      BY <2>2
    <3>2. PICK q \in rows : q.position = i
      BY <3>1 DEF Numbered
    <3> QED BY <1>2, <1>4, <3>1, <3>2
  <2> QED BY <2>1, <2>2
<1>6. new = appended
  BY <1>2, <1>4, <1>5, SeqEqual
<1> QED BY <1>6 DEF new, old, appended

\* No rows, no entries.
LEMMA NoEntries == Entries({}) = <<>>
<1>1. Numbered({}, 0) /\ {} \subseteq OccurrenceRow /\ 0 \in Nat
  BY DEF Numbered
<1>2. Entries({}) \in Seq(Nat) /\ Len(Entries({})) = 0
  BY <1>1, EntriesByPosition DEF EntriesOf
<1> QED BY <1>2

\* The rows of a source are numbered by its count.
LEMMA SourceNumbered ==
    ASSUME IInv, NEW s \in Sources
    PROVE  /\ Numbered(occurrences[s], sources[s].count)
           /\ sources[s].count \in Nat /\ occurrences[s] \subseteq OccurrenceRow
           /\ DatesOf(s) = Entries(occurrences[s])
<1>1. SourceSound(s) /\ sources[s] \in SourceRow /\ occurrences[s] \subseteq OccurrenceRow
  BY DEF IInv, TypeOK
<1> QED BY <1>1 DEF SourceSound, ExactAt, Numbered, SourceRow, DatesOf, Entries

-----------------------------------------------------------------------------
(***************************************************************************)
(* Every step is one of OccurrenceLedger, or leaves its variables alone.   *)
(***************************************************************************)
LedgerState == [t \in Sources |-> StateOf(t)]
LedgerTotal == [t \in Sources |-> sources[t].total]
LedgerDates == [t \in Sources |-> DatesOf(t)]

\* What a step at one source does to them.
MovesLedger(s, state, total, entries) ==
    /\ LedgerState' = [LedgerState EXCEPT ![s] = state]
    /\ LedgerTotal' = [LedgerTotal EXCEPT ![s] = total]
    /\ LedgerDates' = [LedgerDates EXCEPT ![s] = entries]

\* A source left alone keeps its state, total and entries.
LEMMA KeptMoves ==
    ASSUME NEW t \in Sources, KeptAt(t)
    PROVE  /\ StateOf(t)' = StateOf(t) /\ sources'[t].total = sources[t].total
           /\ DatesOf(t)' = DatesOf(t)
<1>1. DatesOf(t)' = Entries(occurrences'[t]) /\ DatesOf(t) = Entries(occurrences[t])
  BY DEF DatesOf, Entries
<1>2. occurrences'[t] = occurrences[t] /\ sources'[t].lifecycle = sources[t].lifecycle
      /\ sources'[t].total = sources[t].total
  BY DEF KeptAt
<1>3. DatesOf(t)' = DatesOf(t)
  BY <1>1, <1>2
<1> QED BY <1>2, <1>3 DEF StateOf

\* Only the source written to moves.
LEMMA OthersKept ==
    ASSUME NEW s \in Sources, \A t \in Sources \ {s} : KeptAt(t),
           NEW state, state = StateOf(s)', NEW entries, entries = Entries(occurrences'[s])
    PROVE  MovesLedger(s, state, sources'[s].total, entries)
<1>1. ASSUME NEW t \in Sources \ {s}
      PROVE  /\ StateOf(t)' = StateOf(t) /\ sources'[t].total = sources[t].total
             /\ DatesOf(t)' = DatesOf(t)
  BY KeptMoves
<1>2. DatesOf(s)' = entries
  BY DEF DatesOf, Entries
<1>3. LedgerState' = [LedgerState EXCEPT ![s] = state]
  BY <1>1 DEF LedgerState
<1>4. LedgerTotal' = [LedgerTotal EXCEPT ![s] = sources'[s].total]
  BY <1>1 DEF LedgerTotal
<1>5. LedgerDates' = [LedgerDates EXCEPT ![s] = entries]
  BY <1>1, <1>2 DEF LedgerDates
<1> QED BY <1>3, <1>4, <1>5 DEF MovesLedger

Stutters(s) ==
    StateOf(s)' = StateOf(s) /\ sources'[s].total = sources[s].total /\ DatesOf(s)' = DatesOf(s)

\* And if it keeps the three, nothing of the ledger moves.
LEMMA Unmoved ==
    ASSUME NEW s \in Sources, \A t \in Sources \ {s} : KeptAt(t), Stutters(s)
    PROVE  UNCHANGED Ledger!ledgerVars
<1>1. ASSUME NEW t \in Sources
      PROVE  /\ StateOf(t)' = StateOf(t) /\ sources'[t].total = sources[t].total
             /\ DatesOf(t)' = DatesOf(t)
  BY KeptMoves DEF Stutters
<1> QED BY <1>1 DEF Ledger!ledgerVars

OpensLedger(s, limit, entries) ==
    /\ StateOf(s) = "none"
    /\ MovesLedger(s, IF limit # 0 /\ Len(entries) = limit THEN "ended" ELSE "active",
                   limit, entries)

\* A new source is an entry of its own, with or without a first date.
LEMMA LedgerOpened ==
    ASSUME NEW s \in Sources, NEW limit, NEW entries, OpensLedger(s, limit, entries)
    PROVE  Ledger!Open(s, limit, entries)
BY DEF OpensLedger, MovesLedger, Ledger!Open, Ledger!Reached,
       LedgerState, LedgerTotal, LedgerDates

RecordsInLedger(s, date) ==
    /\ StateOf(s) = "active"
    /\ \A i \in DOMAIN DatesOf(s) : DatesOf(s)[i] < date
    /\ MovesLedger(s, IF sources[s].total # 0 /\ Len(Append(DatesOf(s), date)) = sources[s].total
                      THEN "ended" ELSE StateOf(s),
                   sources[s].total, Append(DatesOf(s), date))

\* A fulfilled occurrence is appended.
LEMMA LedgerRecorded ==
    ASSUME NEW s \in Sources, NEW date, RecordsInLedger(s, date)
    PROVE  Ledger!Record(s, date)
<1> DEFINE entries == Append(DatesOf(s), date)
<1>1. LedgerTotal' = LedgerTotal
  BY DEF RecordsInLedger, MovesLedger, LedgerTotal
<1>2. LedgerDates' = [LedgerDates EXCEPT ![s] = Append(@, date)]
  BY DEF RecordsInLedger, MovesLedger, LedgerDates
<1>3. LedgerDates'[s] = entries
  BY DEF RecordsInLedger, MovesLedger, LedgerDates
<1>4. LedgerState' = [LedgerState EXCEPT ![s] =
          IF LedgerTotal[s] # 0 /\ Len(LedgerDates'[s]) = LedgerTotal[s] THEN "ended" ELSE @]
  BY <1>3 DEF RecordsInLedger, MovesLedger, LedgerState, LedgerTotal
<1>5. LedgerState[s] = "active" /\ \A i \in DOMAIN LedgerDates[s] : LedgerDates[s][i] < date
  BY DEF RecordsInLedger, LedgerState, LedgerDates
<1> QED BY <1>1, <1>2, <1>4, <1>5
        DEF Ledger!Record, Ledger!Reached, LedgerState, LedgerTotal, LedgerDates

ChangesLedgerTotal(s, limit) ==
    /\ StateOf(s) \in {"active", "paused"}
    /\ limit # 0 => Len(DatesOf(s)) <= limit
    /\ MovesLedger(s, IF limit # 0 /\ Len(DatesOf(s)) = limit THEN "ended" ELSE StateOf(s),
                   limit, DatesOf(s))

\* An edited total may end the source.
LEMMA LedgerTotalChanged ==
    ASSUME NEW s \in Sources, NEW limit, ChangesLedgerTotal(s, limit)
    PROVE  Ledger!ChangeTotal(s, limit)
<1>1. LedgerDates' = LedgerDates
  BY DEF ChangesLedgerTotal, MovesLedger, LedgerDates
<1>2. LedgerState' = [LedgerState EXCEPT ![s] =
          IF limit # 0 /\ Len(LedgerDates[s]) = limit THEN "ended" ELSE @]
  BY DEF ChangesLedgerTotal, MovesLedger, LedgerState, LedgerDates
<1>3. /\ LedgerState[s] \in {"active", "paused"}
      /\ limit # 0 => Len(LedgerDates[s]) <= limit
      /\ LedgerTotal' = [LedgerTotal EXCEPT ![s] = limit]
  BY DEF ChangesLedgerTotal, MovesLedger, LedgerState, LedgerDates
<1> QED BY <1>1, <1>2, <1>3
        DEF Ledger!ChangeTotal, Ledger!Reached, LedgerState, LedgerTotal, LedgerDates

SwitchesLedger(s, from, to) ==
    StateOf(s) \in from /\ MovesLedger(s, to, sources[s].total, DatesOf(s))

\* A lifecycle command switches the state.
LEMMA LedgerSwitched ==
    ASSUME NEW s \in Sources, NEW from, NEW to, SwitchesLedger(s, from, to)
    PROVE  Ledger!Switch(s, from, to)
<1>1. LedgerTotal' = LedgerTotal /\ LedgerDates' = LedgerDates
  BY DEF SwitchesLedger, MovesLedger, LedgerTotal, LedgerDates
<1>2. LedgerState' = [LedgerState EXCEPT ![s] = to] /\ LedgerState[s] \in from
  BY DEF SwitchesLedger, MovesLedger, LedgerState
<1> QED BY <1>1, <1>2 DEF Ledger!Switch, LedgerState, LedgerTotal, LedgerDates

\* create() opens a source without entries.
LEMMA CreatedOpens ==
    ASSUME IInv, NEW s \in Sources, \A t \in Sources \ {s} : KeptAt(t),
           NEW draft \in Drafts, CreatedAt(s, draft)
    PROVE  Ledger!Next
<1> DEFINE state   == StateOf(s)'
           entries == Entries(occurrences'[s])
           source  == [lifecycle |-> "active", total |-> draft.total, count |-> 0,
                       revision |-> 1]
<1>1. sources[s].lifecycle = "none" /\ sources'[s] = source
  BY DEF CreatedAt, NoSource
<1>2. source.lifecycle = "active" /\ source.total = draft.total
  OBVIOUS
<1> HIDE DEF source
<1>3. state = "active" /\ StateOf(s) = "none"
  BY <1>1, <1>2 DEF StateOf
<1>4. entries = <<>>
  <2>1. occurrences'[s] = {}
    BY <1>1 DEF IInv, SourceSound, CreatedAt
  <2> QED BY <2>1, NoEntries
<1>5. MovesLedger(s, state, sources'[s].total, entries)
  BY OthersKept
<1> HIDE DEF state, entries
<1>6. OpensLedger(s, draft.total, <<>>)
  <2>1. (IF draft.total # 0 /\ Len(<<>>) = draft.total THEN "ended" ELSE "active") = "active"
    OBVIOUS
  <2> QED BY <1>1, <1>2, <1>3, <1>4, <1>5, <2>1 DEF OpensLedger
<1>7. Ledger!Open(s, draft.total, <<>>)
  BY <1>6, LedgerOpened
<1> QED BY <1>7 DEF Ledger!Next

\* adopt() opens one with the transaction's own date.
LEMMA AdoptedOpens ==
    ASSUME IInv, IInv', NEW s \in Sources, \A t \in Sources \ {s} : KeptAt(t),
           NEW draft \in Drafts, NEW transaction \in Manual, AdoptedAt(s, draft, transaction)
    PROVE  Ledger!Next
<1> DEFINE state   == StateOf(s)'
           entries == Entries(occurrences'[s])
           row     == [lifecycle |-> "active", total |-> draft.total, count |-> 0,
                       revision |-> 1]
           o       == [rev |-> 1, ordinal |-> 1, at |-> draft.first, position |-> 1,
                       transaction |-> transaction]
<1>1. sources[s].lifecycle = "none" /\ sources'[s] = FulfilledSource(row, 1)
      /\ occurrences'[s] = {o}
  BY DEF AdoptedAt, NoSource
<1>2. /\ row \in SourceRow /\ row.lifecycle = "active" /\ row.total = draft.total
      /\ draft.total \in Nat
  BY DraftFields DEF SourceRow, Lifecycles
<1>3. o.position = 1 /\ o.at = draft.first
  OBVIOUS
<1> HIDE DEF row, o
<1>4. /\ sources'[s].total = draft.total /\ sources'[s].count = 1
      /\ sources'[s].lifecycle = IF draft.total # 0 /\ 1 = draft.total
                                 THEN "completed" ELSE "active"
  <2>1. Completes(draft.total, 1) <=> draft.total # 0 /\ 1 = draft.total
    BY <1>2 DEF Completes, NoTotal
  <2>2. FulfilledSource(row, 1) =
          [row EXCEPT !.count = 1, !.revision = row.revision + 1,
                      !.lifecycle = IF Completes(draft.total, 1) THEN "completed"
                                    ELSE "active"]
    BY <1>2 DEF FulfilledSource
  <2> QED BY <1>1, <1>2, <2>1, <2>2 DEF SourceRow
<1>5. StateOf(s) = "none"
      /\ state = IF draft.total # 0 /\ 1 = draft.total THEN "ended" ELSE "active"
  BY <1>1, <1>4 DEF StateOf
<1>6. entries = <<draft.first>>
  <2>1. Numbered({o}, 1) /\ {o} \subseteq OccurrenceRow
    <3>1. SourceSound(s)' /\ occurrences'[s] \subseteq OccurrenceRow
      BY DEF IInv, TypeOK
    <3> QED BY <1>1, <1>4, <3>1 DEF SourceSound, ExactAt, Numbered
  <2>2. EntriesOf({o}, 1)
    BY <2>1, EntriesByPosition
  <2>3. Entries({o}) \in Seq(Nat) /\ Len(Entries({o})) = 1 /\ Entries({o})[1] = draft.first
    BY <1>3, <2>2 DEF EntriesOf
  <2> QED BY <1>1, <2>3
<1>7. MovesLedger(s, state, sources'[s].total, entries)
  BY OthersKept
<1> HIDE DEF state, entries
<1>8. OpensLedger(s, draft.total, <<draft.first>>)
  <2>1. Len(<<draft.first>>) = 1
    OBVIOUS
  <2>2. state = IF draft.total # 0 /\ Len(<<draft.first>>) = draft.total THEN "ended"
                ELSE "active"
    BY <1>5, <2>1
  <2> QED BY <1>4, <1>5, <1>6, <1>7, <2>2 DEF OpensLedger
<1>9. Ledger!Open(s, draft.total, <<draft.first>>)
  BY <1>8, LedgerOpened
<1> QED BY <1>9 DEF Ledger!Next

\* fulfill_generated_occurrence records a date later than all before, and ends
\* the source with the last of its total.
LEMMA FulfilledRecords ==
    ASSUME IInv, IInv', NEW s \in Sources, \A t \in Sources \ {s} : KeptAt(t),
           SourceInOrder(s), FulfilledAt(s)
    PROVE  Ledger!Next
<1> DEFINE state   == StateOf(s)'
           entries == Entries(occurrences'[s])
           date    == heads[s].next
           count   == sources[s].count
           total   == sources[s].total
           o       == RowAtHead(s)
           row     == sources[s]
<1>1. /\ row.lifecycle = "active" /\ date \in 0..MaxClock
      /\ sources'[s] = FulfilledSource(row, count + 1)
      /\ occurrences'[s] = occurrences[s] \union {o}
  BY DEF FulfilledAt
<1>2. /\ row \in SourceRow /\ count \in Nat /\ total \in Nat /\ total = row.total
      /\ row.revision \in Nat
      /\ total # 0 => count < total
      /\ heads[s] # NoHead
  BY <1>1 DEF IInv, TypeOK, SourceSound, TotalAt, HeadAt, SourceRow, NoTotal
<1>3. o.position = count + 1 /\ o.at = date
  BY DEF RowAtHead
<1>4. ASSUME NEW q \in occurrences[s] PROVE q.at < date
  BY <1>2 DEF SourceInOrder, InOrder, Before
<1>5. DatesOf(s) = Entries(occurrences[s]) /\ Numbered(occurrences[s], count)
      /\ occurrences[s] \subseteq OccurrenceRow
  BY SourceNumbered
<1>12. StateOf(s) = "active"
  BY <1>1 DEF StateOf
<1> HIDE DEF o, date
<1>6. /\ sources'[s].total = total /\ sources'[s].count = count + 1
      /\ sources'[s].lifecycle = IF total # 0 /\ count + 1 = total
                                 THEN "completed" ELSE "active"
  <2> HIDE DEF row, count, total
  <2>1. Completes(total, count + 1) <=> total # 0 /\ count + 1 = total
    BY <1>2 DEF Completes, NoTotal
  <2>2. FulfilledSource(row, count + 1) =
          [row EXCEPT !.count = count + 1, !.revision = row.revision + 1,
                      !.lifecycle = IF Completes(total, count + 1) THEN "completed"
                                    ELSE "active"]
    BY <1>1, <1>2 DEF FulfilledSource
  <2> QED BY <1>1, <1>2, <2>1, <2>2 DEF SourceRow
<1>7. state = IF total # 0 /\ count + 1 = total THEN "ended" ELSE "active"
  BY <1>6 DEF StateOf
<1>8. entries = Append(DatesOf(s), date)
  <2>1. /\ Numbered(occurrences[s] \union {o}, count + 1)
        /\ occurrences[s] \union {o} \subseteq OccurrenceRow
    <3>1. SourceSound(s)' /\ occurrences'[s] \subseteq OccurrenceRow
      BY DEF IInv, TypeOK
    <3> QED BY <1>1, <1>6, <3>1 DEF SourceSound, ExactAt, Numbered
  <2>2. Entries(occurrences[s] \union {o}) = Append(Entries(occurrences[s]), o.at)
    <3> HIDE DEF count
    <3> QED BY <1>2, <1>3, <1>5, <2>1, EntriesAppended
  <2> QED BY <1>1, <1>3, <1>5, <2>2
<1>9. /\ DatesOf(s) \in Seq(Nat) /\ Len(DatesOf(s)) = count
      /\ \A i \in DOMAIN DatesOf(s) : DatesOf(s)[i] < date
  <2>1. EntriesOf(occurrences[s], count)
    BY <1>2, <1>5, EntriesByPosition
  <2>2. /\ DatesOf(s) \in Seq(Nat) /\ Len(DatesOf(s)) = count
        /\ \A q \in occurrences[s] : DatesOf(s)[q.position] = q.at
    BY <1>5, <2>1 DEF EntriesOf
  <2>3. ASSUME NEW i \in 1..count PROVE DatesOf(s)[i] < date
    <3>1. PICK q \in occurrences[s] : q.position = i
      BY <1>5 DEF Numbered
    <3> QED BY <1>4, <2>2, <3>1
  <2> QED BY <2>2, <2>3
<1>10. MovesLedger(s, state, sources'[s].total, entries)
  BY OthersKept
<1> HIDE DEF state, entries, row
<1>11. RecordsInLedger(s, date)
  <2> DEFINE old == DatesOf(s)
             new == Append(old, date)
             ended == IF total # 0 /\ Len(new) = total THEN "ended" ELSE "active"
  <2>1. Len(new) = count + 1
    BY <1>9
  <2>2. state = ended
    BY <1>7, <2>1
  <2> HIDE DEF ended
  <2>3. MovesLedger(s, ended, total, new)
    BY <1>6, <1>8, <1>10, <2>2
  <2> QED BY <1>9, <1>12, <2>3 DEF RecordsInLedger, ended
<1>13. Ledger!Record(s, date)
  BY <1>11, LedgerRecorded
<1> QED BY <1>1, <1>13 DEF Ledger!Next

\* Without new rows the entries stay.
LEMMA SameEntries ==
    ASSUME NEW s \in Sources, occurrences'[s] = occurrences[s]
    PROVE  /\ Entries(occurrences'[s]) = DatesOf(s) /\ DatesOf(s)' = DatesOf(s)
<1>1. DatesOf(s)' = Entries(occurrences'[s]) /\ DatesOf(s) = Entries(occurrences[s])
  BY DEF DatesOf, Entries
<1> QED BY <1>1

\* A source has as many entries as counted.
LEMMA CountedEntries ==
    ASSUME IInv, NEW s \in Sources
    PROVE  Len(DatesOf(s)) = sources[s].count
<1>1. EntriesOf(occurrences[s], sources[s].count)
  BY SourceNumbered, EntriesByPosition
<1> QED BY <1>1, SourceNumbered DEF EntriesOf

\* An edit of the total ends the source at the total reached, as its
\* validation, fenced by the revision, still holds; other edits change nothing
\* of the ledger.
LEMMA UpdatedChanges ==
    ASSUME IInv, NEW s \in Sources, \A t \in Sources \ {s} : KeptAt(t),
           NEW c \in Command, CommandSound(c), CommandInOrder(c), UpdatedAt(s, c)
    PROVE  Ledger!Next \/ UNCHANGED Ledger!ledgerVars
<1> DEFINE state   == StateOf(s)'
           entries == Entries(occurrences'[s])
           limit   == c.input.total
           count   == sources[s].count
<1>1. /\ c.pc = "update" /\ c.source = s /\ sources[s].revision = c.revision
      /\ occurrences'[s] = occurrences[s]
      /\ sources'[s].lifecycle = IF CompletesByEdit(c) THEN "completed" ELSE sources[s].lifecycle
  BY DEF UpdatedAt, Stale
<1>2. CASE "count" \in c.apply
  <2>1. /\ sources[s].lifecycle \in {"active", "paused"} /\ limit \in EditTotals
        /\ limit = 0 \/ limit >= count
    BY <1>1, <1>2 DEF CommandSound, EditSound, Open, CommandInOrder, NoTotal
  <2>2. limit \in Nat /\ count \in Nat
    BY <2>1, RecurringAssumption DEF IInv, TypeOK, SourceRow
  <2>3. sources'[s].total = limit
    BY <1>2 DEF UpdatedAt
  <2>4. CompletesByEdit(c) <=> limit # 0 /\ count = limit
    BY <1>1, <1>2 DEF CompletesByEdit, NoTotal
  <2>5. /\ StateOf(s) \in {"active", "paused"}
        /\ state = IF limit # 0 /\ count = limit THEN "ended" ELSE StateOf(s)
    BY <1>1, <2>1, <2>4 DEF StateOf
  <2>6. entries = DatesOf(s) /\ Len(DatesOf(s)) = count
    BY <1>1, SameEntries, CountedEntries
  <2>7. MovesLedger(s, state, sources'[s].total, entries)
    BY OthersKept
  <2> HIDE DEF state, entries, limit, count
  <2>8. ChangesLedgerTotal(s, limit)
    <3> DEFINE ended == IF limit # 0 /\ Len(DatesOf(s)) = limit THEN "ended" ELSE StateOf(s)
    <3>1. state = ended
      BY <2>5, <2>6
    <3>2. limit # 0 => Len(DatesOf(s)) <= limit
      BY <2>1, <2>2, <2>6
    <3> HIDE DEF ended
    <3>3. MovesLedger(s, ended, limit, DatesOf(s))
      BY <2>3, <2>6, <2>7, <3>1
    <3> QED BY <2>5, <3>2, <3>3 DEF ChangesLedgerTotal, ended
  <2>9. Ledger!ChangeTotal(s, limit)
    BY <2>8, LedgerTotalChanged
  <2> QED BY <2>1, <2>9 DEF Ledger!Next
<1>3. CASE "count" \notin c.apply
  <2>1. /\ sources'[s].total = sources[s].total
        /\ sources'[s].lifecycle = sources[s].lifecycle
    BY <1>1, <1>3 DEF UpdatedAt, CompletesByEdit
  <2>2. Stutters(s)
    BY <1>1, <2>1, SameEntries DEF Stutters, StateOf
  <2> QED BY <2>2, Unmoved
<1> QED BY <1>2, <1>3

\* A lifecycle command switches the state; the deletion of an ended source
\* changes nothing of the ledger.
LEMMA SwitchedSwitches ==
    ASSUME IInv, NEW s \in Sources, \A t \in Sources \ {s} : KeptAt(t),
           NEW c \in Command, SwitchedAt(s, c)
    PROVE  Ledger!Next \/ UNCHANGED Ledger!ledgerVars
<1> DEFINE state   == StateOf(s)'
           entries == Entries(occurrences'[s])
<1>1. /\ c.operation \in LifecycleCommands
      /\ TransitionAllowed(sources[s].lifecycle, c.operation)
      /\ sources'[s].lifecycle = Target(c.operation)
      /\ sources'[s].total = sources[s].total /\ occurrences'[s] = occurrences[s]
  BY CommandKinds DEF SwitchedAt, LifecycleCommand
<1>2. entries = DatesOf(s) /\ DatesOf(s)' = DatesOf(s)
  BY <1>1, SameEntries
<1>3. MovesLedger(s, state, sources'[s].total, entries)
  BY OthersKept
<1>4. \/ StateOf(s) = "active" /\ state = "paused"
      \/ StateOf(s) = "paused" /\ state = "active"
      \/ StateOf(s) \in {"active", "paused"} /\ state = "ended"
      \/ StateOf(s) = "ended" /\ state = "ended"
  BY <1>1 DEF StateOf, TransitionAllowed, Target, LifecycleCommands
<1>5. CASE StateOf(s) = "ended" /\ state = "ended"
  <2>1. Stutters(s)
    BY <1>1, <1>2, <1>5 DEF Stutters
  <2> QED BY <2>1, Unmoved
<1>6. CASE ~(StateOf(s) = "ended" /\ state = "ended")
  <2> HIDE DEF state, entries
  <2>1. \/ SwitchesLedger(s, {"active"}, "paused") \/ SwitchesLedger(s, {"paused"}, "active")
        \/ SwitchesLedger(s, {"active", "paused"}, "ended")
    BY <1>1, <1>2, <1>3, <1>4, <1>6 DEF SwitchesLedger
  <2>2. \/ Ledger!Switch(s, {"active"}, "paused") \/ Ledger!Switch(s, {"paused"}, "active")
        \/ Ledger!Switch(s, {"active", "paused"}, "ended")
    BY <2>1, LedgerSwitched
  <2> QED BY <2>2 DEF Ledger!Next
<1> QED BY <1>5, <1>6

\* Every step is a step of the ledger or leaves it alone.
LEMMA NextKeepsLedger ==
    ASSUME IInv, IInv', OrderInv, [Next]_vars
    PROVE  [Ledger!Next]_(Ledger!ledgerVars)
<1>1. CASE \A t \in Sources : KeptAt(t)
  <2>1. ASSUME NEW t \in Sources
        PROVE  /\ StateOf(t)' = StateOf(t) /\ sources'[t].total = sources[t].total
               /\ DatesOf(t)' = DatesOf(t)
    BY <1>1, KeptMoves
  <2> QED BY <2>1 DEF Ledger!ledgerVars
<1>2. ASSUME NEW s \in Sources, WrittenAt(s), \A t \in Sources \ {s} : KeptAt(t)
      PROVE  Ledger!Next \/ UNCHANGED Ledger!ledgerVars
  <2>1. /\ SourceInOrder(s)
        /\ \A w \in Workers : /\ commands[w] \in Command /\ CommandSound(commands[w])
                              /\ CommandInOrder(commands[w])
    BY DEF OrderInv, IInv, TypeOK
  <2> QED BY <1>2, <2>1, CreatedOpens, AdoptedOpens, FulfilledRecords, UpdatedChanges,
             SwitchedSwitches, Zenon DEF WrittenAt
<1>3. Writes
  BY NextWrites
<1> QED BY <1>1, <1>2, <1>3 DEF Writes

\* No recurring transaction has an entry at first.
LEMMA InitKeepsLedger == Init => Ledger!Init
<1> SUFFICES ASSUME Init PROVE Ledger!Init
  OBVIOUS
<1>1. ASSUME NEW t \in Sources
      PROVE  StateOf(t) = "none" /\ sources[t].total = 0 /\ DatesOf(t) = <<>>
  <2>1. sources[t] = NoSource /\ occurrences[t] = {}
    BY DEF Init
  <2>2. sources[t].lifecycle = "none" /\ sources[t].total = 0
    BY <2>1 DEF NoSource, NoTotal
  <2>3. DatesOf(t) = Entries(occurrences[t])
    BY DEF DatesOf, Entries
  <2> QED BY <2>1, <2>2, <2>3, NoEntries DEF StateOf
<1> QED BY <1>1 DEF Ledger!Init

\* The implementation keeps the promise of OccurrenceLedger: however slices,
\* catch-ups, edits, lifecycle commands, repairs, retries, faults and crashes
\* interleave, the occurrences are appended one by one at later and later
\* dates, while active, up to the total, and stay once ended.
THEOREM LedgerIsKept == Spec /\ []EditsKeepDates => KeepsLedger
<1>1. IInv /\ IInv' /\ OrderInv /\ [Next]_vars => [Ledger!Next]_(Ledger!ledgerVars)
  BY NextKeepsLedger
<1> QED BY <1>1, InitKeepsLedger, KeptInOrderAlways, Invariance, PTL
        DEF Spec, KeepsLedger, Ledger!Spec

\* And without a hypothesis about the behaviour, where all rules are intervals.
THEOREM LedgerIsKeptByIntervals == ASSUME IntervalRulesOnly PROVE Spec => KeepsLedger
BY LedgerIsKept, IntervalsKeepDates, PTL

-----------------------------------------------------------------------------
(***************************************************************************)
(* A parked slot stays the next one: only the commit of a schedule edit or *)
(* of a resumption passes it by (PassedOnlyByHeadMoves). Three facts carry *)
(* it: a resolved failure's slot was recorded, so that a slot parked again *)
(* finds its own unresolved failure and no other; the slots recorded come  *)
(* before the head (OrderInv), which dates a parked slot after them; and   *)
(* the steps that move a head otherwise fulfill it, which resolves the     *)
(* failure, or end the source (HeadSteps).                                 *)
(***************************************************************************)
\* An unresolved failure is the one of the slot at the head, dated like it,
\* after all that was recorded; a resolved one has been recorded.
FailuresInOrder(failed, recorded, head) ==
    /\ \A f \in failed : ~f.resolved => \A o \in recorded : o.at < f.at
    /\ \A f \in failed :
         ~f.resolved /\ head # NoHead => Identity(f) = Identity(head) /\ f.at = head.next
    /\ \A f \in failed : f.resolved => \E o \in recorded : Identity(o) = Identity(f)

InOrderAt(s) ==
    /\ FailuresInOrder(failures[s], occurrences[s], heads[s])
    /\ sources[s].lifecycle = "none" => failures[s] = {}

ParkedInv == \A s \in Sources : InOrderAt(s)

\* What holds of the failures whatever moves the heads.
Recorded(failed, recorded) ==
    \A f \in failed : f.resolved => \E o \in recorded : Identity(o) = Identity(f)

RecordedInv ==
    \A s \in Sources : /\ Recorded(failures[s], occurrences[s])
                       /\ sources[s].lifecycle = "none" => failures[s] = {}

LEMMA ParkedFirstIsInOrder ==
    ASSUME IInv, RecordedInv, NEW s \in Sources
    PROVE  ParkedFirst(s) <=> InOrderAt(s)
BY DEF RecordedInv, Recorded, ParkedFirst, InOrderAt, FailuresInOrder, Unresolved, IInv, TypeOK,
       FailureRow

\* A fulfillment resolves the only unresolved failure there can be.
LEMMA FulfilledFailures ==
    ASSUME NEW failed, failed \subseteq FailureRow, NEW recorded, NEW head, head # NoHead,
           FailuresInOrder(failed, recorded, head), NEW o, Identity(o) = Identity(head),
           NEW own, own = {f \in failed : ~f.resolved /\ Identity(f) = Identity(head)},
           NEW next
    PROVE  FailuresInOrder((failed \ own) \union {[f EXCEPT !.resolved = TRUE] : f \in own},
                           recorded \union {o}, next)
<1> DEFINE left == (failed \ own) \union {[f EXCEPT !.resolved = TRUE] : f \in own}
<1>1. \A f \in failed \ own : f.resolved
  BY DEF FailuresInOrder, FailureRow
<1>2. \A f \in own : [f EXCEPT !.resolved = TRUE].resolved = TRUE
                     /\ Identity([f EXCEPT !.resolved = TRUE]) = Identity(f)
  BY DEF FailureRow, Identity
<1>3. ASSUME NEW f \in left PROVE f.resolved /\ \E p \in recorded \union {o} : Identity(p) = Identity(f)
  <2>1. CASE f \in failed \ own
    BY <1>1, <2>1 DEF FailuresInOrder
  <2>2. CASE f \notin failed \ own
    <3>1. PICK g \in own : f = [g EXCEPT !.resolved = TRUE]
      BY <2>2
    <3>2. f.resolved /\ Identity(f) = Identity(o)
      BY <1>2, <3>1
    <3> QED BY <3>2
  <2> QED BY <2>1, <2>2
<1> HIDE DEF left
<1>4. FailuresInOrder(left, recorded \union {o}, next)
  BY <1>3 DEF FailuresInOrder
<1> QED BY <1>4 DEF left

\* A slot is parked with its date, and no other failure is unresolved.
LEMMA ParkedFailures ==
    ASSUME NEW failed, failed \subseteq FailureRow, NEW recorded, NEW head, head # NoHead,
           FailuresInOrder(failed, recorded, head),
           \A o \in recorded : o.at < head.next /\ Identity(o) # Identity(head),
           NEW earlier, earlier = {f \in failed : Identity(f) = Identity(head)},
           NEW new, Identity(new) = Identity(head), ~new.resolved,
           new.at = IF earlier = {} THEN head.next ELSE (CHOOSE f \in earlier : TRUE).at
    PROVE  FailuresInOrder((failed \ earlier) \union {new}, recorded, head)
<1>1. \A f \in earlier : ~f.resolved /\ f.at = head.next
  BY DEF FailuresInOrder
<1>2. new.at = head.next
  BY <1>1
<1>3. \A f \in failed \ earlier : f.resolved
  BY DEF FailuresInOrder, FailureRow
<1> QED BY <1>2, <1>3 DEF FailuresInOrder

\* A repair changes no slot, date or resolution.
LEMMA RepairedFailures ==
    ASSUME NEW failed, failed \subseteq FailureRow, NEW recorded, NEW head,
           FailuresInOrder(failed, recorded, head)
    PROVE  FailuresInOrder(
               {IF f.resolved THEN f ELSE [f EXCEPT !.repaired = TRUE] : f \in failed},
               recorded, head)
<1> DEFINE mark(f) == IF f.resolved THEN f ELSE [f EXCEPT !.repaired = TRUE]
<1>1. \A f \in failed : /\ mark(f).resolved = f.resolved /\ Identity(mark(f)) = Identity(f)
                        /\ mark(f).at = f.at
  BY DEF FailureRow, Identity
<1> HIDE DEF mark
<1>2. FailuresInOrder({mark(f) : f \in failed}, recorded, head)
  BY <1>1 DEF FailuresInOrder
<1> QED BY <1>2 DEF mark

\* A source that a step leaves unborn was not there before.
LEMMA StillNone ==
    ASSUME IInv, Writes, NEW s \in Sources, sources'[s].lifecycle = "none"
    PROVE  sources[s].lifecycle = "none"
<1>1. KeptAt(s) \/ WrittenAt(s)
  BY DEF Writes
<1>2. CASE KeptAt(s)
  BY <1>2 DEF KeptAt
<1>3. CASE \E draft \in Drafts : \/ CreatedAt(s, draft)
                                \/ \E transaction \in Manual : AdoptedAt(s, draft, transaction)
  BY <1>3 DEF CreatedAt, AdoptedAt, NoSource
<1>4. CASE FulfilledAt(s)
  <2>1. sources'[s].lifecycle \in {"completed", "active"}
    <3>1. sources[s] \in SourceRow /\ sources[s].lifecycle = "active"
      BY <1>4 DEF FulfilledAt, IInv, TypeOK
    <3> QED BY <1>4, <3>1 DEF FulfilledAt, FulfilledSource, SourceRow
  <2> QED BY <2>1
<1>5. CASE \E w \in Workers : UpdatedAt(s, commands[w]) \/ SwitchedAt(s, commands[w])
  <2>1. PICK w \in Workers : UpdatedAt(s, commands[w]) \/ SwitchedAt(s, commands[w])
    BY <1>5
  <2>2. CASE UpdatedAt(s, commands[w])
    BY <2>2 DEF UpdatedAt
  <2>3. CASE SwitchedAt(s, commands[w])
    <3>1. commands[w].operation \in LifecycleCommands
      BY <2>3, CommandKinds DEF SwitchedAt, LifecycleCommand, IInv, TypeOK
    <3> QED BY <2>3, <3>1 DEF SwitchedAt, Target, LifecycleCommands
  <2> QED BY <2>1, <2>2, <2>3
<1> QED BY <1>1, <1>2, <1>3, <1>4, <1>5 DEF WrittenAt

\* A step that leaves a source's failures and occurrences alone.
FailuresKept(s) == failures'[s] = failures[s] /\ occurrences'[s] = occurrences[s]

\* The steps that change the failures or occurrences of some source.
FailureStep ==
    \/ \E w \in Workers, t \in Sources : ProcessFulfill(w, t) \/ ProcessPark(w, t)
    \/ \E w \in Workers : CommitRepair(w)
    \/ \E w \in Workers, t \in Sources, draft \in Drafts, transaction \in Manual :
          Adopt(w, t, draft, transaction)

LEMMA FailureSteps ==
    ASSUME [Next]_vars, NEW s \in Sources
    PROVE  FailuresKept(s) \/ FailureStep
<1>1. ASSUME NEW w \in Workers, Process(w) PROVE FailuresKept(s) \/ FailureStep
  <2>1. \/ FailuresKept(s)
        \/ \E t \in Sources : ProcessFulfill(w, t) \/ ProcessPark(w, t)
    BY <1>1, ZenonT(40) DEF Process, BeginSlice, CaughtUp, ProcessHeal, ProcessError, Heal,
                            FailuresKept, database
  <2> QED BY <2>1 DEF FailureStep
<1>2. ASSUME NEW w \in Workers, Proceed(w) PROVE FailuresKept(s) \/ FailureStep
  <2>1. FailuresKept(s) \/ CommitRepair(w)
    BY <1>2, ZenonT(40) DEF Proceed, CommitUpdate, FailUpdate, Recheck, Reread,
                            CommitLifecycle, FailLifecycle, FailRepair, FailuresKept, database
  <2> QED BY <2>1 DEF FailureStep
<1>3. ASSUME NEW w \in Workers, Begin(w) PROVE FailuresKept(s) \/ FailureStep
  <2>1. \/ FailuresKept(s)
        \/ \E t \in Sources, draft \in Drafts, transaction \in Manual :
              Adopt(w, t, draft, transaction)
    BY <1>3, ZenonT(40) DEF Begin, Create, BeginUpdate, BeginLifecycle, BeginRepair, Retry,
                            DeleteCategory, FailuresKept, database
  <2> QED BY <2>1 DEF FailureStep
<1>4. CASE Environment \/ UNCHANGED vars
  BY <1>4 DEF Environment, Tick, SetClockBack, Crash, Contention, FailuresKept, database, vars
<1> QED BY <1>1, <1>2, <1>3, <1>4 DEF Next

\* The head of a parked source is moved by fulfillments and ends only.
ParkedHeadStays(s) ==
    Unresolved(s) # {} /\ occurrences'[s] = occurrences[s] => heads'[s] \in {heads[s], NoHead}

ParkedHeadsStay == \A s \in Sources : ParkedHeadStays(s)

\* Every step keeps the failures in order with the head and the occurrences.
LEMMA FailuresFollow ==
    ASSUME IInv, OrderInv, [Next]_vars, NEW s \in Sources, InOrderAt(s), ParkedHeadStays(s)
    PROVE  /\ FailuresInOrder(failures'[s], occurrences'[s], heads'[s])
           /\ sources[s].lifecycle = "none" => failures'[s] = {}
<1> DEFINE Goal == /\ FailuresInOrder(failures'[s], occurrences'[s], heads'[s])
                   /\ sources[s].lifecycle = "none" => failures'[s] = {}
<1>1. /\ FailuresInOrder(failures[s], occurrences[s], heads[s])
      /\ sources[s].lifecycle = "none" => failures[s] = {}
      /\ failures[s] \subseteq FailureRow
  BY DEF InOrderAt, IInv, TypeOK
<1>2. /\ occurrences \in [Sources -> SUBSET OccurrenceRow]
      /\ failures \in [Sources -> SUBSET FailureRow] /\ heads \in [Sources -> HeadRow]
  BY DEF IInv, TypeOK
<1>3. ASSUME FailuresKept(s) PROVE Goal
  <2>1. CASE Unresolved(s) = {}
    <3>1. \A f \in failures[s] : f.resolved
      BY <1>1, <2>1 DEF Unresolved, FailureRow
    <3> QED BY <1>1, <1>3, <3>1 DEF FailuresKept, FailuresInOrder
  <2>2. CASE Unresolved(s) # {}
    <3>1. heads'[s] = heads[s] \/ heads'[s] = NoHead
      BY <1>3, <2>2 DEF ParkedHeadStays, FailuresKept
    <3> QED BY <1>1, <1>3, <3>1 DEF FailuresKept, FailuresInOrder
  <2> QED BY <2>1, <2>2
<1>4. ASSUME NEW w \in Workers, NEW t \in Sources, ProcessFulfill(w, t) PROVE Goal
  <2> DEFINE new == [rev |-> heads[t].rev, ordinal |-> heads[t].ordinal, at |-> heads[t].next,
                     position |-> sources[t].count + 1, transaction |-> Generated]
             own == OwnFailures(t)
  <2>1. /\ occurrences' = [occurrences EXCEPT ![t] = @ \union {new}]
        /\ failures' = [failures EXCEPT ![t] =
                (@ \ own) \union {[f EXCEPT !.resolved = TRUE] : f \in own}]
    BY <1>4 DEF ProcessFulfill, Fulfill
  <2>2. CASE s # t
    BY <1>2, <1>3, <2>1, <2>2 DEF FailuresKept
  <2>3. CASE s = t
    <3>1. own = {f \in failures[s] : ~f.resolved /\ Identity(f) = Identity(heads[s])}
      BY <2>3 DEF OwnFailures, Unresolved
    <3>2. Identity(new) = Identity(heads[s])
      BY <2>3 DEF Identity
    <3>3. sources[s].lifecycle = "active" /\ heads[s] # NoHead
      BY <1>4, <2>3, ProcessedSource DEF ProcessFulfill, Eligible
    <3>4. /\ occurrences'[s] = occurrences[s] \union {new}
          /\ failures'[s] = (failures[s] \ own) \union {[f EXCEPT !.resolved = TRUE] : f \in own}
      BY <1>2, <2>1, <2>3
    <3> HIDE DEF new, own
    <3> DEFINE next == heads'[s]
    <3> HIDE DEF next
    <3>5. FailuresInOrder((failures[s] \ own) \union {[f EXCEPT !.resolved = TRUE] : f \in own},
                          occurrences[s] \union {new}, next)
      BY <1>1, <3>1, <3>2, <3>3, FulfilledFailures
    <3> QED BY <3>3, <3>4, <3>5 DEF next
  <2> QED BY <2>2, <2>3
<1>5. ASSUME NEW w \in Workers, NEW t \in Sources, ProcessPark(w, t) PROVE Goal
  <2> DEFINE at == heads[t]
             earlier == {f \in failures[t] : Identity(f) = Identity(at)}
             parkedAt == IF earlier = {} THEN at.next ELSE (CHOOSE f \in earlier : TRUE).at
             new == [rev |-> at.rev, ordinal |-> at.ordinal, at |-> parkedAt,
                     repairable |-> ~TemplateMissing(t), repaired |-> FALSE, resolved |-> FALSE]
  <2>1. /\ occurrences' = occurrences /\ heads' = heads
        /\ failures' = [failures EXCEPT ![t] = (@ \ earlier) \union {new}]
        /\ FulfilledAtHead(t) = {}
    BY <1>5 DEF ProcessPark, Park
  <2>2. Identity(new) = Identity(at) /\ ~new.resolved /\ new.at = parkedAt
    BY DEF Identity
  <2> HIDE DEF new
  <2>3. CASE s # t
    BY <1>2, <1>3, <2>1, <2>3 DEF FailuresKept
  <2>4. CASE s = t
    <3>1. /\ occurrences'[s] = occurrences[s] /\ heads'[s] = heads[s]
          /\ failures'[s] = (failures[s] \ earlier) \union {new}
      BY <1>2, <2>1, <2>4
    <3>2. sources[s].lifecycle = "active" /\ at # NoHead
      BY <1>5, <2>4, ProcessedSource DEF ProcessPark, Eligible
    <3>3. \A o \in occurrences[s] : o.at < at.next /\ Identity(o) # Identity(at)
      BY <2>1, <2>4, <3>2 DEF OrderInv, SourceInOrder, InOrder, Before, FulfilledAtHead
    <3>4. earlier = {f \in failures[s] : Identity(f) = Identity(at)}
      BY <2>4
    <3>5. FailuresInOrder(failures[s], occurrences[s], at)
      BY <1>1, <2>4
    <3>6. new.at = IF earlier = {} THEN at.next ELSE (CHOOSE f \in earlier : TRUE).at
      BY <2>2
    <3>7. heads'[s] = at
      BY <2>4, <3>1
    <3> HIDE DEF at, earlier, parkedAt
    <3>8. FailuresInOrder((failures[s] \ earlier) \union {new}, occurrences[s], at)
      BY <1>1, <2>2, <3>2, <3>3, <3>4, <3>5, <3>6, ParkedFailures
    <3> QED BY <3>1, <3>2, <3>7, <3>8
  <2> QED BY <2>3, <2>4
<1>6. ASSUME NEW w \in Workers, CommitRepair(w) PROVE Goal
  <2> DEFINE t == commands[w].source
  <2>1. /\ occurrences' = occurrences /\ heads' = heads
        /\ failures' = [failures EXCEPT ![t] =
              {IF f.resolved THEN f ELSE [f EXCEPT !.repaired = TRUE] : f \in @}]
    BY <1>6 DEF CommitRepair
  <2>2. CASE s # t
    BY <1>2, <1>3, <2>1, <2>2 DEF FailuresKept
  <2>3. CASE s = t
    <3>1. failures'[s] =
            {IF f.resolved THEN f ELSE [f EXCEPT !.repaired = TRUE] : f \in failures[s]}
      BY <1>2, <2>1, <2>3
    <3>2. FailuresInOrder(
            {IF f.resolved THEN f ELSE [f EXCEPT !.repaired = TRUE] : f \in failures[s]},
            occurrences[s], heads[s])
      BY <1>1, RepairedFailures, Zenon
    <3>3. failures[s] = {} => failures'[s] = {}
      BY <3>1
    <3> QED BY <1>1, <2>1, <3>1, <3>2, <3>3
  <2> QED BY <2>2, <2>3
<1>7. ASSUME NEW w \in Workers, NEW t \in Sources, NEW draft \in Drafts,
             NEW transaction \in Manual, Adopt(w, t, draft, transaction)
      PROVE  Goal
  <2> DEFINE new == [rev |-> 1, ordinal |-> 1, at |-> draft.first, position |-> 1,
                     transaction |-> transaction]
  <2>1. /\ occurrences' = [occurrences EXCEPT ![t] = {new}]
        /\ failures' = failures /\ sources[t] = NoSource
    BY <1>7 DEF Adopt
  <2>2. CASE s # t
    BY <1>2, <1>3, <2>1, <2>2 DEF FailuresKept
  <2>3. CASE s = t
    <3>1. failures'[s] = {}
      BY <1>1, <2>1, <2>3 DEF NoSource
    <3> QED BY <3>1 DEF FailuresInOrder
  <2> QED BY <2>2, <2>3
<1> HIDE DEF Goal
<1>8. Goal
  BY <1>3, <1>4, <1>5, <1>6, <1>7, FailureSteps DEF FailureStep
<1> QED BY <1>8 DEF Goal

\* An unresolved failure is the one of the slot at the head, as long as no edit
\* or resumption begun before it was parked moves the head.
LEMMA ParkedInOrder == Spec /\ []EditsKeepDates /\ [][ParkedHeadsStay]_vars => []ParkedInv
<1>1. Init => ParkedInv
  BY DEF Init, ParkedInv, InOrderAt, FailuresInOrder
<1>2. /\ IInv /\ IInv' /\ OrderInv /\ ParkedInv /\ [Next]_vars /\ [ParkedHeadsStay]_vars
      => ParkedInv'
  <2> SUFFICES ASSUME IInv, IInv', OrderInv, ParkedInv, [Next]_vars, [ParkedHeadsStay]_vars
               PROVE  ParkedInv'
    OBVIOUS
  <2>1. ParkedHeadsStay
    <3>1. CASE UNCHANGED vars
      BY <3>1 DEF ParkedHeadsStay, ParkedHeadStays, vars, database
    <3> QED BY <3>1
  <2>2. \A s \in Sources : /\ FailuresInOrder(failures'[s], occurrences'[s], heads'[s])
                           /\ sources[s].lifecycle = "none" => failures'[s] = {}
    BY <2>1, FailuresFollow DEF ParkedInv, ParkedHeadsStay
  <2>3. \A s \in Sources : sources'[s].lifecycle = "none" => sources[s].lifecycle = "none"
    BY NextWrites, StillNone
  <2> QED BY <2>2, <2>3 DEF ParkedInv, InOrderAt
<1> QED BY <1>1, <1>2, KeptInOrderAlways, Invariance, PTL DEF Spec

\* A fulfillment records the slot of the failures it resolves.
LEMMA FulfilledRecorded ==
    ASSUME NEW failed, failed \subseteq FailureRow, NEW recorded, Recorded(failed, recorded),
           NEW o, NEW own, own \subseteq {f \in failed : Identity(f) = Identity(o)}
    PROVE  Recorded((failed \ own) \union {[f EXCEPT !.resolved = TRUE] : f \in own},
                    recorded \union {o})
<1> DEFINE resolve(f) == [f EXCEPT !.resolved = TRUE]
<1>1. \A f \in own : Identity(resolve(f)) = Identity(o)
  BY DEF FailureRow, Identity
<1> HIDE DEF resolve
<1>2. Recorded((failed \ own) \union {resolve(f) : f \in own}, recorded \union {o})
  BY <1>1 DEF Recorded
<1> QED BY <1>2 DEF resolve

LEMMA RepairedRecorded ==
    ASSUME NEW failed, failed \subseteq FailureRow, NEW recorded, Recorded(failed, recorded)
    PROVE  Recorded({IF f.resolved THEN f ELSE [f EXCEPT !.repaired = TRUE] : f \in failed},
                    recorded)
<1> DEFINE mark(f) == IF f.resolved THEN f ELSE [f EXCEPT !.repaired = TRUE]
<1>1. \A f \in failed : mark(f).resolved = f.resolved /\ Identity(mark(f)) = Identity(f)
  BY DEF FailureRow, Identity
<1> HIDE DEF mark
<1>2. Recorded({mark(f) : f \in failed}, recorded)
  BY <1>1 DEF Recorded
<1> QED BY <1>2 DEF mark

\* Every step records what it resolves, whoever moves the heads.
LEMMA RecordedFollow ==
    ASSUME IInv, RecordedInv, [Next]_vars, NEW s \in Sources
    PROVE  /\ Recorded(failures'[s], occurrences'[s])
           /\ sources[s].lifecycle = "none" => failures'[s] = {}
<1> DEFINE Goal == /\ Recorded(failures'[s], occurrences'[s])
                   /\ sources[s].lifecycle = "none" => failures'[s] = {}
<1>1. /\ Recorded(failures[s], occurrences[s])
      /\ sources[s].lifecycle = "none" => failures[s] = {}
      /\ failures[s] \subseteq FailureRow
  BY DEF RecordedInv, IInv, TypeOK
<1>2. /\ occurrences \in [Sources -> SUBSET OccurrenceRow]
      /\ failures \in [Sources -> SUBSET FailureRow]
  BY DEF IInv, TypeOK
<1>3. ASSUME FailuresKept(s) PROVE Goal
  BY <1>1, <1>3 DEF FailuresKept
<1>4. ASSUME NEW w \in Workers, NEW t \in Sources, ProcessFulfill(w, t) PROVE Goal
  <2> DEFINE new == [rev |-> heads[t].rev, ordinal |-> heads[t].ordinal, at |-> heads[t].next,
                     position |-> sources[t].count + 1, transaction |-> Generated]
             own == OwnFailures(t)
  <2>1. /\ occurrences' = [occurrences EXCEPT ![t] = @ \union {new}]
        /\ failures' = [failures EXCEPT ![t] =
                (@ \ own) \union {[f EXCEPT !.resolved = TRUE] : f \in own}]
    BY <1>4 DEF ProcessFulfill, Fulfill
  <2>2. CASE s # t
    BY <1>2, <1>3, <2>1, <2>2 DEF FailuresKept
  <2>3. CASE s = t
    <3>1. Identity(new) = Identity(heads[s])
      BY <2>3 DEF Identity
    <3>2. own \subseteq {f \in failures[s] : Identity(f) = Identity(new)}
      BY <2>3, <3>1 DEF OwnFailures, Unresolved
    <3>3. sources[s].lifecycle = "active"
      BY <1>4, <2>3, ProcessedSource DEF ProcessFulfill, Eligible
    <3>4. /\ occurrences'[s] = occurrences[s] \union {new}
          /\ failures'[s] = (failures[s] \ own) \union {[f EXCEPT !.resolved = TRUE] : f \in own}
      BY <1>2, <2>1, <2>3
    <3> HIDE DEF new, own
    <3>5. Recorded((failures[s] \ own) \union {[f EXCEPT !.resolved = TRUE] : f \in own},
                   occurrences[s] \union {new})
      BY <1>1, <3>2, FulfilledRecorded
    <3> QED BY <3>3, <3>4, <3>5
  <2> QED BY <2>2, <2>3
<1>5. ASSUME NEW w \in Workers, NEW t \in Sources, ProcessPark(w, t) PROVE Goal
  <2> DEFINE at == heads[t]
             earlier == {f \in failures[t] : Identity(f) = Identity(at)}
             parkedAt == IF earlier = {} THEN at.next ELSE (CHOOSE f \in earlier : TRUE).at
             new == [rev |-> at.rev, ordinal |-> at.ordinal, at |-> parkedAt,
                     repairable |-> ~TemplateMissing(t), repaired |-> FALSE, resolved |-> FALSE]
  <2>1. /\ occurrences' = occurrences /\ ~new.resolved
        /\ failures' = [failures EXCEPT ![t] = (@ \ earlier) \union {new}]
    BY <1>5 DEF ProcessPark, Park
  <2> HIDE DEF new, earlier
  <2>2. CASE s # t
    BY <1>2, <1>3, <2>1, <2>2 DEF FailuresKept
  <2>3. CASE s = t
    <3>1. sources[s].lifecycle = "active"
      BY <1>5, <2>3, ProcessedSource DEF ProcessPark, Eligible
    <3>2. /\ occurrences'[s] = occurrences[s]
          /\ failures'[s] = (failures[s] \ earlier) \union {new}
      BY <1>2, <2>1, <2>3
    <3> QED BY <1>1, <2>1, <3>1, <3>2 DEF Recorded
  <2> QED BY <2>2, <2>3
<1>6. ASSUME NEW w \in Workers, CommitRepair(w) PROVE Goal
  <2> DEFINE t == commands[w].source
  <2>1. /\ occurrences' = occurrences
        /\ failures' = [failures EXCEPT ![t] =
              {IF f.resolved THEN f ELSE [f EXCEPT !.repaired = TRUE] : f \in @}]
    BY <1>6 DEF CommitRepair
  <2>2. CASE s # t
    BY <1>2, <1>3, <2>1, <2>2 DEF FailuresKept
  <2>3. CASE s = t
    <3>1. failures'[s] =
            {IF f.resolved THEN f ELSE [f EXCEPT !.repaired = TRUE] : f \in failures[s]}
      BY <1>2, <2>1, <2>3
    <3>2. Recorded({IF f.resolved THEN f ELSE [f EXCEPT !.repaired = TRUE] : f \in failures[s]},
                   occurrences[s])
      BY <1>1, RepairedRecorded, Zenon
    <3>3. failures[s] = {} => failures'[s] = {}
      BY <3>1
    <3> QED BY <1>1, <2>1, <3>1, <3>2, <3>3
  <2> QED BY <2>2, <2>3
<1>7. ASSUME NEW w \in Workers, NEW t \in Sources, NEW draft \in Drafts,
             NEW transaction \in Manual, Adopt(w, t, draft, transaction)
      PROVE  Goal
  <2>1. /\ \E new : occurrences' = [occurrences EXCEPT ![t] = {new}]
        /\ failures' = failures /\ sources[t] = NoSource
    BY <1>7 DEF Adopt
  <2>2. CASE s # t
    BY <1>2, <1>3, <2>1, <2>2 DEF FailuresKept
  <2>3. CASE s = t
    <3>1. failures'[s] = {}
      BY <1>1, <2>1, <2>3 DEF NoSource
    <3> QED BY <3>1 DEF Recorded
  <2> QED BY <2>2, <2>3
<1> HIDE DEF Goal
<1>8. Goal
  BY <1>3, <1>4, <1>5, <1>6, <1>7, FailureSteps DEF FailureStep
<1> QED BY <1>8 DEF Goal

LEMMA RecordedAlways == Spec /\ []EditsKeepDates => []RecordedInv
<1>1. Init => RecordedInv
  BY DEF Init, RecordedInv, Recorded
<1>2. IInv /\ OrderInv /\ RecordedInv /\ [Next]_vars => RecordedInv'
  <2> SUFFICES ASSUME IInv, OrderInv, RecordedInv, [Next]_vars PROVE RecordedInv'
    OBVIOUS
  <2>1. \A s \in Sources : /\ Recorded(failures'[s], occurrences'[s])
                           /\ sources[s].lifecycle = "none" => failures'[s] = {}
    BY RecordedFollow
  <2>2. \A s \in Sources : sources'[s].lifecycle = "none" => sources[s].lifecycle = "none"
    BY NextWrites, StillNone
  <2> QED BY <2>1, <2>2 DEF RecordedInv
<1> QED BY <1>1, <1>2, KeptInOrderAlways, Invariance, PTL DEF Spec

\* What may become of the head of s in a step.
HeadStep(s) ==
    \/ heads'[s] \in {heads[s], NoHead}
    \/ occurrences'[s] # occurrences[s]
    \/ sources[s] = NoSource
    \/ \E w \in Workers : CommitsHeadMove(w, s)

LEMMA HeadSteps ==
    ASSUME IInv, OrderInv, [Next]_vars, NEW s \in Sources
    PROVE  HeadStep(s)
<1>1. /\ heads \in [Sources -> HeadRow] /\ occurrences \in [Sources -> SUBSET OccurrenceRow]
      /\ commands \in [Workers -> Command]
  BY DEF IInv, TypeOK
<1>2. ASSUME heads' = heads PROVE HeadStep(s)
  BY <1>2 DEF HeadStep
<1>3. ASSUME NEW w \in Workers, Process(w) PROVE HeadStep(s)
  <2>1. ASSUME NEW t \in Sources, ProcessHeal(w, t) PROVE FALSE
    BY <2>1, ProcessedInOrder DEF ProcessHeal
  <2>2. ASSUME NEW t \in Sources, ProcessFulfill(w, t) PROVE HeadStep(s)
    <3> DEFINE new == [rev |-> heads[t].rev, ordinal |-> heads[t].ordinal,
                       at |-> heads[t].next, position |-> sources[t].count + 1,
                       transaction |-> Generated]
    <3>1. /\ \E head : heads' = [heads EXCEPT ![t] = head]
          /\ occurrences' = [occurrences EXCEPT ![t] = @ \union {new}]
          /\ FulfilledAtHead(t) = {}
      BY <2>2 DEF ProcessFulfill, Fulfill
    <3>2. CASE s # t
      BY <1>1, <3>1, <3>2 DEF HeadStep
    <3>3. CASE s = t
      <4>1. Identity(new) = Identity(heads[s])
        BY <3>3 DEF Identity
      <4> HIDE DEF new
      <4>2. new \notin occurrences[s]
        BY <3>1, <3>3, <4>1 DEF FulfilledAtHead
      <4>3. occurrences'[s] # occurrences[s]
        BY <1>1, <3>1, <3>3, <4>2
      <4> QED BY <4>3 DEF HeadStep
    <3> QED BY <3>2, <3>3
  <2>3. heads' = heads \/ \E t \in Sources : ProcessFulfill(w, t)
    BY <1>3, <2>1, ZenonT(40) DEF Process, BeginSlice, CaughtUp, ProcessPark, Park,
                                  ProcessError, database
  <2> QED BY <1>2, <2>2, <2>3
<1>4. ASSUME NEW w \in Workers, CommitUpdate(w) PROVE HeadStep(s)
  <2> DEFINE t == commands[w].source
  <2>1. /\ Pc(w) = "update" /\ ~Stale(commands[w])
        /\ commands' = [commands EXCEPT ![w] = Idle]
        /\ \E head : heads' = [heads EXCEPT ![t] = head]
    BY <1>4 DEF CommitUpdate, UpdateFails, Become
  <2>2. CASE s # t
    BY <1>1, <2>1, <2>2 DEF HeadStep
  <2>3. CASE s = t /\ "schedule" \in commands[w].apply
    <3>1. CommitsHeadMove(w, s)
      BY <1>1, <2>1, <2>3 DEF CommitsHeadMove, Pc, Stale, Idle
    <3> QED BY <3>1 DEF HeadStep
  <2>4. CASE s = t /\ "schedule" \notin commands[w].apply
    <3>1. heads' = [heads EXCEPT ![t] = IF CompletesByEdit(commands[w]) THEN NoHead ELSE @]
      BY <1>4, <2>4 DEF CommitUpdate
    <3> QED BY <1>1, <2>4, <3>1 DEF HeadStep
  <2> QED BY <2>2, <2>3, <2>4
<1>5. ASSUME NEW w \in Workers, CommitLifecycle(w) PROVE HeadStep(s)
  <2> DEFINE t == commands[w].source
             operation == commands[w].operation
             head == CASE operation = "pause"  -> heads[t]
                       [] operation = "resume" ->
                            SkippedHead(heads[t], schedules[t], commands[w].observed)
                       [] operation \in {"stop", "delete"} -> NoHead
  <2>1. /\ Pc(w) = "lifecycle" /\ ~Stale(commands[w])
        /\ commands' = [commands EXCEPT ![w] = Idle]
        /\ operation \in LifecycleCommands /\ t \in Sources
    BY <1>1, <1>5, CommandKinds DEF CommitLifecycle, Become, Pc, LifecycleCommand
  <2>2. heads' = [heads EXCEPT ![t] = head]
    BY <1>1, <1>5, <2>1 DEF CommitLifecycle
  <2>3. CASE s # t
    BY <1>1, <2>2, <2>3 DEF HeadStep
  <2>4. CASE s = t /\ operation = "resume"
    <3>1. CommitsHeadMove(w, s)
      BY <1>1, <2>1, <2>4 DEF CommitsHeadMove, Pc, Stale, Idle
    <3> QED BY <3>1 DEF HeadStep
  <2>5. CASE s = t /\ operation # "resume"
    <3>1. head \in {heads[s], NoHead}
      BY <2>1, <2>5 DEF LifecycleCommands
    <3> QED BY <1>1, <2>1, <2>2, <2>5, <3>1 DEF HeadStep
  <2> QED BY <2>3, <2>4, <2>5
<1>6. ASSUME NEW w \in Workers, Proceed(w) PROVE HeadStep(s)
  <2>1. heads' = heads \/ CommitUpdate(w) \/ CommitLifecycle(w)
    BY <1>6, ZenonT(40) DEF Proceed, FailUpdate, Recheck, Reread, FailLifecycle,
                            CommitRepair, FailRepair, database
  <2> QED BY <1>2, <1>4, <1>5, <2>1
<1>7. ASSUME NEW w \in Workers, Begin(w) PROVE HeadStep(s)
  <2>1. \/ heads' = heads
        \/ \E t \in Sources :
              sources[t] = NoSource /\ \E head : heads' = [heads EXCEPT ![t] = head]
    <3>1. ASSUME NEW t \in Sources, NEW draft \in Drafts, Create(w, t, draft)
          PROVE  sources[t] = NoSource /\ \E head : heads' = [heads EXCEPT ![t] = head]
      BY <3>1 DEF Create
    <3>2. ASSUME NEW t \in Sources, NEW draft \in Drafts, NEW transaction \in Manual,
                 Adopt(w, t, draft, transaction)
          PROVE  sources[t] = NoSource /\ \E head : heads' = [heads EXCEPT ![t] = head]
      BY <3>2 DEF Adopt
    <3>3. \/ heads' = heads
          \/ \E t \in Sources, draft \in Drafts :
                \/ Create(w, t, draft)
                \/ \E transaction \in Manual : Adopt(w, t, draft, transaction)
      BY <1>7, ZenonT(40) DEF Begin, BeginUpdate, BeginLifecycle, BeginRepair, Retry,
                              DeleteCategory, database
    <3> QED BY <3>1, <3>2, <3>3
  <2> QED BY <1>1, <1>2, <2>1 DEF HeadStep
<1>8. CASE Environment \/ UNCHANGED vars
  BY <1>2, <1>8 DEF Environment, Tick, SetClockBack, Crash, Contention, database, vars
<1> QED BY <1>3, <1>6, <1>7, <1>8 DEF Next

\* A parked slot is passed by schedule edits and resumptions only, whatever
\* the interleaving of the other steps of all the workers.
THEOREM ParkedIsPassedByHeadMoves ==
    Spec /\ []EditsKeepDates => PassedOnlyByHeadMoves
<1> DEFINE Passed == \A s \in Sources : ParkedFirst(s) /\ ~ParkedFirst(s)' =>
                        \E w \in Workers : CommitsHeadMove(w, s)
<1>1. IInv /\ IInv' /\ OrderInv /\ RecordedInv /\ RecordedInv' /\ [Next]_vars => [Passed]_vars
  <2> SUFFICES ASSUME IInv, IInv', OrderInv, RecordedInv, RecordedInv', [Next]_vars,
                      NEW s \in Sources, ParkedFirst(s),
                      ~\E w \in Workers : CommitsHeadMove(w, s)
               PROVE  ParkedFirst(s)'
    OBVIOUS
  <2>1. InOrderAt(s)
    BY ParkedFirstIsInOrder
  <2>2. sources[s] = NoSource => Unresolved(s) = {}
    BY DEF RecordedInv, NoSource, Unresolved
  <2>3. ParkedHeadStays(s)
    BY <2>2, HeadSteps DEF HeadStep, ParkedHeadStays
  <2>4. FailuresInOrder(failures'[s], occurrences'[s], heads'[s])
    BY <2>1, <2>3, FailuresFollow
  <2> QED BY <2>4 DEF FailuresInOrder, ParkedFirst, Unresolved
<1> QED BY <1>1, RecordedAlways, KeptInOrderAlways, Invariance, PTL
        DEF Spec, PassedOnlyByHeadMoves

-----------------------------------------------------------------------------
(***************************************************************************)
(* What was forecast, and counted as due, is what a fulfillment brings     *)
(* (RecurringProjection).                                                  *)
(***************************************************************************)
\* The ordinals from one on whose slots are due.
DueSlots(rule, first, ordinal, observed) ==
    {o \in ordinal .. ordinal + observed + 1 : ScheduledLocalAt(rule, first, o) <= observed}

\* Of the slots due from an ordinal on, one is its own, if that is due.
OneFewer(rule, first, ordinal, observed) ==
    Cardinality(DueSlots(rule, first, ordinal, observed))
      = Cardinality(DueSlots(rule, first, ordinal + 1, observed))
          + (IF ScheduledLocalAt(rule, first, ordinal) <= observed THEN 1 ELSE 0)

LEMMA DueFromNext ==
    ASSUME NEW rule \in ScheduleRule, NEW first \in Nat, NEW ordinal \in Nat \ {0},
           NEW observed \in Nat
    PROVE  OneFewer(rule, first, ordinal, observed)
<1> DEFINE slot(o) == ScheduledLocalAt(rule, first, o)
           here  == DueSlots(rule, first, ordinal, observed)
           after == DueSlots(rule, first, ordinal + 1, observed)
<1>1. \A o \in Nat \ {0} : slot(o) \in Nat /\ slot(o) >= o - 1
  BY SlotBound
<1> HIDE DEF slot
<1>2. ASSUME NEW o \in Nat, o >= ordinal, slot(o) <= observed
      PROVE  o \in ordinal .. ordinal + observed + 1
  BY <1>1, <1>2
<1>3. here = {o \in Nat : o >= ordinal /\ slot(o) <= observed}
  BY <1>2 DEF DueSlots, slot
<1>4. after = {o \in Nat : o >= ordinal + 1 /\ slot(o) <= observed}
  BY <1>2 DEF DueSlots, slot
<1>5. IsFiniteSet(after)
  <2>1. /\ after \in SUBSET (ordinal + 1 .. (ordinal + 1) + observed + 1)
        /\ ordinal + 1 \in Int /\ (ordinal + 1) + observed + 1 \in Int
    BY DEF DueSlots
  <2> QED BY <2>1, FS_Interval, FS_Subset
<1> HIDE DEF here, after
<1>6. Cardinality(after) \in Nat
  BY <1>5, FS_CardinalityType
<1>7. CASE slot(ordinal) <= observed
  <2>1. here = after \union {ordinal} /\ ordinal \notin after
    BY <1>3, <1>4, <1>7
  <2>2. Cardinality(here) = Cardinality(after) + 1
    BY <1>5, <2>1, FS_AddElement
  <2> QED BY <1>7, <2>2 DEF OneFewer, here, after, slot
<1>8. CASE ~(slot(ordinal) <= observed)
  <2>1. here = after
    BY <1>3, <1>4, <1>8
  <2> QED BY <1>6, <1>8, <2>1 DEF OneFewer, here, after, slot
<1> QED BY <1>7, <1>8

\* The slots that are forecast for a head on the revision with the rule.
Upcoming(rule, first, ordinal, observed, through, total, count) ==
    {ScheduledLocalAt(rule, first, o) : o \in
        {p \in ordinal .. ordinal + through :
            /\ observed < ScheduledLocalAt(rule, first, p)
            /\ ScheduledLocalAt(rule, first, p) < through
            /\ total = NoTotal \/ p - ordinal < total - count}}

\* Once the slot of an ordinal is fulfilled, the rest of the forecast is left.
UpcomingLeft(rule, first, ordinal, observed, through, total, count) ==
    Upcoming(rule, first, ordinal, observed, through, total, count)
        \ {ScheduledLocalAt(rule, first, ordinal)}

LEMMA UpcomingFromNext ==
    ASSUME NEW rule \in ScheduleRule, NEW first \in Nat, NEW ordinal \in Nat \ {0},
           NEW observed \in Nat, NEW through \in Nat, NEW total \in Nat, NEW count \in Nat
    PROVE  /\ Upcoming(rule, first, ordinal + 1, observed, through, total, count + 1)
                = UpcomingLeft(rule, first, ordinal, observed, through, total, count)
           /\ Completes(total, count + 1) =>
                UpcomingLeft(rule, first, ordinal, observed, through, total, count) = {}
<1> DEFINE slot(o) == ScheduledLocalAt(rule, first, o)
           within(p, o, n) == total = NoTotal \/ p - o < total - n
           named(o, n) == {p \in o .. o + through :
                              observed < slot(p) /\ slot(p) < through /\ within(p, o, n)}
<1>1. \A o \in Nat \ {0} : slot(o) \in Nat /\ slot(o) >= o - 1
  BY SlotBound
<1>2. \A p \in Nat \ {0} : p > ordinal => slot(p) # slot(ordinal)
  <2>1. ASSUME NEW p \in Nat \ {0}, p > ordinal PROVE slot(ordinal) < slot(p)
    BY <2>1, SlotsIncrease
  <2> QED BY <1>1, <2>1
<1>3. /\ Upcoming(rule, first, ordinal + 1, observed, through, total, count + 1)
           = {slot(o) : o \in named(ordinal + 1, count + 1)}
      /\ UpcomingLeft(rule, first, ordinal, observed, through, total, count)
           = {slot(o) : o \in named(ordinal, count)} \ {slot(ordinal)}
  BY DEF Upcoming, UpcomingLeft
<1> HIDE DEF slot
<1>4. named(ordinal + 1, count + 1) = named(ordinal, count) \ {ordinal}
  <2>1. ASSUME NEW p \in Nat, p >= ordinal + 1, slot(p) < through
        PROVE  p \in ordinal .. ordinal + through /\ p \in ordinal + 1 .. (ordinal + 1) + through
    BY <1>1, <2>1
  <2>2. \A p \in Nat : within(p, ordinal + 1, count + 1) <=> within(p, ordinal, count)
    OBVIOUS
  <2>3. ASSUME NEW p \in named(ordinal + 1, count + 1)
        PROVE  p \in named(ordinal, count) \ {ordinal}
    BY <2>1, <2>2, <2>3
  <2>4. ASSUME NEW p \in named(ordinal, count), p # ordinal
        PROVE  p \in named(ordinal + 1, count + 1)
    BY <2>1, <2>2, <2>4
  <2> QED BY <2>3, <2>4
<1>5. \A p \in named(ordinal, count) : p \in Nat \ {0} /\ p >= ordinal /\ within(p, ordinal, count)
  OBVIOUS
<1> HIDE DEF named
<1>6. {slot(o) : o \in named(ordinal, count) \ {ordinal}}
        = {slot(o) : o \in named(ordinal, count)} \ {slot(ordinal)}
  <2>1. \A p \in named(ordinal, count) : p # ordinal => slot(p) # slot(ordinal)
    BY <1>2, <1>5
  <2> QED BY <2>1
<1>7. ASSUME Completes(total, count + 1) PROVE named(ordinal, count) \ {ordinal} = {}
  <2>1. ASSUME NEW p \in named(ordinal, count), p # ordinal PROVE FALSE
    BY <1>5, <1>7, <2>1 DEF Completes
  <2> QED BY <2>1
<1> QED BY <1>3, <1>4, <1>6, <1>7

\* ProjectedSlots, of the rows it reads.
SlotsProjected(open, head, observed, through, total, count) ==
    LET slots == [o \in head.ordinal .. head.ordinal + through |->
                     IF o = head.ordinal THEN head.next
                     ELSE ScheduledLocalAt(open.rule, open.first, o)]
    IN  {slots[o] : o \in {p \in DOMAIN slots :
            /\ observed < slots[p] /\ slots[p] < through
            /\ total = NoTotal \/ p - head.ordinal < total - count}}

LEMMA ProjectedIsUpcoming ==
    ASSUME NEW open, NEW head, NEW observed, NEW through, NEW total, NEW count,
           ScheduledLocalAt(open.rule, open.first, head.ordinal) = head.next
    PROVE  SlotsProjected(open, head, observed, through, total, count)
             = Upcoming(open.rule, open.first, head.ordinal, observed, through, total, count)
<1> DEFINE slot(o) == ScheduledLocalAt(open.rule, open.first, o)
           range == head.ordinal .. head.ordinal + through
           slots == [o \in range |-> IF o = head.ordinal THEN head.next ELSE slot(o)]
<1>1. DOMAIN slots = range /\ \A o \in range : slots[o] = slot(o)
  OBVIOUS
<1>2. SlotsProjected(open, head, observed, through, total, count)
        = {slots[o] : o \in {p \in DOMAIN slots :
              /\ observed < slots[p] /\ slots[p] < through
              /\ total = NoTotal \/ p - head.ordinal < total - count}}
  BY DEF SlotsProjected
<1>3. Upcoming(open.rule, open.first, head.ordinal, observed, through, total, count)
        = {slot(o) : o \in {p \in range :
              /\ observed < slot(p) /\ slot(p) < through
              /\ total = NoTotal \/ p - head.ordinal < total - count}}
  BY DEF Upcoming
<1> HIDE DEF slot, range, slots
<1> DEFINE Q(p, x) == /\ observed < x /\ x < through
                      /\ total = NoTotal \/ p - head.ordinal < total - count
<1>4. {p \in DOMAIN slots : Q(p, slots[p])} = {p \in range : Q(p, slot(p))}
  BY <1>1
<1>5. \A p \in {q \in range : Q(q, slot(q))} : slots[p] = slot(p)
  BY <1>1
<1>6. {slots[o] : o \in {q \in range : Q(q, slot(q))}}
        = {slot(o) : o \in {q \in range : Q(q, slot(q))}}
  BY <1>5
<1> QED BY <1>2, <1>3, <1>4, <1>6

\* The window ends on a day.
LEMMA ThroughType ==
    ASSUME NEW observed \in Nat
    PROVE  Through(observed) \in Nat
<1> DEFINE rule == [unit |-> "month", n |-> Horizon]
<1>1. rule \in ScheduleRule /\ (2 - 1) * rule.n = Horizon
  BY ProjectionAssumption DEF ScheduleRule, IntervalUnits
<1>2. ScheduledLocalAt(rule, observed, 2) = AddMonthsClamped(observed, Horizon)
  BY <1>1 DEF ScheduledLocalAt, AdvanceInterval
<1>3. ScheduledLocalAt(rule, observed, 2) \in Nat
  BY <1>1, SlotBound
<1> QED BY <1>2, <1>3 DEF Through

\* Only a fulfillment counts on: of the slot at the head, with the failure it was parked with.
LEMMA CountedByFulfillment ==
    ASSUME IInv, OrderInv, [Next]_vars, NEW s \in Sources, heads[s] # NoHead,
           sources'[s].count = sources[s].count + 1
    PROVE  /\ FulfilledAt(s) /\ clock' = clock
           /\ failures'[s] = (failures[s] \ OwnFailures(s))
                               \union {[f EXCEPT !.resolved = TRUE] : f \in OwnFailures(s)}
<1>1. /\ sources[s].lifecycle \in {"active", "paused"} /\ sources[s].count \in Nat
      /\ sources'[s].count # sources[s].count
      /\ \A o \in occurrences[s] : o.position \in 1..sources[s].count
  BY SourceOfRow DEF IInv, SourceSound, HeadAt, ExactAt
<1>2. sources[s] # NoSource
  BY <1>1 DEF NoSource
<1>3. FulfilledAt(s)
  <2>1. KeptAt(s) \/ WrittenAt(s)
    BY NextWrites DEF Writes
  <2> QED BY <1>1, <1>2, <2>1 DEF KeptAt, WrittenAt, CreatedAt, AdoptedAt, UpdatedAt, SwitchedAt
<1>4. occurrences'[s] # occurrences[s]
  <2>1. RowAtHead(s).position = sources[s].count + 1
    BY DEF RowAtHead
  <2>2. RowAtHead(s) \notin occurrences[s]
    BY <1>1, <2>1
  <2> QED BY <1>3, <2>2 DEF FulfilledAt
<1>5. FailureStep
  BY <1>4, FailureSteps DEF FailuresKept
<1>6. /\ occurrences \in [Sources -> SUBSET OccurrenceRow]
      /\ failures \in [Sources -> SUBSET FailureRow]
  BY DEF IInv, TypeOK
<1>7. \E w \in Workers : ProcessFulfill(w, s)
  <2>1. ASSUME NEW w \in Workers, NEW t \in Sources, ProcessFulfill(w, t) PROVE t = s
    <3>1. occurrences' = [occurrences EXCEPT ![t] = @ \union
            {[rev |-> heads[t].rev, ordinal |-> heads[t].ordinal, at |-> heads[t].next,
              position |-> sources[t].count + 1, transaction |-> Generated]}]
      BY <2>1 DEF ProcessFulfill, Fulfill
    <3> QED BY <1>4, <1>6, <3>1
  <2>2. ASSUME NEW w \in Workers, NEW t \in Sources, ProcessPark(w, t) PROVE FALSE
    BY <1>4, <2>2 DEF ProcessPark, Park
  <2>3. ASSUME NEW w \in Workers, CommitRepair(w) PROVE FALSE
    BY <1>4, <2>3 DEF CommitRepair
  <2>4. ASSUME NEW w \in Workers, NEW t \in Sources, NEW draft \in Drafts,
               NEW transaction \in Manual, Adopt(w, t, draft, transaction)
        PROVE  FALSE
    <3>1. /\ sources[t] = NoSource
          /\ occurrences' = [occurrences EXCEPT ![t] =
                {[rev |-> 1, ordinal |-> 1, at |-> draft.first, position |-> 1,
                  transaction |-> transaction]}]
      BY <2>4 DEF Adopt
    <3> QED BY <1>2, <1>4, <1>6, <3>1
  <2> QED BY <1>5, <2>1, <2>2, <2>3, <2>4 DEF FailureStep
<1>8. /\ clock' = clock
      /\ failures' = [failures EXCEPT ![s] = (@ \ OwnFailures(s))
                        \union {[f EXCEPT !.resolved = TRUE] : f \in OwnFailures(s)}]
  BY <1>7 DEF ProcessFulfill, Fulfill
<1>9. failures'[s] = (failures[s] \ OwnFailures(s))
                       \union {[f EXCEPT !.resolved = TRUE] : f \in OwnFailures(s)}
  BY <1>6, <1>8
<1> QED BY <1>3, <1>8, <1>9

\* A fulfilled head on the open revision stays on it.
NextInOpen(s) ==
    LET open == schedules[s][OpenSchedule(schedules[s])]
        ordinal == heads[s].ordinal
    IN  /\ open.rule \in ScheduleRule /\ open.first \in Nat /\ ordinal \in Nat \ {0}
        /\ ScheduledLocalAt(open.rule, open.first, ordinal) = heads[s].next
        /\ schedules'[s] = schedules[s]
        /\ heads'[s] = IF Completes(sources[s].total, sources[s].count + 1) THEN NoHead
                       ELSE [rev |-> heads[s].rev, ordinal |-> ordinal + 1,
                             next |-> ScheduledLocalAt(open.rule, open.first, ordinal + 1)]

LEMMA NextInOpenRevision ==
    ASSUME IInv, NEW s \in Sources, SourceInOrder(s), FulfilledAt(s), InOpenRevision(s)
    PROVE  NextInOpen(s) /\ heads[s] # NoHead
<1> DEFINE revisions == schedules[s]
           head == heads[s]
           rev  == head.rev
           following == SlotAt(revisions, rev, head.ordinal + 1)
           at   == ScheduleAt(revisions, following)
<1>1. /\ head # NoHead /\ ProperHead(revisions, head) /\ HasOpen(revisions)
      /\ revisions \in Seq(ScheduleRow) /\ HistoryInOrder(revisions) /\ head.next \in Nat
      /\ rev \in DOMAIN revisions /\ head.ordinal \in Nat \ {0}
      /\ revisions[rev].from <= head.next
  <2>1. SourceSound(s) /\ sources[s].lifecycle = "active"
    BY DEF IInv, FulfilledAt
  <2>2. head # NoHead /\ ProperHead(revisions, head) /\ HasOpen(revisions)
    BY <2>1 DEF SourceSound, HeadAt
  <2> QED BY <2>2, SourceOfRow DEF ProperHead, SourceInOrder, InOrder
<1>2. /\ schedules'[s] = revisions /\ SlotAt(revisions, rev, head.ordinal) = head.next
      /\ heads'[s] = HeadAfter(sources[s].total, sources[s].count + 1, revisions, rev,
                               head.ordinal)
      /\ rev = OpenSchedule(revisions)
  BY DEF FulfilledAt, Coherent, InOpenRevision
<1> HIDE DEF revisions, head
<1>3. rev = Len(revisions)
  BY <1>1, <1>2, OpenIsLast
<1>4. /\ revisions[rev].rule \in ScheduleRule /\ revisions[rev].first \in Nat
      /\ revisions[rev].from \in Nat /\ rev \in Nat /\ Len(revisions) \in Nat
  BY <1>1, ScheduleFields
<1>5. head.ordinal + 1 \in Nat \ {0} /\ head.ordinal < head.ordinal + 1
  BY <1>1
<1>6. following \in Nat /\ following > head.next
  BY <1>1, <1>2, <1>4, <1>5, SlotAtType, SlotsIncrease DEF SlotAt
<1> HIDE DEF following
<1>7. InForce(revisions, following, at)
  BY <1>1, <1>4, <1>6, LastToBegin
<1> HIDE DEF at
<1>8. at = rev /\ at # 0
  <2>1. at \in DOMAIN revisions /\ at \in Nat /\ at # 0 /\ rev <= at
    BY <1>1, <1>4, <1>6, <1>7 DEF InForce
  <2>2. at <= Len(revisions)
    BY <1>1, <2>1
  <2> QED BY <1>3, <1>4, <2>1, <2>2
<1>9. NextHeadAfter(revisions, rev, head.ordinal)
        = [rev |-> rev, ordinal |-> head.ordinal + 1, next |-> following]
  BY <1>8 DEF NextHeadAfter, at, following
<1> QED BY <1>1, <1>2, <1>4, <1>9 DEF NextInOpen, HeadAfter, following, SlotAt, revisions, head

\* A fulfillment takes its slot out of the forecast and of the count.
LEMMA ForecastComesTrue ==
    ASSUME IInv, OrderInv, [Next]_vars, NEW s \in Sources, FulfilsHead(s), InOpenRevision(s)
    PROVE  /\ Forecast(s, clock, Through(clock))'
                = Forecast(s, clock, Through(clock)) \ {heads[s].next}
           /\ sources[s].total = NoTotal =>
                Preflight(s, "stop", sources[s].revision, clock).due
                  = Preflight(s, "stop", sources[s].revision, clock)'.due
                      + (IF heads[s].next <= clock THEN 1 ELSE 0)
<1> DEFINE open == schedules[s][OpenSchedule(schedules[s])]
           ordinal == heads[s].ordinal
           total == sources[s].total
           count == sources[s].count
           through == Through(clock)
           goesOn == [rev |-> heads[s].rev, ordinal |-> ordinal + 1,
                      next |-> ScheduledLocalAt(open.rule, open.first, ordinal + 1)]
<1>1. /\ sources[s].lifecycle = "active" /\ heads[s] # NoHead /\ Unresolved(s) = {}
      /\ sources'[s].count = count + 1
  BY DEF FulfilsHead, Projected
<1>2. /\ FulfilledAt(s) /\ clock' = clock
      /\ failures'[s] = (failures[s] \ OwnFailures(s))
                          \union {[f EXCEPT !.resolved = TRUE] : f \in OwnFailures(s)}
  BY <1>1, CountedByFulfillment
<1>3. Unresolved(s)' = {}
  <2>1. OwnFailures(s) = {}
    BY <1>1 DEF OwnFailures
  <2>2. failures'[s] = failures[s]
    BY <1>2, <2>1
  <2> QED BY <1>1, <2>2 DEF Unresolved
<1>4. NextInOpen(s)
  BY <1>2, NextInOpenRevision DEF OrderInv
<1>5. /\ open.rule \in ScheduleRule /\ open.first \in Nat /\ ordinal \in Nat \ {0}
      /\ ScheduledLocalAt(open.rule, open.first, ordinal) = heads[s].next
      /\ schedules'[s] = schedules[s]
      /\ heads'[s] = IF Completes(total, count + 1) THEN NoHead ELSE goesOn
  BY <1>4 DEF NextInOpen
<1>6. total \in Nat /\ count \in Nat /\ clock \in Nat /\ through \in Nat
  BY SourceOfRow, ThroughType DEF IInv, TypeOK
<1>7. /\ sources'[s].total = total
      /\ sources'[s].lifecycle = IF Completes(total, count + 1) THEN "completed" ELSE "active"
  BY <1>1, <1>2, <1>6, SourceOfRow, FulfilledSourceType DEF FulfilledAt
<1>8. goesOn # NoHead /\ goesOn.ordinal = ordinal + 1
      /\ goesOn.next = ScheduledLocalAt(open.rule, open.first, ordinal + 1)
  BY <1>5 DEF NoHead
<1>9. Forecast(s, clock, Through(clock))
        = Upcoming(open.rule, open.first, ordinal, clock, through, total, count)
  <2>1. Forecast(s, clock, Through(clock))
          = SlotsProjected(open, heads[s], clock, through, total, count)
    BY <1>1 DEF Forecast, Projected, ProjectedSlots, ProjectedLocal, WithinTotal, SlotsProjected
  <2> QED BY <1>5, <2>1, ProjectedIsUpcoming
<1>10. Forecast(s, clock, Through(clock))'
         = IF Completes(total, count + 1) THEN {}
           ELSE Upcoming(open.rule, open.first, ordinal + 1, clock, through, total, count + 1)
  <2>1. CASE Completes(total, count + 1)
    <3>1. Projected(s)' = FALSE
      BY <1>5, <2>1 DEF Projected
    <3> QED BY <2>1, <3>1 DEF Forecast
  <2>2. CASE ~Completes(total, count + 1)
    <3>1. Projected(s)'
      BY <1>3, <1>5, <1>7, <1>8, <2>2 DEF Projected
    <3>2. heads'[s] = goesOn
      BY <1>5, <2>2
    <3>3. Forecast(s, clock, Through(clock))'
            = SlotsProjected(open, goesOn, clock, through, total, count + 1)
      <4>1. Forecast(s, clock, Through(clock))' = ProjectedSlots(s, clock, Through(clock))'
        BY <3>1 DEF Forecast
      <4>2. ProjectedSlots(s, clock, Through(clock))'
              = SlotsProjected(schedules'[s][OpenSchedule(schedules'[s])], heads'[s], clock',
                               Through(clock'), sources'[s].total, sources'[s].count)
        BY DEF ProjectedSlots, ProjectedLocal, WithinTotal, SlotsProjected
      <4> HIDE DEF goesOn
      <4> QED BY <1>1, <1>2, <1>5, <1>7, <3>2, <4>1, <4>2
    <3> HIDE DEF goesOn
    <3>4. ScheduledLocalAt(open.rule, open.first, goesOn.ordinal) = goesOn.next
      BY <1>8
    <3> QED BY <1>8, <2>2, <3>3, <3>4, ProjectedIsUpcoming
  <2> QED BY <2>1, <2>2
<1>11. Forecast(s, clock, Through(clock))'
         = Forecast(s, clock, Through(clock)) \ {heads[s].next}
  <2>1. UpcomingLeft(open.rule, open.first, ordinal, clock, through, total, count)
          = Upcoming(open.rule, open.first, ordinal, clock, through, total, count)
              \ {heads[s].next}
    BY <1>5 DEF UpcomingLeft
  <2> HIDE DEF open, ordinal, total, count, through
  <2>2. /\ Upcoming(open.rule, open.first, ordinal + 1, clock, through, total, count + 1)
             = UpcomingLeft(open.rule, open.first, ordinal, clock, through, total, count)
        /\ Completes(total, count + 1) =>
             UpcomingLeft(open.rule, open.first, ordinal, clock, through, total, count) = {}
    BY <1>5, <1>6, UpcomingFromNext
  <2> QED BY <1>9, <1>10, <2>1, <2>2
<1>12. ASSUME total = NoTotal
       PROVE  Preflight(s, "stop", sources[s].revision, clock).due
                = Preflight(s, "stop", sources[s].revision, clock)'.due
                    + (IF heads[s].next <= clock THEN 1 ELSE 0)
  <2>1. ~Completes(total, count + 1)
    BY <1>12 DEF Completes
  <2>2. heads'[s] = goesOn /\ sources'[s].lifecycle = "active" /\ sources'[s].total = NoTotal
    BY <1>5, <1>7, <1>12, <2>1
  <2>3. Preflight(s, "stop", sources[s].revision, clock).due
          = Cardinality(DueSlots(open.rule, open.first, ordinal, clock))
    <3>1. BulkEligible(s, "stop", sources[s].revision)
      BY <1>1 DEF BulkEligible, Visible, LifecycleEligible, TransitionAllowed,
                  GenerationBlocked
    <3>2. Preflight(s, "stop", sources[s].revision, clock).due = DueCatchUp(s, clock)
      BY <1>1, <3>1 DEF Preflight, RequiresCatchUp
    <3>3. DueCatchUp(s, clock) = Cardinality(DueFrom(s, ordinal, clock))
      BY <1>1 DEF DueCatchUp
    <3>4. DueFrom(s, ordinal, clock) = DueSlots(open.rule, open.first, ordinal, clock)
      BY <1>12 DEF DueFrom, DueSlots, SlotAt
    <3> QED BY <3>2, <3>3, <3>4
  <2>4. Preflight(s, "stop", sources[s].revision, clock)'.due
          = Cardinality(DueSlots(open.rule, open.first, ordinal + 1, clock))
    <3>1. BulkEligible(s, "stop", sources[s].revision)'
      BY <1>3, <2>2 DEF BulkEligible, Visible, LifecycleEligible, TransitionAllowed,
                        GenerationBlocked
    <3>2. Preflight(s, "stop", sources[s].revision, clock)'.due = DueCatchUp(s, clock)'
      BY <2>2, <3>1 DEF Preflight, RequiresCatchUp
    <3>3. heads'[s] # NoHead /\ heads'[s].ordinal = ordinal + 1
      BY <1>8, <2>2
    <3>4. DueCatchUp(s, clock)'
            = Cardinality({o \in ordinal + 1 .. (ordinal + 1) + clock + 1 :
                              ScheduledLocalAt(open.rule, open.first, o) <= clock})
      BY <1>2, <1>5, <2>2, <3>3 DEF DueCatchUp, DueFrom, SlotAt
    <3> QED BY <3>2, <3>4 DEF DueSlots
  <2>5. OneFewer(open.rule, open.first, ordinal, clock)
    <3> HIDE DEF open, ordinal
    <3> QED BY <1>5, <1>6, DueFromNext
  <2> QED BY <1>5, <2>3, <2>4, <2>5 DEF OneFewer
<1> QED BY <1>11, <1>12

\* Generating the slot at the head leaves the forecast as it was but for that
\* slot, and what a stop is said to catch up with one fewer if it was due.
THEOREM CatchUpsAsForecast == Spec /\ []EditsKeepDates => CatchUpAsForecast
<1>1. IInv /\ OrderInv /\ [Next]_vars
      => [\A s \in Sources : FulfilsHead(s) /\ InOpenRevision(s) =>
            LET due == Preflight(s, "stop", sources[s].revision, clock).due
                headIsDue == heads[s].next <= clock
            IN  /\ Forecast(s, clock, Through(clock))'
                     = Forecast(s, clock, Through(clock)) \ {heads[s].next}
                /\ sources[s].total = NoTotal =>
                     due = Preflight(s, "stop", sources[s].revision, clock)'.due
                             + (IF headIsDue THEN 1 ELSE 0)]_vars
  BY ForecastComesTrue
<1> QED BY <1>1, KeptInOrderAlways, Invariance, PTL DEF Spec, CatchUpAsForecast

\* What waits behind the failure of the head is what is due once it is fulfilled.
LEMMA WaitingBecomesDue ==
    ASSUME IInv, OrderInv, ParkedInv, [Next]_vars, NEW s \in Sources, FulfilsFailed(s),
           InOpenRevision(s), sources[s].total = NoTotal
    PROVE  Waiting(s, clock) = DueCatchUp(s, clock)'
<1> DEFINE open == schedules[s][OpenSchedule(schedules[s])]
           ordinal == heads[s].ordinal
           count == sources[s].count
           goesOn == [rev |-> heads[s].rev, ordinal |-> ordinal + 1,
                      next |-> ScheduledLocalAt(open.rule, open.first, ordinal + 1)]
<1>1. heads[s] # NoHead /\ Unresolved(s) # {} /\ sources'[s].count = count + 1
  BY DEF FulfilsFailed
<1>2. FulfilledAt(s) /\ clock' = clock
  BY <1>1, CountedByFulfillment
<1>3. /\ ordinal \in Nat \ {0} /\ schedules'[s] = schedules[s]
      /\ heads'[s] = IF Completes(sources[s].total, count + 1) THEN NoHead ELSE goesOn
  BY <1>2, NextInOpenRevision DEF OrderInv, NextInOpen
<1>4. heads'[s] = goesOn
  BY <1>3 DEF Completes
<1>5. heads'[s] # NoHead /\ heads'[s].ordinal = ordinal + 1
  BY <1>3, <1>4 DEF NoHead
<1>6. sources'[s].total = NoTotal
  <2>1. sources[s].lifecycle = "active" /\ count + 1 \in Nat /\ sources[s] \in SourceRow
        /\ sources'[s] = FulfilledSource(sources[s], count + 1)
    BY <1>2, SourceOfRow DEF FulfilledAt
  <2> QED BY <2>1, FulfilledSourceType
<1>7. {f.ordinal : f \in Unresolved(s)} = {ordinal}
  <2>1. \A f \in Unresolved(s) : Identity(f) = Identity(heads[s])
    BY <1>1 DEF ParkedInv, InOrderAt, FailuresInOrder, Unresolved
  <2>2. \A f \in Unresolved(s) : f.ordinal = ordinal
    BY <2>1 DEF Identity
  <2> QED BY <1>1, <2>2
<1>8. Max({ordinal}) = ordinal
  <2>1. {ordinal} \subseteq Nat /\ {ordinal} # {} /\ \A x \in {ordinal} : x <= ordinal
    BY <1>3
  <2>2. Max({ordinal}) \in {ordinal}
    BY <1>3, <2>1, MaxIsGreatest
  <2> QED BY <2>2
<1>9. Waiting(s, clock) = Cardinality(DueFrom(s, ordinal + 1, clock))
  BY <1>7, <1>8 DEF Waiting
<1>10. DueFrom(s, ordinal + 1, clock)
         = {o \in ordinal + 1 .. (ordinal + 1) + clock + 1 :
               ScheduledLocalAt(open.rule, open.first, o) <= clock}
  BY DEF DueFrom, SlotAt
<1>11. DueCatchUp(s, clock)'
         = Cardinality({o \in ordinal + 1 .. (ordinal + 1) + clock + 1 :
                           ScheduledLocalAt(open.rule, open.first, o) <= clock})
  BY <1>2, <1>3, <1>5, <1>6 DEF DueCatchUp, DueFrom, SlotAt
<1> QED BY <1>9, <1>10, <1>11

\* What a failure is said to keep waiting comes due with its slot, while no edit
\* or resumption begun before it was parked moves the head.
THEOREM WaitingsComeDue ==
    Spec /\ []EditsKeepDates /\ [][ParkedHeadsStay]_vars => WaitingComesDue
<1>1. IInv /\ OrderInv /\ ParkedInv /\ [Next]_vars
      => [\A s \in Sources : FulfilsFailed(s) /\ InOpenRevision(s)
                               /\ sources[s].total = NoTotal =>
            Waiting(s, clock) = DueCatchUp(s, clock)']_vars
  BY WaitingBecomesDue
<1> QED BY <1>1, ParkedInOrder, KeptInOrderAlways, Invariance, PTL DEF Spec, WaitingComesDue

=============================================================================
