-------------------------- MODULE ExchangeRatesProofs --------------------------
(* No update of the provider is lost, for every set of observations and years,   *)
(* every set of refreshers, and every bound of the exploration.                  *)
(*                                                                               *)
(* The accepted set may lag behind the provider only in what the next request    *)
(* will ask for.  While a refresh is under way the same must be said of what it  *)
(* has read so far, against the time it read before its first request: that is   *)
(* the time the next request will ask from (UpdatedAfter).  The lock keeps the   *)
(* previous set and the validators it works from the current ones.               *)
EXTENDS ExchangeRates, FiniteSetTheorems, TLAPS

-----------------------------------------------------------------------------
(* The invariant.                                                               *)

\* What the provider holds of o, as the accepted set would say it.
Held(o) == IF provider[o].live THEN provider[o].version ELSE 0

\* The observations r has had an answer about: all of them after the last request; before
\* it, those of the years asked so far if there is no set to start from.
Read(r) ==
    IF task[r].pc = "validate" THEN Obs
    ELSE IF task[r].previous = NoSet THEN {o \in Obs : YearOf[o] < task[r].year} ELSE {}

\* The times: nothing is newer than the clock.
Timely ==
    /\ state.after <= clock
    /\ \A r \in Refreshers : task[r].now <= clock

\* Every observation has been published.
Published == \A o \in Obs : provider[o].version > 0

\* What a refresh works from is current, and what it has read is what the provider holds,
\* but for what changed at or after the time it began.
UpToDate(r) ==
    task[r].pc \in {"fetch", "validate"} =>
        /\ task[r].previous = accepted /\ task[r].after = state.after
        /\ DOMAIN task[r].parsed \subseteq Read(r)
        /\ \A o \in Read(r) :
              \/ Merged(task[r].previous, task[r].parsed)[o] = Held(o)
              \/ provider[o].stamp >= task[r].now

RatesInv ==
    /\ RatesTypeOK
    /\ Published
    /\ Timely
    /\ NoUpdateLost
    /\ \A r \in Refreshers : UpToDate(r)

-----------------------------------------------------------------------------
(* What the calls leave alone.                                                  *)

\* Only the holder of the lock is inside a refresh.
LEMMA Exclusive ==
    ASSUME RatesTypeOK, NEW r \in Refreshers, task[r].pc \in Inside
    PROVE  lock = r /\ lock # Nil /\ \A q \in Refreshers \ {r} : task[q].pc \notin Inside
BY RatesAssumption DEF RatesTypeOK, Refreshers

\* Nothing read yet is a possible answer, and no set a possible set.
LEMMA NothingRead == <<>> \in Answers /\ NoSet \in RateSets
<1>1. <<>> \in [{} -> [version : Versions, deleted : BOOLEAN]]
  OBVIOUS
<1> QED BY <1>1 DEF Answers, RateSets

\* A refresher that goes on has nothing of what it read.
LEMMA GotoEffect ==
    ASSUME RatesTypeOK, NEW r \in Refreshers, NEW pc \in {"idle", "apply", "open"} \cup Inside,
           Goto(r, pc)
    PROVE  /\ task' \in [Refreshers -> Task] /\ \A q \in Refreshers \ {r} : task'[q] = task[q]
           /\ task'[r].pc = pc /\ task'[r].now = 0
<1> DEFINE e == [Asleep EXCEPT !.pc = pc]
<1>1. task \in [Refreshers -> Task]
  BY DEF RatesTypeOK
<1>2. e \in Task /\ e.pc = pc /\ e.now = 0
  BY NothingRead DEF Asleep, Task
<1>3. task' = [task EXCEPT ![r] = e]
  BY DEF Goto
<1> HIDE DEF e
<1> QED BY <1>1, <1>2, <1>3

\* A refresh that is over has forgotten what it read, and the lock is free.
LEMMA ReleaseEffect ==
    ASSUME RatesTypeOK, NEW r \in Refreshers, task[r].pc \in Inside,
           NEW outcome \in {"published", "notModified", "failed"}, Release(r, outcome)
    PROVE  /\ task' \in [Refreshers -> Task] /\ \A q \in Refreshers \ {r} : task'[q] = task[q]
           /\ task'[r].pc \notin Inside /\ task'[r].now = 0
           /\ lock' = Nil /\ \A q \in Refreshers : task'[q].pc \notin Inside
<1> DEFINE e == IF r \in Drives THEN Asleep ELSE [Asleep EXCEPT !.pc = "apply", !.outcome = outcome]
<1>1. task \in [Refreshers -> Task]
  BY DEF RatesTypeOK
<1>2. e \in Task /\ e.pc \notin Inside /\ e.now = 0
  BY NothingRead DEF Asleep, Task, Inside
<1>3. task' = [task EXCEPT ![r] = e] /\ lock' = Nil
  BY Exclusive DEF Release
<1> HIDE DEF e
<1>4. \A q \in Refreshers : task'[q].pc \notin Inside
  BY <1>1, <1>2, <1>3, Exclusive DEF Inside
<1> QED BY <1>1, <1>2, <1>3, <1>4

RefreshState == [failing : BOOLEAN, retries : 0..2, after : Nat]

\* What a refresh writes of its success or failure leaves the validators.
LEMMA StateEffect ==
    ASSUME NEW s \in RefreshState
    PROVE  /\ Succeeding(s) \in RefreshState /\ Succeeding(s).after = s.after
           /\ Failing(s) \in RefreshState /\ Failing(s).after = s.after
<1> DEFINE next(b, n) == [s EXCEPT !.failing = b, !.retries = n]
           n2 == IF s.retries < 2 THEN s.retries + 1 ELSE 2
<1>1. ASSUME NEW b \in BOOLEAN, NEW n \in 0..2
      PROVE  next(b, n) \in RefreshState /\ next(b, n).after = s.after
  BY Zenon DEF RefreshState
<1>2. Succeeding(s) = next(FALSE, 0)
  BY DEF Succeeding
<1>3. Failing(s) = next(TRUE, n2)
  BY Zenon DEF Failing, RefreshState
<1>4. n2 \in 0..2 /\ 0 \in 0..2
  BY DEF RefreshState
<1> HIDE DEF next, n2
<1>5. Succeeding(s) \in RefreshState /\ Succeeding(s).after = s.after
  <2>1. FALSE \in BOOLEAN
    OBVIOUS
  <2>2. next(FALSE, 0) \in RefreshState /\ next(FALSE, 0).after = s.after
    BY <1>1, <1>4, <2>1
  <2> QED BY <1>2, <2>2
<1>6. Failing(s) \in RefreshState /\ Failing(s).after = s.after
  <2>1. TRUE \in BOOLEAN
    OBVIOUS
  <2>2. next(TRUE, n2) \in RefreshState /\ next(TRUE, n2).after = s.after
    BY <1>1, <1>4, <2>1
  <2> QED BY <1>3, <2>2
<1> QED BY <1>5, <1>6

\* A step that reads no rates and accepts none.
LEMMA QuietStep ==
    ASSUME RatesInv, RatesTypeOK', UNCHANGED <<provider, accepted>>, state'.after = state.after,
           clock' >= clock,
           \A q \in Refreshers : \/ task'[q] = task[q]
                                 \/ task'[q].pc \notin {"fetch", "validate"} /\ task'[q].now <= clock
    PROVE  RatesInv'
<1>1. clock \in Nat /\ clock' \in Nat /\ state.after \in Nat /\ \A q \in Refreshers : task'[q].now \in Nat
  BY DEF RatesInv, RatesTypeOK, Task
<1>2. Published' /\ NoUpdateLost'
  BY DEF RatesInv, Published, NoUpdateLost
<1>3. Timely'
  <2> SUFFICES ASSUME NEW q \in Refreshers PROVE task'[q].now <= clock' /\ state'.after <= clock'
    BY DEF Timely, Refreshers
  <2>1. task'[q].now <= clock /\ state.after <= clock
    BY DEF RatesInv, Timely
  <2> QED BY <1>1, <2>1
<1>4. ASSUME NEW q \in Refreshers PROVE UpToDate(q)'
  <2>1. CASE task'[q] = task[q]
    BY <2>1 DEF RatesInv, UpToDate, Read, Held, Merged
  <2>2. CASE task'[q].pc \notin {"fetch", "validate"}
    BY <2>2 DEF UpToDate
  <2> QED BY <2>1, <2>2
<1> QED BY <1>2, <1>3, <1>4 DEF RatesInv

-----------------------------------------------------------------------------
(* The steps.                                                                   *)

\* The provider and the rest of the environment.
LEMMA EnvironmentKeeps ==
    ASSUME RatesInv,
           \/ Outage \/ Recovery \/ Second \/ \E c \in Approved : SetCurrency(c)
    PROVE  RatesInv'
<1>1. RatesTypeOK
  BY DEF RatesInv
<1>2. UNCHANGED <<provider, accepted, state, alert, lock, task>>
  BY DEF Outage, Recovery, Second, SetCurrency
<1>3. clock' \in Nat /\ clock' >= clock /\ faults' \in Nat
  BY <1>1 DEF RatesTypeOK, Outage, Recovery, Second, SetCurrency
<1>4. up' \in BOOLEAN
  BY <1>1, Zenon DEF RatesTypeOK, Outage, Recovery, Second, SetCurrency
<1>5. added' \in [Approved -> {"absent", "enabled", "disabled"}]
  BY <1>1 DEF RatesTypeOK, Outage, Recovery, Second, SetCurrency
<1>6. RatesTypeOK'
  BY <1>1, <1>2, <1>3, <1>4, <1>5 DEF RatesTypeOK
<1> QED BY <1>2, <1>3, <1>6, QuietStep

\* What the provider writes is stamped with a time no refresh has asked from yet.
LEMMA ProviderWritesKeeps ==
    ASSUME RatesInv, NEW o \in Obs, NEW live \in BOOLEAN, ProviderWrites(o, live)
    PROVE  RatesInv'
<1> DEFINE e == [version |-> provider[o].version + 1, live |-> live, stamp |-> clock]
<1>1. RatesTypeOK /\ provider[o] \in [version : Versions, live : BOOLEAN, stamp : Nat]
      /\ MaxVersion \in Nat /\ clock \in Nat /\ state.after \in Nat
      /\ \A r \in Refreshers : task[r].now \in Nat
  BY RatesAssumption DEF RatesInv, RatesTypeOK, Task
<1>2. provider' = [provider EXCEPT ![o] = e]
      /\ UNCHANGED <<up, clock, accepted, state, added, alert, lock, task, faults>>
  BY DEF ProviderWrites
<1>3. provider[o].version + 1 \in Versions \ {0}
  BY <1>1 DEF ProviderWrites, Versions
<1>4. e \in [version : Versions, live : BOOLEAN, stamp : Nat] /\ e.version > 0 /\ e.stamp = clock
  BY <1>1, <1>3 DEF Versions
<1> HIDE DEF e
<1>5. /\ provider' \in [Obs -> [version : Versions, live : BOOLEAN, stamp : Nat]]
      /\ provider'[o].version > 0 /\ provider'[o].stamp = clock
      /\ \A x \in Obs \ {o} : provider'[x] = provider[x]
  BY <1>1, <1>2, <1>4 DEF RatesTypeOK
<1>6. RatesTypeOK'
  BY <1>1, <1>2, <1>5 DEF RatesTypeOK
<1>7. Published' /\ Timely'
  BY <1>2, <1>5 DEF RatesInv, Published, Timely
<1>8. NoUpdateLost'
  <2> SUFFICES ASSUME accepted # NoSet, NEW x \in Obs
               PROVE  \/ accepted[x] = Held(x)'
                      \/ provider'[x].stamp >= state.after
    BY <1>2 DEF NoUpdateLost, Held
  <2>1. CASE x = o
    BY <1>5, <2>1 DEF RatesInv, Timely
  <2>2. CASE x # o
    BY <1>5, <2>2 DEF RatesInv, NoUpdateLost, Held
  <2> QED BY <2>1, <2>2
<1>9. ASSUME NEW r \in Refreshers, task[r].pc \in {"fetch", "validate"}, NEW x \in Read(r)
      PROVE  \/ Merged(task[r].previous, task[r].parsed)[x] = Held(x)'
             \/ provider'[x].stamp >= task[r].now
  <2>1. x \in Obs
    BY <1>9 DEF Read
  <2>2. CASE x = o
    BY <1>1, <1>5, <2>2 DEF RatesInv, Timely
  <2>3. CASE x # o
    <3>1. \/ Merged(task[r].previous, task[r].parsed)[x] = Held(x)
          \/ provider[x].stamp >= task[r].now
      BY <1>9 DEF RatesInv, UpToDate
    <3> QED BY <1>5, <2>1, <2>3, <3>1 DEF Held
  <2> QED BY <2>2, <2>3
<1>10. ASSUME NEW r \in Refreshers PROVE UpToDate(r)'
  BY <1>2, <1>9, <1>10 DEF RatesInv, UpToDate, Read, Merged
<1> QED BY <1>6, <1>7, <1>8, <1>10 DEF RatesInv

\* A refresher outside its refresh, and one whose refresh fails before it accepts anything.
LEMMA WaitingKeeps ==
    ASSUME RatesInv, NEW r \in Refreshers,
           Apply(r) \/ EnsureOpen(r) \/ AlertWriteFails(r) \/ PublishFails(r)
    PROVE  RatesInv'
<1>1. RatesTypeOK
  BY DEF RatesInv
<1>2. UNCHANGED <<provider, up, clock, accepted, state, added, lock>>
  BY DEF Apply, EnsureOpen, AlertWriteFails, PublishFails
<1>3. faults' \in Nat /\ alert' \in BOOLEAN
  <2>1. faults' \in Nat
    BY <1>1 DEF RatesTypeOK, Apply, EnsureOpen, AlertWriteFails, PublishFails
  <2>2. alert' \in BOOLEAN
    BY <1>1, Zenon DEF RatesTypeOK, Apply, EnsureOpen, AlertWriteFails, PublishFails
  <2> QED BY <2>1, <2>2
<1>4. \E pc \in {"idle", "open", "fail"} : Goto(r, pc) /\ (pc = "fail" => task[r].pc = "validate")
  BY DEF Apply, EnsureOpen, AlertWriteFails, PublishFails, At
<1>5. /\ task' \in [Refreshers -> Task] /\ \A q \in Refreshers \ {r} : task'[q] = task[q]
      /\ task'[r].pc \in {"idle", "open", "fail"} /\ task'[r].now = 0
      /\ task'[r].pc = "fail" => task[r].pc = "validate"
  BY <1>1, <1>4, GotoEffect DEF Inside
<1>6. \A q \in Refreshers : task'[q].pc \in Inside => lock' = q
  BY <1>1, <1>2, <1>5 DEF RatesTypeOK, Inside
<1>7. RatesTypeOK'
  BY <1>1, <1>2, <1>3, <1>5, <1>6 DEF RatesTypeOK
<1>8. clock' >= clock /\ 0 <= clock
  BY <1>1, <1>2 DEF RatesTypeOK
<1> QED BY <1>1, <1>2, <1>5, <1>7, <1>8, QuietStep

\* record_not_modified and record_failure leave the accepted set and its validators.
LEMMA RecordKeeps ==
    ASSUME RatesInv, NEW r \in Refreshers, RecordNotModified(r) \/ RecordFailure(r)
    PROVE  RatesInv'
<1>1. RatesTypeOK /\ task[r].pc \in Inside /\ clock \in Nat
  BY DEF RatesInv, RatesTypeOK, RecordNotModified, RecordFailure, At, Inside
<1>2. UNCHANGED <<provider, up, clock, accepted, added, alert, faults>>
  BY DEF RecordNotModified, RecordFailure
<1>3. PICK outcome \in {"notModified", "failed"} : Release(r, outcome)
  BY DEF RecordNotModified, RecordFailure
<1>4. /\ task' \in [Refreshers -> Task] /\ \A q \in Refreshers \ {r} : task'[q] = task[q]
      /\ task'[r].pc \notin Inside /\ task'[r].now = 0
      /\ lock' = Nil /\ \A q \in Refreshers : task'[q].pc \notin Inside
  BY <1>1, <1>3, ReleaseEffect
<1>5. state' \in RefreshState /\ state'.after = state.after
  <2>1. state \in RefreshState
    BY <1>1 DEF RatesTypeOK, RefreshState
  <2>2. state' = Succeeding(state) \/ state' = Failing(state)
    BY DEF RecordNotModified, RecordFailure
  <2> QED BY <2>1, <2>2, StateEffect
<1>6. RatesTypeOK'
  BY <1>1, <1>2, <1>4, <1>5 DEF RatesTypeOK, RefreshState
<1>7. clock' >= clock /\ task'[r].now <= clock
  BY <1>1, <1>2, <1>4
<1> QED BY <1>2, <1>4, <1>5, <1>6, <1>7, QuietStep DEF Inside

\* A restart forgets the refreshes under way.
LEMMA RestartKeeps ==
    ASSUME RatesInv, Restart PROVE RatesInv'
<1>1. RatesTypeOK /\ clock \in Nat
  BY DEF RatesInv, RatesTypeOK
<1>2. Asleep \in Task /\ Asleep.pc = "idle" /\ Asleep.now = 0
  BY NothingRead DEF Asleep, Task
<1>3. /\ task' = [r \in Refreshers |-> Asleep] /\ lock' = Nil /\ faults' = faults + 1
      /\ UNCHANGED <<provider, up, clock, accepted, state, added, alert>>
  BY DEF Restart
<1> HIDE DEF Asleep
<1>4. task' \in [Refreshers -> Task] /\ \A q \in Refreshers : task'[q].pc = "idle" /\ task'[q].now = 0
  BY <1>2, <1>3
<1>5. RatesTypeOK'
  BY <1>1, <1>3, <1>4 DEF RatesTypeOK, Inside
<1>6. clock' >= clock /\ 0 <= clock
  BY <1>1, <1>3
<1> QED BY <1>3, <1>4, <1>5, <1>6, QuietStep

\* The time, the previous set and the validators are read under the lock, and nothing else
\* has been read yet.
LEMMA BeginKeeps ==
    ASSUME RatesInv, NEW r \in Refreshers, Begin(r) PROVE RatesInv'
<1> DEFINE e == [Asleep EXCEPT !.pc = "fetch", !.now = clock, !.previous = accepted,
                               !.after = state.after, !.year = 1]
<1>1. RatesTypeOK /\ clock \in Nat /\ accepted \in RateSets /\ state.after \in Nat
      /\ task \in [Refreshers -> Task]
  BY DEF RatesInv, RatesTypeOK
<1>2. /\ e \in Task /\ e.pc = "fetch" /\ e.now = clock /\ e.previous = accepted
      /\ e.after = state.after /\ e.year = 1 /\ e.parsed = <<>>
  BY <1>1, NothingRead DEF Asleep, Task, Inside
<1>3. /\ lock = Nil /\ lock' = r /\ task' = [task EXCEPT ![r] = e]
      /\ UNCHANGED <<provider, up, clock, accepted, state, added, alert, faults>>
  BY DEF Begin, LockFree
<1> HIDE DEF e
<1>4. task' \in [Refreshers -> Task] /\ task'[r] = e /\ \A q \in Refreshers \ {r} : task'[q] = task[q]
  BY <1>1, <1>2, <1>3
<1>5. \A q \in Refreshers : task[q].pc \notin Inside
  BY <1>1, <1>3, Exclusive
<1>6. RatesTypeOK'
  BY <1>1, <1>3, <1>4, <1>5 DEF RatesTypeOK
<1>7. Published' /\ Timely' /\ NoUpdateLost'
  BY <1>1, <1>2, <1>3, <1>4 DEF RatesInv, Published, Timely, NoUpdateLost
<1>8. UpToDate(r)'
  <2>1. task'[r].pc = "fetch" /\ task'[r].year = 1 /\ task'[r].parsed = <<>>
        /\ task'[r].previous = accepted' /\ task'[r].after = state'.after
    BY <1>2, <1>3, <1>4
  <2>2. Read(r)' = {}
    <3>1. \A o \in Obs : ~(YearOf[o] < 1)
      BY RatesAssumption, FS_CardinalityType
    <3> QED BY <2>1, <3>1 DEF Read
  <2>3. DOMAIN task'[r].parsed = {}
    BY <2>1
  <2> QED BY <2>1, <2>2, <2>3 DEF UpToDate
<1>9. ASSUME NEW q \in Refreshers \ {r} PROVE UpToDate(q)'
  BY <1>4, <1>5 DEF UpToDate, Inside
<1> QED BY <1>6, <1>7, <1>8, <1>9 DEF RatesInv

\* An answer is what the provider holds as it is given.
LEMMA FetchKeeps ==
    ASSUME RatesInv, NEW r \in Refreshers, Fetch(r) PROVE RatesInv'
<1> DEFINE initial == task[r].previous = NoSet
           payload == IF initial THEN YearPayload(task[r].year) ELSE DeltaPayload(task[r].after)
           last == ~initial \/ task[r].year = Cardinality(Years)
           parsed == [o \in DOMAIN task[r].parsed \cup payload |->
                         IF o \in payload THEN Answer(o) ELSE task[r].parsed[o]]
           year == IF last THEN task[r].year ELSE task[r].year + 1
           pc == IF last THEN "validate" ELSE "fetch"
           e == [task[r] EXCEPT !.parsed = parsed, !.year = year, !.pc = pc]
<1>1. RatesTypeOK /\ task \in [Refreshers -> Task] /\ task[r] \in Task /\ task[r].pc = "fetch"
  BY DEF RatesInv, RatesTypeOK, Fetch, At
<1>2. UNCHANGED <<provider, up, clock, accepted, state, added, alert, lock, faults>>
  BY DEF Fetch
<1>3. lock = r /\ \A q \in Refreshers \ {r} : task[q].pc \notin Inside
  BY <1>1, Exclusive DEF Inside
<1>4. CASE \E next \in {"notModified", "fail"} : Goto(r, next)
  <2>1. /\ task' \in [Refreshers -> Task] /\ \A q \in Refreshers \ {r} : task'[q] = task[q]
        /\ task'[r].pc \in {"notModified", "fail"} /\ task'[r].now = 0
    BY <1>1, <1>4, GotoEffect DEF Inside
  <2>2. RatesTypeOK'
    BY <1>1, <1>2, <1>3, <2>1 DEF RatesTypeOK
  <2>3. clock' >= clock /\ 0 <= clock
    BY <1>1, <1>2 DEF RatesTypeOK
  <2> QED BY <1>2, <2>1, <2>2, <2>3, QuietStep
<1>5. CASE task' = [task EXCEPT ![r] = e]
  <2>1. payload \subseteq Obs
    BY DEF YearPayload, DeltaPayload
  <2>2. ASSUME NEW o \in Obs
        PROVE  /\ Answer(o) \in [version : Versions, deleted : BOOLEAN]
               /\ Answer(o).version = provider[o].version
               /\ Answer(o).deleted <=> ~provider[o].live
    BY <1>1 DEF RatesTypeOK, Answer
  <2>3. parsed \in Answers
    <3>1. PICK asked \in SUBSET Obs : task[r].parsed \in [asked -> [version : Versions, deleted : BOOLEAN]]
      BY <1>1 DEF Task, Answers
    <3>2. parsed \in [asked \cup payload -> [version : Versions, deleted : BOOLEAN]]
      BY <2>1, <2>2, <3>1
    <3> QED BY <2>1, <3>2 DEF Answers
  <2>4. year \in Nat
    BY <1>1 DEF Task
  <2>5. pc \in {"fetch", "validate"}
    OBVIOUS
  <2> HIDE DEF parsed, year, pc
  <2>6. /\ e \in Task /\ e.pc = pc /\ e.parsed = parsed /\ e.year = year /\ e.now = task[r].now
        /\ e.previous = task[r].previous /\ e.after = task[r].after
    BY <1>1, <2>3, <2>4, <2>5 DEF Task, Inside
  <2> HIDE DEF e
  <2>7. task' \in [Refreshers -> Task] /\ task'[r] = e /\ \A q \in Refreshers \ {r} : task'[q] = task[q]
    BY <1>1, <1>5, <2>6
  <2>8. RatesTypeOK'
    BY <1>1, <1>2, <1>3, <2>7 DEF RatesTypeOK
  <2>9. Published' /\ Timely' /\ NoUpdateLost'
    BY <1>2, <2>6, <2>7 DEF RatesInv, Published, Timely, NoUpdateLost
  <2>10. ASSUME NEW q \in Refreshers \ {r} PROVE UpToDate(q)'
    BY <1>3, <2>7 DEF UpToDate, Inside
  <2>11. UpToDate(r)'
    <3>1. UpToDate(r) /\ task[r].pc = "fetch"
      BY <1>1 DEF RatesInv
    <3>2. Read(r)' = Read(r) \cup {o \in Obs : initial => YearOf[o] = task[r].year}
      <4>1. Read(r) = IF initial THEN {o \in Obs : YearOf[o] < task[r].year} ELSE {}
        BY <3>1 DEF Read
      <4>2. Read(r)' = IF pc = "validate" THEN Obs
                       ELSE IF initial THEN {o \in Obs : YearOf[o] < year} ELSE {}
        BY <2>6, <2>7 DEF Read
      <4>3. task[r].year \in Nat /\ Cardinality(Years) \in Nat
            /\ \A o \in Obs : YearOf[o] \in Nat /\ YearOf[o] <= Cardinality(Years)
        <5>1. Cardinality(Years) \in Nat
          BY RatesAssumption, FS_CardinalityType
        <5> QED BY <1>1, <5>1, RatesAssumption DEF Task
      <4>4. CASE ~last
        <5>1. pc = "fetch" /\ year = task[r].year + 1 /\ initial
          BY <4>4 DEF pc, year
        <5> QED BY <4>1, <4>2, <4>3, <5>1
      <4>5. CASE last
        <5>1. pc = "validate"
          BY <4>5 DEF pc
        <5> QED BY <4>1, <4>2, <4>3, <4>5, <5>1
      <4> QED BY <4>4, <4>5
    <3>3. DOMAIN parsed = DOMAIN task[r].parsed \cup payload
      BY DEF parsed
    <3>4. payload \subseteq {o \in Obs : initial => YearOf[o] = task[r].year}
      BY DEF YearPayload, DeltaPayload
    <3>5. DOMAIN parsed \subseteq Read(r)'
      BY <3>1, <3>2, <3>3, <3>4 DEF UpToDate
    <3>6. ASSUME NEW o \in Read(r)'
          PROVE  \/ Merged(task[r].previous, parsed)[o] = Held(o)
                 \/ provider[o].stamp >= task[r].now
      <4>1. o \in Obs
        BY <3>2, <3>6 DEF Read
      <4>2. CASE o \in payload
        <5>1. parsed[o] = Answer(o) /\ o \in DOMAIN parsed
          BY <4>2 DEF parsed
        <5> QED BY <2>2, <4>1, <5>1 DEF Merged, Held
      <4>3. CASE o \notin payload /\ o \in Read(r)
        <5>1. /\ o \in DOMAIN parsed <=> o \in DOMAIN task[r].parsed
              /\ o \in DOMAIN parsed => parsed[o] = task[r].parsed[o]
          BY <4>3 DEF parsed
        <5>2. Merged(task[r].previous, parsed)[o] = Merged(task[r].previous, task[r].parsed)[o]
          BY <4>1, <5>1 DEF Merged
        <5> QED BY <3>1, <4>3, <5>2 DEF UpToDate
      <4>4. CASE o \notin payload /\ o \notin Read(r)
        <5>1. o \notin DOMAIN parsed
          BY <3>1, <3>3, <4>4 DEF UpToDate
        <5>2. Merged(task[r].previous, parsed)[o] = IF initial THEN 0 ELSE accepted[o]
          BY <3>1, <4>1, <5>1 DEF Merged, UpToDate
        <5>3. CASE initial
          <6>1. YearOf[o] = task[r].year
            BY <3>2, <3>6, <4>4, <5>3
          <6>2. ~provider[o].live
            BY <4>1, <4>4, <5>3, <6>1 DEF YearPayload
          <6> QED BY <5>2, <5>3, <6>2 DEF Held
        <5>4. CASE ~initial
          <6>1. ~(provider[o].stamp >= task[r].after)
            BY <4>1, <4>4, <5>4 DEF RatesInv, Published, DeltaPayload
          <6>2. accepted # NoSet /\ task[r].after = state.after
            BY <3>1, <5>4 DEF UpToDate
          <6>3. accepted[o] = Held(o)
            BY <4>1, <6>1, <6>2 DEF RatesInv, NoUpdateLost, Held
          <6> QED BY <5>2, <5>4, <6>3
        <5> QED BY <5>3, <5>4
      <4> QED BY <4>2, <4>3, <4>4
    <3>7. /\ task'[r].previous = task[r].previous /\ task'[r].parsed = parsed
          /\ task'[r].now = task[r].now /\ task'[r].after = task[r].after
      BY <2>6, <2>7
    <3>8. \A o \in Read(r)' : \/ Merged(task'[r].previous, task'[r].parsed)[o] = Held(o)'
                              \/ provider'[o].stamp >= task'[r].now
      BY <1>2, <3>6, <3>7 DEF Held
    <3>9. task'[r].previous = accepted' /\ task'[r].after = state'.after
      BY <1>2, <3>1, <3>7 DEF UpToDate
    <3>10. Merged(task[r].previous, task[r].parsed)' = Merged(task'[r].previous, task'[r].parsed)
      BY DEF Merged
    <3> QED BY <3>5, <3>7, <3>8, <3>9, <3>10 DEF UpToDate
  <2> QED BY <2>8, <2>9, <2>10, <2>11 DEF RatesInv
<1> QED BY <1>4, <1>5 DEF Fetch

\* publish_set: what was read becomes the accepted set, and the time it was read from the
\* next updatedAfter.
LEMMA ValidateKeeps ==
    ASSUME RatesInv, NEW r \in Refreshers, Validate(r) PROVE RatesInv'
<1> DEFINE rates == Merged(task[r].previous, task[r].parsed)
<1>1. RatesTypeOK /\ task[r] \in Task /\ task[r].pc = "validate" /\ clock \in Nat
      /\ task[r].now \in Nat /\ task[r].now <= clock
  BY DEF RatesInv, RatesTypeOK, Timely, Validate, At, Task
<1>2. UNCHANGED <<provider, up, clock, added, alert, faults>>
  BY DEF Validate
<1>3. lock = r /\ \A q \in Refreshers \ {r} : task[q].pc \notin Inside
  BY <1>1, Exclusive DEF Inside
<1>4. CASE \E pc \in {"fail", "notModified"} : Goto(r, pc) /\ UNCHANGED <<accepted, state, lock>>
  <2>1. /\ task' \in [Refreshers -> Task] /\ \A q \in Refreshers \ {r} : task'[q] = task[q]
        /\ task'[r].pc \in {"fail", "notModified"} /\ task'[r].now = 0
    BY <1>1, <1>4, GotoEffect DEF Inside
  <2>2. RatesTypeOK'
    BY <1>1, <1>2, <1>3, <1>4, <2>1 DEF RatesTypeOK
  <2>3. clock' >= clock /\ 0 <= clock
    BY <1>1, <1>2
  <2> QED BY <1>1, <1>2, <1>4, <2>1, <2>2, <2>3, QuietStep
<1>5. CASE /\ accepted' = rates
           /\ state' = [Succeeding(state) EXCEPT !.after = UpdatedAfter(r)]
           /\ Release(r, "published")
  <2>1. /\ task' \in [Refreshers -> Task] /\ \A q \in Refreshers \ {r} : task'[q] = task[q]
        /\ task'[r].pc \notin Inside /\ task'[r].now = 0
        /\ lock' = Nil /\ \A q \in Refreshers : task'[q].pc \notin Inside
    BY <1>1, <1>5, ReleaseEffect DEF Inside
  <2>2. rates \in [Obs -> Versions]
    <3>1. PICK asked \in SUBSET Obs : task[r].parsed \in [asked -> [version : Versions, deleted : BOOLEAN]]
      BY <1>1 DEF Task, Answers
    <3>2. 0 \in Versions
      BY RatesAssumption DEF Versions
    <3>3. ASSUME NEW o \in Obs, task[r].previous # NoSet PROVE task[r].previous[o] \in Versions
      BY <1>1, <3>3 DEF Task, RateSets
    <3> QED BY <3>1, <3>2, <3>3 DEF Merged
  <2>3. state' \in RefreshState /\ state'.after = task[r].now
    <3>1. Succeeding(state) \in RefreshState
      BY <1>1, StateEffect DEF RatesTypeOK, RefreshState
    <3> QED BY <1>1, <1>5, <3>1 DEF RefreshState, UpdatedAfter
  <2>4. RatesTypeOK'
    BY <1>1, <1>2, <1>5, <2>1, <2>2, <2>3 DEF RatesTypeOK, RateSets, RefreshState
  <2>5. Published'
    BY <1>2 DEF RatesInv, Published
  <2>6. Timely'
    BY <1>1, <1>2, <2>1, <2>3 DEF RatesInv, Timely
  <2>7. NoUpdateLost'
    <3>1. ASSUME NEW o \in Obs
          PROVE  rates[o] = Held(o) \/ provider[o].stamp >= task[r].now
      BY <1>1 DEF RatesInv, UpToDate, Read
    <3> QED BY <1>2, <1>5, <2>3, <3>1 DEF NoUpdateLost, Held
  <2>8. ASSUME NEW q \in Refreshers PROVE UpToDate(q)'
    BY <2>1 DEF UpToDate, Inside
  <2> QED BY <2>4, <2>5, <2>6, <2>7, <2>8 DEF RatesInv
<1> QED BY <1>4, <1>5 DEF Validate

\* The invariant holds throughout.
LEMMA RatesInvariant == Spec => []RatesInv
<1>1. Init => RatesInv
  <2> SUFFICES ASSUME Init PROVE RatesInv
    OBVIOUS
  <2>1. Asleep \in Task /\ Asleep.pc = "idle" /\ Asleep.now = 0
    BY NothingRead DEF Asleep, Task
  <2>2. task = [r \in Refreshers |-> Asleep]
    BY DEF Init
  <2> HIDE DEF Asleep
  <2>3. task \in [Refreshers -> Task] /\ \A r \in Refreshers : task[r].pc = "idle" /\ task[r].now = 0
    BY <2>1, <2>2
  <2>4. RatesTypeOK
    <3>1. [o \in Obs |-> [version |-> 1, live |-> TRUE, stamp |-> 0]]
              \in [Obs -> [version : Versions, live : BOOLEAN, stamp : Nat]]
      BY RatesAssumption DEF Versions
    <3>2. up \in BOOLEAN /\ alert \in BOOLEAN /\ state \in [failing : BOOLEAN, retries : 0..2, after : Nat]
      <4>1. up \in BOOLEAN /\ alert \in BOOLEAN
        BY Zenon DEF Init
      <4>2. state \in [failing : BOOLEAN, retries : 0..2, after : Nat]
        BY DEF Init
      <4> QED BY <4>1, <4>2
    <3>3. provider \in [Obs -> [version : Versions, live : BOOLEAN, stamp : Nat]]
      BY <3>1 DEF Init
    <3>4. added \in [Approved -> {"absent", "enabled", "disabled"}]
      BY DEF Init
    <3> QED BY <2>3, <3>2, <3>3, <3>4, NothingRead DEF Init, RatesTypeOK, Inside
  <2>5. Published /\ NoUpdateLost
    BY DEF Init, Published, NoUpdateLost
  <2>6. Timely
    BY <2>3 DEF Init, Timely
  <2>7. \A r \in Refreshers : UpToDate(r)
    BY <2>3 DEF UpToDate
  <2> QED BY <2>4, <2>5, <2>6, <2>7 DEF RatesInv
<1>2. RatesInv /\ [Next]_vars => RatesInv'
  <2> SUFFICES ASSUME RatesInv, [Next]_vars PROVE RatesInv'
    OBVIOUS
  <2>1. CASE UNCHANGED vars
    BY <2>1 DEF vars, RatesInv, RatesTypeOK, Published, Timely, NoUpdateLost, UpToDate, Read,
       Merged, Held
  <2>2. ASSUME NEW r \in Refreshers, Proceed(r) PROVE RatesInv'
    BY <2>2, FetchKeeps, ValidateKeeps, RecordKeeps, WaitingKeeps DEF Proceed
  <2> QED
    BY <2>1, <2>2, BeginKeeps, EnvironmentKeeps, ProviderWritesKeeps, WaitingKeeps, RestartKeeps
    DEF Next
<1> QED BY <1>1, <1>2, PTL DEF Spec

-----------------------------------------------------------------------------
(* The theorems.                                                                *)

\* Types hold in every reachable state, and only the holder of the lock is inside a refresh:
\* a refresh releases it in the write that ends it, and a restart forgets both.
THEOREM RatesTypes == Spec => []RatesTypeOK
<1>1. RatesInv => RatesTypeOK
  BY DEF RatesInv
<1> QED BY <1>1, RatesInvariant, PTL

\* What the accepted set does not hold as the provider has it will be answered to the next
\* request, in every reachable state (NoUpdateLost): the next updatedAfter is the time read
\* before the first request, and a failure leaves it where it was.
THEOREM NothingIsLost == Spec => []NoUpdateLost
<1>1. RatesInv => NoUpdateLost
  BY DEF RatesInv
<1> QED BY <1>1, RatesInvariant, PTL

=============================================================================
