----------------------- MODULE RecurringSupervisorProofs -----------------------
(***************************************************************************)
(* The safety of the supervisor, for every length of its waits, every      *)
(* period and every bound of the exploration: a shutdown lets at most the  *)
(* occurrence in flight commit, and no stale alert is left open over a     *)
(* sleep that follows a catch-up.                                          *)
(***************************************************************************)
EXTENDS RecurringSupervisor, TLAPS

-----------------------------------------------------------------------------
(***************************************************************************)
(* The least and the largest member of a finite set of numbers.            *)
(***************************************************************************)

\* Max of two integers is the larger one: what Later cuts an overdue head to.
LEMMA MaxOfTwo ==
    ASSUME NEW a \in Int, NEW b \in Int
    PROVE  Max({a, b}) = IF a >= b THEN a ELSE b
<1>1. \E m \in {a, b} : \A y \in {a, b} : m >= y
  OBVIOUS
<1> QED BY <1>1 DEF Max

\* Min of two integers is the smaller one: what next_wait_duration takes.
LEMMA MinOfTwo ==
    ASSUME NEW a \in Int, NEW b \in Int
    PROVE  Min({a, b}) = IF a <= b THEN a ELSE b
<1>1. \E m \in {a, b} : \A y \in {a, b} : m <= y
  OBVIOUS
<1> QED BY <1>1 DEF Min

LongestWait == Max({CoalesceWindow, FallbackWake, DelayRearm, SliceRearm})

\* No wait the code names is longer than the longest one.
LEMMA WaitsAreBounded ==
    /\ LongestWait \in Nat
    /\ \A w \in {CoalesceWindow, FallbackWake, DelayRearm, SliceRearm} : w \in 1..LongestWait
<1> DEFINE Waits == {CoalesceWindow, FallbackWake, DelayRearm, SliceRearm}
<1>1. Waits \subseteq Nat \ {0}
  BY SupervisorAssumption
<1>2. \E m \in Waits : \A y \in Waits : m >= y
  <2> DEFINE Larger(a, b) == IF a >= b THEN a ELSE b
             m == Larger(Larger(CoalesceWindow, FallbackWake), Larger(DelayRearm, SliceRearm))
  <2>1. m \in Waits /\ \A y \in Waits : m >= y
    BY <1>1
  <2> QED BY <2>1
<1>3. LongestWait \in Waits /\ \A y \in Waits : LongestWait >= y
  BY <1>2 DEF Max, LongestWait
<1> QED BY <1>1, <1>3

-----------------------------------------------------------------------------
(***************************************************************************)
(* Types.                                                                  *)
(***************************************************************************)

\* A head after the clock moved is still a number.
LEMMA LaterIsInt ==
    ASSUME until \in Int, NEW ticks \in Int PROVE Later(ticks) \in Int
<1>1. MaxOverdue \in Nat
  BY SupervisorAssumption
<1> QED BY <1>1, MaxOfTwo DEF Later

\* The wait for the next head is a wait of at most the fallback.
LEMMA NextWaitIsBounded ==
    ASSUME TypeOK PROVE NextWait \in 0..LongestWait
<1>1. until \in Int /\ FallbackWake \in 1..LongestWait /\ LongestWait \in Nat
  BY WaitsAreBounded DEF TypeOK
<1> QED BY <1>1, MinOfTwo DEF NextWait

\* The types, taken apart, with what keeps them: a wake-up still to be requested belongs
\* to a command that has committed.
Flags ==
    /\ permit \in BOOLEAN /\ received \in BOOLEAN /\ shutdown \in BOOLEAN /\ alert \in BOOLEAN
    /\ active \in BOOLEAN /\ owed \in BOOLEAN /\ awaited \in BOOLEAN

Numbers ==
    /\ timer \in 0..LongestWait
    /\ until \in Int /\ lag \in Int
    /\ changes \in 0..MaxChanges /\ waking \in 0..changes
    /\ faults \in 0..MaxFaults /\ last \in Nat

Places ==
    /\ pc \in {"top", "await", "window", "begin", "ensure", "slice", "occurrence",
               "raise", "resolve", "delayed", "exhausted", "caughtUp", "sleep", "stopped"}
    /\ status \in {"idle", "updating", "delayed"}

Typed == Flags /\ Numbers /\ Places

LEMMA TypedIsTypeOK == Typed => TypeOK
<1> SUFFICES ASSUME Flags, Numbers, Places PROVE TypeOK
  BY DEF Typed
<1>1. {permit, received, shutdown, alert, active, owed, awaited} \subseteq BOOLEAN
  BY Zenon DEF Flags
<1>2. waking \in 0..MaxChanges /\ changes \in 0..MaxChanges
  BY SupervisorAssumption DEF Numbers
<1> QED BY <1>1, <1>2, Zenon DEF TypeOK, Numbers, Places, LongestWait

\* A supervisor that was just spawned.
LEMMA InitTypes == Init => Typed
<1> SUFFICES ASSUME Init PROVE Flags /\ Numbers /\ Places
  BY DEF Typed
<1>1. Flags
  BY Zenon DEF Init, Flags
<1>2. Numbers
  BY SupervisorAssumption, WaitsAreBounded DEF Init, Numbers
<1>3. Places
  BY DEF Init, Places
<1> QED BY <1>1, <1>2, <1>3

\* No step makes a flag anything but a flag ...
LEMMA FlagsStay == Flags /\ [Next]_vars => Flags'
BY ZenonT(40) DEF Flags, Next, Supervise, vars, due, wake, Top, FirstWake, Coalesce, WindowEnds,
   SleepEnds, SleepEnded, BeginRun, EnsureAlert, RaiseAlert, BetweenOccurrences, Occurrence,
   NothingDue, Delay, RaiseDelay, ResolveAlert, RearmAfterDelay, RearmForBacklog,
   RearmForNextHead, LookupFails, CommandCommits, RequestWake, RequestShutdown, Tick, SetClock

\* ... and every step goes to a place the loop has.
LEMMA PlacesStay == Places /\ [Next]_vars => Places'
BY DEF Places, Next, Supervise, vars, due, wake, Top, FirstWake, Coalesce, WindowEnds,
   SleepEnds, BeginRun, EnsureAlert, BetweenOccurrences, Occurrence, NothingDue, Delay,
   RaiseDelay, ResolveAlert, RearmAfterDelay, RearmForBacklog, RearmForNextHead, LookupFails,
   CommandCommits, RequestWake, RequestShutdown, Tick, SetClock,
   Goto, Stop, StopOr, SleepFor, AfterResolving, WasDelayed, MustStop, Cancelled

\* Timers and counters stay within their bounds: a sleep is one of the waits the code
\* names, and a clock jump leaves the head a time.
LEMMA NumbersStay == Typed /\ [Next]_vars => Numbers'
<1> SUFFICES ASSUME Flags, Numbers, Places, TypeOK, [Next]_vars PROVE Numbers'
  BY TypedIsTypeOK DEF Typed
<1>1. /\ Period \in Int /\ MaxRun \in Nat /\ MaxChanges \in Nat /\ MaxFaults \in Nat
      /\ Jumps \subseteq Int /\ FallbackWake \in Nat
  BY SupervisorAssumption
<1>2. /\ LongestWait \in Nat /\ CoalesceWindow \in 0..LongestWait
      /\ DelayRearm \in 0..LongestWait /\ SliceRearm \in 0..LongestWait
  BY WaitsAreBounded
<1> USE <1>1, <1>2 DEF Numbers
<1>3. CASE Supervise
  <2>1. CASE Top \/ FirstWake \/ Coalesce \/ WindowEnds \/ SleepEnds
    BY <2>1 DEF Top, FirstWake, Coalesce, WindowEnds, SleepEnds, due, wake
  <2>2. CASE BeginRun \/ EnsureAlert \/ BetweenOccurrences \/ NothingDue \/ Delay \/ RaiseDelay
    BY <2>2 DEF BeginRun, EnsureAlert, RaiseAlert, BetweenOccurrences, NothingDue, Delay,
       RaiseDelay, Fault, due, wake
  <2>3. CASE Occurrence
    BY <2>3 DEF Occurrence, wake
  <2>4. CASE ResolveAlert
    BY <2>4 DEF ResolveAlert, AfterResolving, Goto, Fault, due, wake
  <2>5. CASE RearmAfterDelay \/ RearmForBacklog \/ RearmForNextHead
    BY <2>5, NextWaitIsBounded DEF RearmAfterDelay, RearmForBacklog, RearmForNextHead,
       SleepFor, due, wake
  <2>6. CASE LookupFails
    BY <2>6 DEF LookupFails, SleepFor, due, wake
  <2> QED BY <1>3, <2>1, <2>2, <2>3, <2>4, <2>5, <2>6 DEF Supervise
<1>4. CASE CommandCommits \/ RequestWake \/ RequestShutdown
  BY <1>4 DEF CommandCommits, RequestWake, RequestShutdown, due
<1>5. CASE Tick
  <2>1. Later(1) \in Int
    BY LaterIsInt
  <2> QED BY <1>5, <2>1 DEF Tick, Waiting, wake, InRun
<1>6. CASE SetClock
  <2>1. PICK jump \in Jumps \union {-jump : jump \in Jumps} :
          until' = Later(jump) /\ lag' = IF InRun THEN lag + jump ELSE lag
    BY <1>6, Zenon DEF SetClock
  <2>2. jump \in Int /\ Later(jump) \in Int
    BY LaterIsInt
  <2> QED BY <1>6, <2>1, <2>2 DEF SetClock, Fault, wake
<1>7. CASE UNCHANGED vars
  BY <1>7 DEF vars, due, wake
<1> QED BY <1>3, <1>4, <1>5, <1>6, <1>7 DEF Next

\* Every variable has its type, and no timer is set for longer than the longest of the
\* waits the code names, in every reachable state (TypeOK).
THEOREM SupervisorTypes == Spec => [](TypeOK /\ Typed)
<1>1. Typed /\ [Next]_vars => Typed'
  BY FlagsStay, NumbersStay, PlacesStay DEF Typed
<1> QED BY InitTypes, <1>1, TypedIsTypeOK, PTL DEF Spec

-----------------------------------------------------------------------------
(***************************************************************************)
(* What makes the two invariants inductive.                                *)
(***************************************************************************)

\* Before the shutdown nothing is counted, and an occurrence is taken up only while
\* nothing has been committed since: the flag is looked at between two of them.
InFlightAtMost ==
    /\ shutdown \/ last = 0
    /\ pc = "occurrence" => last = 0
    /\ last \in {0, 1}

\* A run that has caught up has resolved the alert, unless it was cut short by the
\* shutdown and will not sleep again.
CaughtUpIsClean == pc = "caughtUp" /\ ~shutdown => ~alert

\* Whoever sleeps for the head does so from such a run, and nothing has raised the alert.
AwaitedIsClean == awaited => pc = "sleep" /\ status = "idle" /\ ~alert

SupervisorIInv == Typed /\ InFlightAtMost /\ CaughtUpIsClean /\ AwaitedIsClean

\* Only an occurrence counts, and only one that was entered before the shutdown.
LEMMA InFlightStays == SupervisorIInv /\ [Next]_vars => InFlightAtMost'
<1> SUFFICES ASSUME Flags, SupervisorIInv, [Next]_vars PROVE InFlightAtMost'
  BY DEF SupervisorIInv, Typed
<1> USE DEF InFlightAtMost, SupervisorIInv, Goto, Stop, StopOr, MustStop, SleepFor
<1>1. CASE Occurrence
  BY <1>1 DEF Occurrence
<1>2. CASE BetweenOccurrences
  BY <1>2 DEF BetweenOccurrences, Cancelled
<1>3. CASE Top \/ FirstWake \/ Coalesce \/ WindowEnds \/ SleepEnds \/ BeginRun \/ EnsureAlert
  BY <1>3 DEF Top, FirstWake, Coalesce, WindowEnds, SleepEnds, BeginRun, EnsureAlert
<1>4. CASE NothingDue \/ Delay \/ RaiseDelay \/ ResolveAlert
  BY <1>4 DEF NothingDue, Delay, RaiseDelay, ResolveAlert, AfterResolving
<1>5. CASE RearmAfterDelay \/ RearmForBacklog \/ RearmForNextHead \/ LookupFails
  BY <1>5 DEF RearmAfterDelay, RearmForBacklog, RearmForNextHead, LookupFails
<1>6. CASE CommandCommits \/ RequestWake \/ RequestShutdown \/ Tick \/ SetClock
  BY <1>6 DEF CommandCommits, RequestWake, RequestShutdown, Tick, SetClock
<1>7. CASE UNCHANGED vars
  BY <1>7 DEF vars
<1> QED BY <1>1, <1>2, <1>3, <1>4, <1>5, <1>6, <1>7 DEF Next, Supervise

\* Only resolving the alert ends a run as caught up; every step that raises it leads to
\* a delay.
LEMMA CleanStays == SupervisorIInv /\ [Next]_vars => CaughtUpIsClean' /\ AwaitedIsClean'
<1> SUFFICES ASSUME Flags, SupervisorIInv, [Next]_vars
             PROVE CaughtUpIsClean' /\ AwaitedIsClean'
  BY DEF SupervisorIInv, Typed
<1> USE DEF CaughtUpIsClean, AwaitedIsClean, SupervisorIInv, Goto, Stop, StopOr, MustStop, SleepFor
<1>1. CASE ResolveAlert
  BY <1>1 DEF ResolveAlert, AfterResolving
<1>2. CASE BetweenOccurrences
  BY <1>2 DEF BetweenOccurrences, Cancelled
<1>3. CASE RearmForNextHead
  BY <1>3 DEF RearmForNextHead
<1>4. CASE EnsureAlert \/ RaiseDelay \/ LookupFails
  BY <1>4 DEF EnsureAlert, RaiseDelay, RaiseAlert, LookupFails
<1>5. CASE SleepEnds \/ CommandCommits \/ SetClock
  BY <1>5 DEF SleepEnds, CommandCommits, SetClock
<1>6. CASE Top \/ FirstWake \/ Coalesce \/ WindowEnds \/ BeginRun
  BY <1>6 DEF Top, FirstWake, Coalesce, WindowEnds, BeginRun
<1>7. CASE Occurrence \/ NothingDue \/ Delay
  BY <1>7 DEF Occurrence, NothingDue, Delay
<1>8. CASE RearmAfterDelay \/ RearmForBacklog
  BY <1>8 DEF RearmAfterDelay, RearmForBacklog
<1>9. CASE RequestWake \/ RequestShutdown \/ Tick
  BY <1>9 DEF RequestWake, RequestShutdown, Tick
<1>10. CASE UNCHANGED vars
  BY <1>10 DEF vars
<1> QED BY <1>1, <1>2, <1>3, <1>4, <1>5, <1>6, <1>7, <1>8, <1>9, <1>10 DEF Next, Supervise

LEMMA SupervisorInvariant == Spec => []SupervisorIInv
<1>1. Init => SupervisorIInv
  BY InitTypes DEF Init, SupervisorIInv, InFlightAtMost, CaughtUpIsClean, AwaitedIsClean
<1>2. SupervisorIInv /\ [Next]_vars /\ Typed' => SupervisorIInv'
  BY InFlightStays, CleanStays DEF SupervisorIInv
<1> QED BY <1>1, <1>2, SupervisorTypes, PTL DEF Spec

\* After the shutdown was requested at most the occurrence in flight is committed
\* (StopsBetweenOccurrences): run_processing_slice looks at the flag before each one.
THEOREM ShutdownStops == Spec => []StopsBetweenOccurrences
<1>1. SupervisorIInv => StopsBetweenOccurrences
  BY DEF SupervisorIInv, InFlightAtMost, StopsBetweenOccurrences
<1> QED BY <1>1, SupervisorInvariant, PTL

\* A supervisor that sleeps for the next head reports idle and has left no delay alert
\* open (NoStaleAlert), whatever failed, was committed or shut down before.
THEOREM SleepsWithoutStaleAlert == Spec => []NoStaleAlert
<1>1. SupervisorIInv => NoStaleAlert
  BY DEF SupervisorIInv, AwaitedIsClean, NoStaleAlert
<1> QED BY <1>1, SupervisorInvariant, PTL
=============================================================================
