-------------------------- MODULE RecurringSupervisor --------------------------
(***************************************************************************)
(* The background supervisor of recurring transactions                     *)
(* (crates/core/src/features/recurring_transactions/supervisor.rs and      *)
(* supervisor_rearm.rs): one task that waits for a wake-up or a timer,     *)
(* coalesces wake-ups, runs one processing slice from a frozen observation *)
(* of the clock, keeps the durable "processing delayed" alert, and stops   *)
(* between two occurrences when the application shuts down.                *)
(*                                                                         *)
(* Time is counted in ticks. What is due is one head: the earliest one of  *)
(* an active recurring transaction that is not blocked. Its time is kept   *)
(* relative to the clock, and the run's observation as how far it is       *)
(* behind, so that the states stay finite while time passes.               *)
(***************************************************************************)
EXTENDS Integers, FiniteSetsExt

CONSTANTS CoalesceWindow,  \* WAKE_COALESCE_WINDOW
          FallbackWake,    \* CLOCK_FALLBACK_WAKE
          DelayRearm,      \* TRANSIENT_DELAY_REARM
          SliceRearm,      \* SLICE_REARM
          Period,          \* ticks from one occurrence to the next
          Jumps,           \* by how much the wall clock may be set, forth or back
          MaxOverdue,      \* bound: how far overdue a head is told apart
          MaxRun,          \* bound: how long a run may take
          MaxChanges,      \* bound: commands that change what is due
          MaxFaults        \* bound: failures, contention, clock jumps

ASSUME SupervisorAssumption ==
    /\ {CoalesceWindow, FallbackWake, DelayRearm, SliceRearm, Period} \subseteq Nat \ {0}
    /\ Jumps \subseteq Nat
    /\ Period > CoalesceWindow + FallbackWake + MaxRun  \* days, not minutes
    /\ {MaxOverdue, MaxRun, MaxChanges, MaxFaults} \subseteq Nat

VARIABLES
    pc,        \* where the task is
    permit,    \* the stored permit of the wake Notify
    received,  \* wake_received_during_sleep
    shutdown,  \* the shutdown flag
    status,    \* "idle", "updating" or "delayed"
    timer,     \* ticks until the deadline of a sleep
    alert,     \* the "processing delayed" alert is open
    active,    \* some recurring transaction may generate
    until,     \* its head's time minus the clock
    lag,       \* the clock minus the run's observation, during a run
    waking,    \* commands that have committed and will request a wake-up
    changes, faults,  \* counters for the bounds
    owed,      \* history: a delay whose alert could not be written
    awaited,   \* history: the sleep was set for the head, undisturbed since
    last       \* history: occurrences committed since shutdown was requested

due  == <<active, until>>
DueAtObservation == active /\ until + lag <= 0
wake == <<permit, waking, changes>>
vars == <<pc, permit, received, shutdown, status, timer, alert, active, until,
          lag, waking, changes, faults, owed, awaited, last>>

Goto(place) == pc' = place

\* publish_shutdown: the loop is left.
Stop == Goto("stopped") /\ status' = "idle"

MustStop == shutdown

StopOr(place) == IF MustStop THEN Stop ELSE Goto(place) /\ UNCHANGED status

\* A failure takes one of the bounded faults.
Fault == faults < MaxFaults /\ faults' = faults + 1

-----------------------------------------------------------------------------
(***************************************************************************)
(* run(): the top of the loop, coalesce_wakes and sleep_or_wake. Only the  *)
(* stored permit ends a wait early: the branches for the shutdown          *)
(* notification are disabled unless the flag was set before the wait.      *)
(***************************************************************************)
Top ==
    /\ pc = "top"
    /\ IF MustStop THEN Stop /\ UNCHANGED timer
       ELSE /\ Goto(IF received THEN "window" ELSE "await")
            /\ timer' = IF received THEN CoalesceWindow ELSE 0
            /\ UNCHANGED status
    /\ UNCHANGED <<received, shutdown, alert, due, lag, wake, faults, owed, awaited, last>>

FirstWake ==
    /\ pc = "await"
    /\ permit
    /\ permit' = FALSE
    /\ timer' = CoalesceWindow
    /\ StopOr("window")
    /\ UNCHANGED <<received, shutdown, alert, due, lag, waking, changes,
                   faults, owed, awaited, last>>

\* Another wake-up within the window is absorbed by the run to come.
Coalesce ==
    /\ pc = "window"
    /\ permit
    /\ permit' = FALSE
    /\ StopOr("window")
    /\ UNCHANGED <<received, shutdown, timer, alert, due, lag, waking, changes, faults, owed, awaited, last>>

WindowEnds ==
    /\ pc = "window"
    /\ timer = 0
    /\ StopOr("begin")
    /\ UNCHANGED <<received, shutdown, timer, alert, due, lag, wake, faults, owed,
                   awaited, last>>

\* Mutant: the permit that ended the sleep is taken for a timer's end.
WakeEndsSleepUnnoticed == received' = FALSE

\* sleep_or_wake returns true for a timer's end as for a wake-up.
SleepEnded == received' = TRUE

SleepEnds ==
    /\ pc = "sleep"
    /\ \/ timer = 0 /\ UNCHANGED permit
       \/ permit /\ permit' = FALSE
    /\ SleepEnded
    /\ awaited' = FALSE
    /\ Goto("top")
    /\ UNCHANGED <<shutdown, status, timer, alert, due, lag, waking, changes, faults, owed, last>>

-----------------------------------------------------------------------------
(***************************************************************************)
(* execute_run: the observation, the alert of an earlier delay, the slice. *)
(***************************************************************************)
WasDelayed == status = "delayed"

BeginRun ==
    /\ pc = "begin"
    /\ lag' = 0
    /\ status' = "updating"
    /\ Goto(IF WasDelayed THEN "ensure" ELSE "slice")
    /\ UNCHANGED <<permit, received, shutdown, timer, alert, due, waking, changes,
                   faults, owed, awaited, last>>

\* ensure_open of the alert: written, or failed and owed.
RaiseAlert ==
    \/ alert' = TRUE /\ owed' = FALSE /\ UNCHANGED faults
    \/ Fault /\ owed' = TRUE /\ UNCHANGED alert

\* After a delay the run first makes sure of the alert, and gives up if it
\* cannot.
EnsureAlert ==
    /\ pc = "ensure"
    /\ RaiseAlert
    /\ Goto(IF owed' THEN "delayed" ELSE "slice")
    /\ UNCHANGED <<received, shutdown, status, timer, due, lag, wake, awaited, last>>

\* Mutant: a slice runs to its end.
NeverCancelled == FALSE

Cancelled == shutdown

\* Between two occurrences run_processing_slice looks at the flag.
BetweenOccurrences ==
    /\ pc = "slice"
    /\ Goto(IF Cancelled THEN "caughtUp" ELSE "occurrence")
    /\ UNCHANGED <<received, shutdown, status, timer, alert, due, lag, wake, faults,
                   owed, awaited, last>>

\* process_one_due_occurrence found one; it was the last one, or was parked,
\* or is followed by another. The budget may end the slice afterwards.
Occurrence ==
    /\ pc = "occurrence"
    /\ DueAtObservation
    /\ \/ until' = until + Period /\ UNCHANGED active
       \/ active' = FALSE /\ until' = 0
    /\ last' = IF shutdown THEN last + 1 ELSE last
    /\ UNCHANGED <<received, shutdown, status, timer, alert, lag, wake, faults, owed,
                   awaited>>
    /\ \/ Goto("slice")
       \/ Goto(IF DueAtObservation' THEN "exhausted" ELSE "resolve")

NothingDue ==
    /\ pc = "occurrence"
    /\ ~DueAtObservation
    /\ Goto("resolve")
    /\ UNCHANGED <<received, shutdown, status, timer, alert, due, lag, wake, faults,
                   owed, awaited, last>>

\* The database stayed busy or failed; the delay is made visible.
Delay ==
    /\ pc = "occurrence"
    /\ Fault
    /\ Goto("raise")
    /\ UNCHANGED <<received, shutdown, status, timer, alert, due, lag, wake, owed,
                   awaited, last>>

RaiseDelay ==
    /\ pc = "raise"
    /\ RaiseAlert
    /\ Goto("delayed")
    /\ UNCHANGED <<received, shutdown, status, timer, due, lag, wake, awaited, last>>

\* Mutant: a failure to resolve the alert is ignored.
AlwaysCaughtUp(failed) == "caughtUp"

AfterResolving(failed) == IF failed THEN "delayed" ELSE "caughtUp"

\* reconcile_delay_alert, once the backlog is worked off.
ResolveAlert ==
    /\ pc = "resolve"
    /\ \/ alert' = FALSE /\ Goto(AfterResolving(FALSE)) /\ UNCHANGED faults
       \/ Fault /\ Goto(AfterResolving(TRUE)) /\ UNCHANGED alert
    /\ UNCHANGED <<received, shutdown, status, timer, due, lag, wake, owed, awaited, last>>

-----------------------------------------------------------------------------
(***************************************************************************)
(* After the run: how long to sleep.                                       *)
(***************************************************************************)
SleepFor(ticks, as) == Goto("sleep") /\ timer' = ticks /\ status' = as

RearmAfterDelay ==
    /\ pc = "delayed"
    /\ IF MustStop THEN Stop /\ UNCHANGED timer ELSE SleepFor(DelayRearm, "delayed")
    /\ awaited' = FALSE
    /\ UNCHANGED <<received, shutdown, alert, due, lag, wake, faults, owed, last>>

RearmForBacklog ==
    /\ pc = "exhausted"
    /\ IF MustStop THEN Stop /\ UNCHANGED timer ELSE SleepFor(SliceRearm, "idle")
    /\ awaited' = FALSE
    /\ UNCHANGED <<received, shutdown, alert, due, lag, wake, faults, owed, last>>

\* next_wait_duration: until the earliest head after the clock, at most the
\* fallback. A head already due is not "after", so it waits for the fallback.
NextWait == IF active /\ until > 0 THEN Min({until, FallbackWake}) ELSE FallbackWake

RearmForNextHead ==
    /\ pc = "caughtUp"
    /\ IF MustStop THEN Stop /\ UNCHANGED <<timer, awaited>>
       ELSE SleepFor(NextWait, "idle") /\ awaited' = (active /\ until > 0)
    /\ UNCHANGED <<received, shutdown, alert, due, lag, wake, faults, owed, last>>

\* The head could not be looked up: a delay like any other.
LookupFails ==
    /\ pc = "caughtUp"
    /\ ~shutdown
    /\ faults < MaxFaults
    /\ \/ alert' = TRUE /\ owed' = FALSE /\ faults' = faults + 1
       \/ faults + 1 < MaxFaults /\ owed' = TRUE /\ faults' = faults + 2 /\ UNCHANGED alert
    /\ SleepFor(DelayRearm, "delayed")
    /\ awaited' = FALSE
    /\ UNCHANGED <<received, shutdown, due, lag, wake, last>>

-----------------------------------------------------------------------------
(***************************************************************************)
(* Commands, shutdown and time.                                            *)
(***************************************************************************)
\* A command commits a change of what is due (a new recurring transaction,
\* an edit, a resume, a retry) and only then requests the wake-up.
CommandCommits ==
    /\ changes < MaxChanges
    /\ changes' = changes + 1
    /\ waking' = waking + 1
    /\ \/ active' = FALSE /\ until' = 0
       \/ active' = TRUE /\ until' \in -1..FallbackWake + 1
    /\ awaited' = FALSE
    /\ UNCHANGED <<pc, permit, received, shutdown, status, timer, alert, lag,
                   faults, owed, last>>

RequestWake ==
    /\ waking > 0
    /\ waking' = waking - 1
    /\ permit' = TRUE
    /\ UNCHANGED <<pc, received, shutdown, status, timer, alert, due, lag, changes,
                   faults, owed, awaited, last>>

\* request_shutdown also stores a permit, so that a wait sees the flag.
RequestShutdown ==
    /\ ~shutdown
    /\ shutdown' = TRUE
    /\ permit' = TRUE
    /\ UNCHANGED <<pc, received, status, timer, alert, due, lag, waking, changes,
                   faults, owed, awaited, last>>

Waiting == pc \in {"window", "sleep"}
InRun   == pc \notin {"top", "await", "window", "begin", "sleep", "stopped"}

\* The head's time after the clock moved: more overdue than MaxOverdue is
\* all the same.
Later(ticks) == IF active THEN Max({until - ticks, -MaxOverdue}) ELSE until

\* A timer that has run out ends its wait before more time passes; a run
\* takes some time, the steps around it none.
Tick ==
    /\ Waiting => timer > 0
    /\ InRun => lag < MaxRun
    /\ pc \notin {"top", "begin", "stopped"}
    /\ timer' = IF Waiting THEN timer - 1 ELSE timer
    /\ until' = Later(1)
    /\ lag' = IF InRun THEN lag + 1 ELSE lag
    /\ UNCHANGED <<pc, received, shutdown, status, alert, active, wake, faults,
                   owed, awaited, last>>

\* The wall clock or its time zone is set; timers run on.
SetClock ==
    /\ Fault
    /\ pc # "stopped"
    /\ \E jump \in Jumps \union {-jump : jump \in Jumps} :
         /\ until' = Later(jump)
         /\ lag' = IF InRun THEN lag + jump ELSE lag
    /\ awaited' = FALSE
    /\ UNCHANGED <<pc, received, shutdown, status, timer, alert, active, wake, owed, last>>

-----------------------------------------------------------------------------
\* spawn() requests the first wake-up itself.
Init ==
    /\ pc = "top" /\ permit = TRUE /\ received = FALSE /\ shutdown = FALSE
    /\ status = "idle" /\ timer = 0 /\ alert \in BOOLEAN
    /\ active \in BOOLEAN /\ until \in (IF active THEN {-MaxOverdue} \union -1..1 ELSE {0}) /\ lag = 0
    /\ waking = 0 /\ changes = 0 /\ faults = 0
    /\ owed = FALSE /\ awaited = FALSE /\ last = 0

Supervise ==
    \/ Top \/ FirstWake \/ Coalesce \/ WindowEnds \/ SleepEnds
    \/ BeginRun \/ EnsureAlert \/ BetweenOccurrences \/ Occurrence \/ NothingDue
    \/ Delay \/ RaiseDelay \/ ResolveAlert
    \/ RearmAfterDelay \/ RearmForBacklog \/ RearmForNextHead \/ LookupFails

Next ==
    \/ Supervise
    \/ CommandCommits \/ RequestWake \/ RequestShutdown
    \/ Tick \/ SetClock

Spec == Init /\ [][Next]_vars

\* The task and a command that has committed go on, and time passes.
FairSpec == Spec /\ WF_vars(Supervise) /\ WF_vars(RequestWake) /\ WF_vars(Tick)

-----------------------------------------------------------------------------
\* The types: no timer is set for longer than the longest of the waits the
\* code names, the 60 s fallback included (next_wait_duration).
TypeOK ==
    /\ pc \in {"top", "await", "window", "begin", "ensure", "slice", "occurrence",
               "raise", "resolve", "delayed", "exhausted", "caughtUp", "sleep", "stopped"}
    /\ {permit, received, shutdown, alert, active, owed, awaited} \subseteq BOOLEAN
    /\ status \in {"idle", "updating", "delayed"}
    /\ timer \in 0..Max({CoalesceWindow, FallbackWake, DelayRearm, SliceRearm})
    /\ until \in Int /\ lag \in Int
    /\ waking \in 0..MaxChanges /\ changes \in 0..MaxChanges
    /\ faults \in 0..MaxFaults /\ last \in Nat

\* Shutdown stops between occurrences: at most the one in flight is still
\* committed (supervisor_tests.rs, shutdown_cancels_between_commits).
StopsBetweenOccurrences == last <= 1

\* Idle after catching up means no stale alert: the status a client reads and
\* the durable alert agree while the supervisor sleeps.
NoStaleAlert == pc = "sleep" /\ awaited => (status = "idle" /\ ~alert)

\* What is due is taken up, also after delays, clock jumps and changes that
\* were committed while a run was on.
DueIsTakenUp == active /\ until <= 0 ~> ~active \/ until > 0 \/ pc = "stopped"

=============================================================================
