---------------------------- MODULE RecurringLedger ----------------------------
(***************************************************************************)
(* RecurringOccurrences keeps the promise of OccurrenceLedger, and makes   *)
(* progress: the refinement mapping, the fairness of the workers and what  *)
(* must then eventually happen.                                            *)
(***************************************************************************)
EXTENDS RecurringOccurrences

StateOf(s) ==
    IF sources[s].lifecycle \in {"none", "active", "paused"} THEN sources[s].lifecycle
    ELSE "ended"

\* The occurrences' dates by fulfillment position.
DatesOf(s) ==
    [p \in 1..Cardinality(occurrences[s]) |->
        (CHOOSE o \in occurrences[s] : o.position = p).at]

Ledger == INSTANCE OccurrenceLedger
            WITH Dates  <- (0..MaxClock) \union {d.first : d \in Drafts},
                 Totals <- {d.total : d \in Drafts} \union EditTotals,
                 state  <- [s \in Sources |-> StateOf(s)],
                 total  <- [s \in Sources |-> sources[s].total],
                 ledger <- [s \in Sources |-> DatesOf(s)]

\* The recurring transactions' occurrences, counts, totals and lifecycles are
\* a ledger of the abstract specification: only appended to, in calendar
\* order, only while active, up to the total and final once ended; what was not
\* adopted is dated on a day of the clock.
KeepsLedger == Ledger!Spec

-----------------------------------------------------------------------------
(***************************************************************************)
(* A command in progress and the supervisor's loop are tasks that go on    *)
(* running; a client need not issue a command, the clock may stand still   *)
(* and faults need not happen. Among the tasks the executor and the queue  *)
(* of the writer thread, which is first in first out, leave none behind.   *)
(***************************************************************************)
Fairness ==
    /\ WF_vars(Process(Supervisor))
    /\ \A c \in Clients : WF_vars(Process(c) \/ Proceed(c))

FairSpec == Spec /\ Fairness

\* A restored source whose last position is recorded but not counted: the table's CHECK
\* refuses to heal it, and that error ends every slice, whatever source it is for.
Jammed == \E s \in Sources : Eligible(s, clock) /\ FulfilledAtHead(s) # {} /\ HealFails(s)

\* A due occurrence of an active recurring transaction is generated, parked
\* or given up with its source: none stays due for ever, whatever backlog or
\* stale head the application finds when it starts, unless that jams it.
EverythingDueIsHandled ==
    \A s \in Sources : Eligible(s, clock) ~> ~Eligible(s, clock) \/ Jammed

\* A lifecycle command ends, however its catch-up interleaves with the
\* supervisor's slices and the commands of others.
LifecycleCommandsEnd ==
    \A c \in Clients : Pc(c) \in {"catchUp", "recheck", "reread", "lifecycle"} ~> Pc(c) = "idle"

\* A repaired failure is retried until it is fulfilled, parked again or its
\* source given up, also when the process ends between the repair and its
\* retry, unless the clock is set back before its slot.
Awaited(s) ==
    /\ sources[s].lifecycle = "active" /\ heads[s].next <= clock
    /\ \E f \in Unresolved(s) : f.repaired

RepairedIsRetried == \A s \in Sources : Awaited(s) ~> ~Awaited(s) \/ Jammed
=============================================================================
