------------------------------ MODULE WriteActor ------------------------------
(***************************************************************************)
(* The single writer of the database (write_actor.rs): callers put jobs    *)
(* into a bounded queue and wait for the reply; one thread runs the jobs,  *)
(* each in a transaction of its own. What a job does to the database is    *)
(* conjoined by the module that extends this one.                          *)
(***************************************************************************)
EXTENDS Naturals, Sequences

CONSTANTS Callers,      \* the tasks that write
          Capacity,     \* of the queue (WRITE_QUEUE_CAPACITY)
          NoOne,        \* stands for a caller that went away
          Failed        \* the error a caller is told

ASSUME WriteActorAssumption ==
    /\ Capacity \in Nat \ {0}
    /\ NoOne \notin Callers

VARIABLES queue,        \* the messages sent and not yet received by the writer
          running,      \* the message it works on, or NoMessage
          writer,       \* its thread: running or stopped
          calls         \* the call of each caller

writerVars == <<queue, running, writer, calls>>

Idle == [pc |-> "idle"]
NoMessage == [caller |-> NoOne, job |-> Failed]
Answered(outcome) == [pc |-> "replied", outcome |-> outcome]

WriterInit ==
    /\ queue = <<>>
    /\ running = NoMessage
    /\ writer = "running"
    /\ calls = [c \in Callers |-> Idle]

\* exec: the job is packed.
Issue(c, job) ==
    /\ calls[c].pc = "idle"
    /\ calls' = [calls EXCEPT ![c] = [pc |-> "sending", job |-> job]]
    /\ UNCHANGED <<queue, running, writer>>

\* exec_inner and exec_sync wait for a place in the queue, each its own way.
Send(c) ==
    /\ calls[c].pc = "sending"
    /\ writer = "running"
    /\ Len(queue) < Capacity
    /\ queue' = Append(queue, [caller |-> c, job |-> calls[c].job])
    /\ calls' = [calls EXCEPT ![c].pc = "waiting"]
    /\ UNCHANGED <<running, writer>>

\* The channel is closed: "database writer stopped".
SendRefused(c) ==
    /\ calls[c].pc = "sending"
    /\ writer = "stopped"
    /\ calls' = [calls EXCEPT ![c] = Answered(Failed)]
    /\ UNCHANGED <<queue, running, writer>>

Receive ==
    /\ writer = "running" /\ running = NoMessage /\ queue # <<>>
    /\ running' = Head(queue)
    /\ queue' = Tail(queue)
    /\ UNCHANGED <<writer, calls>>

\* The transaction of the job is committed, or rolled back for outcome Failed;
\* the reply is dropped when nobody waits for it.
Finish(outcome) ==
    /\ running # NoMessage
    /\ running' = NoMessage
    /\ calls' = [c \in Callers |->
          IF c = running.caller THEN Answered(outcome) ELSE calls[c]]
    /\ UNCHANGED <<queue, writer>>

\* Mutant: whoever is in the queue of a stopped writer is left waiting.
UntoldByStop(c) == c = running.caller

\* A stopped writer drops the queue, and with it the other end of every reply
\* still waited for: "database writer dropped the reply".
ToldByStop(c) == calls[c].pc = "waiting"

\* The job panics: its transaction is rolled back as the connection is dropped,
\* and the thread is gone for good.
Panic ==
    /\ running # NoMessage
    /\ writer' = "stopped"
    /\ running' = NoMessage
    /\ queue' = <<>>
    /\ calls' = [c \in Callers |->
          IF ToldByStop(c) THEN Answered(Failed) ELSE calls[c]]

Orphaned(message, c) ==
    IF message.caller = c THEN [message EXCEPT !.caller = NoOne] ELSE message

\* The future of the caller is dropped, wherever it is (a client that closes
\* its connection, a task aborted at shutdown): what it has sent still runs.
Abort(c) ==
    /\ calls[c].pc # "idle"
    /\ calls' = [calls EXCEPT ![c] = Idle]
    /\ queue' = [i \in DOMAIN queue |-> Orphaned(queue[i], c)]
    /\ running' = Orphaned(running, c)
    /\ UNCHANGED writer
=============================================================================
