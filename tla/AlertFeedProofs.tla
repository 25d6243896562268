---------------------------- MODULE AlertFeedProofs ----------------------------
(***************************************************************************)
(* A settled client shows the alerts as they are saved (and a reply goes   *)
(* to the caller that waits for it), for every number of callers, clients  *)
(* and alerts, every capacity of the queue and of the bus, every page size *)
(* and every bound of the exploration.                                     *)
(*                                                                         *)
(* A client may be behind only while a change is on its way to it. As each *)
(* way a change arrives begins a refresh, what has to be said is that the  *)
(* newest refresh has read nothing that is older than the last change, and *)
(* that what is shown without one is what the last of them has read.       *)
(***************************************************************************)
EXTENDS AlertFeed, FiniteSetTheorems, TLAPS

-----------------------------------------------------------------------------
(***************************************************************************)
(* The invariant.                                                          *)
(***************************************************************************)
Message == [caller : Callers \union {NoOne}, job : Jobs]

Call == {Idle} \union [pc : {"sending", "waiting"}, job : Jobs]
               \union [pc : {"replied", "answered"}, outcome : {Failed} \union Outcomes]

WriterTypeOK ==
    /\ queue \in Seq(Message)
    /\ running \in Message \union {NoMessage}
    /\ calls \in [Callers -> Call]

\* A caller has one message at most with the writer, and waits for its reply.
Waits ==
    /\ \A i \in DOMAIN queue : queue[i].caller # NoOne =>
         /\ calls[queue[i].caller].pc = "waiting"
         /\ queue[i].caller # running.caller
         /\ \A j \in DOMAIN queue : queue[j].caller = queue[i].caller => j = i
    /\ running.caller # NoOne => calls[running.caller].pc = "waiting"

IsFeed(shown) ==
    shown = [items |-> shown.items, count |-> shown.count, known |-> shown.known,
             status |-> shown.status, filter |-> shown.filter]

IsRequest(r) ==
    r = [current |-> r.current, preserve |-> r.preserve, filter |-> r.filter,
         list |-> r.list, count |-> r.count]

FeedTypeOK ==
    /\ alerts \in [Keys -> Row]
    /\ live \in [Clients -> [subscribed : BOOLEAN, opened : BOOLEAN, pending : Nat]]
    /\ feed = [c \in Clients |-> feed[c]] /\ requests = [c \in Clients |-> requests[c]]
    /\ \A c \in Clients : IsFeed(feed[c]) /\ \A r \in requests[c] : IsRequest(r)

\* A change client c may not have read is on its way to it, or never will be.
Published(call) == call.pc = "replied" /\ call.outcome # Failed /\ call.outcome.event

OnItsWay(c) ==
    \/ c \in untold
    \/ live[c].opened /\ ~live[c].subscribed
    \/ live[c].pending > 0
    \/ \E d \in Callers : Published(calls[d])

\* One refresh counts, and it reads what the client is about to show.
OneCurrent(c) ==
    /\ \A r, q \in requests[c] : r.current /\ q.current => r = q
    /\ \A r \in requests[c] : r.current => r.filter = feed[c].filter

ReadsCurrent(r) ==
    /\ r.list \in {Pending, Failed, Page(r.filter)}
    /\ r.count \in {Pending, Failed, UnreadCount}

ShowsCurrent(shown) ==
    /\ shown.known /\ shown.count = UnreadCount
    /\ \A k \in Keys : Page(shown.filter)[k] # NoRow => shown.items[k] = alerts[k]

UpToDate(c) ==
    ~OnItsWay(c) =>
        /\ \A r \in requests[c] : r.current => ReadsCurrent(r)
        /\ feed[c].status = "ready" /\ (\A r \in requests[c] : ~r.current)
              => ShowsCurrent(feed[c])

\* Only a subscription has events.
IsSubscription(l) == IF l.subscribed THEN l.opened ELSE l.pending = 0

ClientInv(c) ==
    /\ IsSubscription(live[c])
    /\ OneCurrent(c)
    /\ UpToDate(c)

FeedInv ==
    /\ WriterTypeOK
    /\ Waits
    /\ FeedTypeOK
    /\ \A c \in Clients : ClientInv(c)

-----------------------------------------------------------------------------
(***************************************************************************)
(* The writer.                                                             *)
(***************************************************************************)
\* What a job makes of the rows are rows, and its outcome is one.
LEMMA OutcomeIsOne ==
    ASSUME alerts \in [Keys -> Row], NEW job \in Jobs
    PROVE  Written(job) \in [Keys -> Row] /\ Outcome(job) \in Outcomes
<1>1. NoRow \in Row
  BY DEF NoRow, Row
<1>2. NewRow \in Row
  <2>1. IsFiniteSet(Saved)
    BY FS_Subset, AlertFeedAssumption DEF Saved
  <2>2. Cardinality(Saved) \in Nat
    BY <2>1, FS_CardinalityType
  <2>3. Cardinality(Saved) + 1 \in Nat
    BY <2>2
  <2> QED BY <2>3 DEF NewRow, Row
<1>3. \A row \in Row : Inserted(row) \in Row /\ Opened(row) \in Row
  BY <1>2 DEF Inserted, Opened, Row
<1>4. Written(job) \in [Keys -> Row]
  <2>1. CASE job.op \in {"insert", "open", "resolve", "read", "unread"}
    <3>1. job.key \in Keys
      BY <2>1 DEF Jobs
    <3>2. job.op = "insert" => Written(job) \in [Keys -> Row]
      BY <1>3, <3>1 DEF Written
    <3>3. job.op = "open" => Written(job) \in [Keys -> Row]
      BY <1>3, <3>1 DEF Written
    <3>4. job.op \in {"resolve", "read", "unread"} => Written(job) \in [Keys -> Row]
      BY <3>1 DEF Written, Row
    <3> QED BY <2>1, <3>2, <3>3, <3>4
  <2>2. CASE job.op = "readAll"
    <3>1. Written(job) =
            [k \in Keys |->
                [alerts[k] EXCEPT !.read = @ \/ (k \in Saved /\ Unread(alerts[k]))]]
      BY <2>2 DEF Written
    <3>2. \A k \in Keys :
            [alerts[k] EXCEPT !.read = @ \/ (k \in Saved /\ Unread(alerts[k]))] \in Row
      BY DEF Row
    <3> QED BY <3>1, <3>2
  <2> QED BY <2>1, <2>2 DEF Jobs
<1>5. Outcome(job) \in Outcomes
  <2>1. Publishes(job) \in BOOLEAN
    BY DEF Publishes
  <2>2. job.op # "readAll" => Written(job)[job.key] \in Row
    BY <1>4 DEF Jobs
  <2> QED BY <1>1, <2>1, <2>2 DEF Outcome, Outcomes
<1> QED BY <1>4, <1>5

WriterSound == WriterTypeOK /\ Waits

\* Messages are from callers, or from one that went away.
LEMMA Senders ==
    ASSUME WriterSound
    PROVE  /\ \A i \in DOMAIN queue : queue[i].caller \in Callers \union {NoOne}
           /\ running.caller \in Callers \union {NoOne}
<1>1. \A i \in DOMAIN queue : queue[i] \in Message
  BY DEF WriterSound, WriterTypeOK
<1>2. \A m \in Message : m.caller \in Callers \union {NoOne}
  BY DEF Message
<1>3. NoMessage.caller = NoOne
  BY DEF NoMessage
<1> QED BY <1>1, <1>2, <1>3 DEF WriterSound, WriterTypeOK

\* The call of one caller that has no message changes.
LEMMA OwnCall ==
    ASSUME WriterSound, NEW c \in Callers, calls[c].pc # "waiting",
           NEW call \in Call, calls' = [calls EXCEPT ![c] = call],
           UNCHANGED <<queue, running, writer>>
    PROVE  WriterSound'
<1>1. WriterTypeOK'
  BY DEF WriterSound, WriterTypeOK
<1>2. \A d \in Callers : calls[d].pc = "waiting" => calls'[d].pc = "waiting"
  BY DEF WriterSound, WriterTypeOK
<1>3. /\ \A i \in DOMAIN queue : queue[i].caller \in Callers \union {NoOne}
      /\ running.caller \in Callers \union {NoOne}
  BY Senders
<1>4. Waits'
  BY <1>2, <1>3 DEF WriterSound, Waits
<1> QED BY <1>1, <1>4 DEF WriterSound

\* A job is sent by a caller that has no message with the writer.
LEMMA SendSound ==
    ASSUME WriterSound, NEW c \in Callers, Send(c)
    PROVE  WriterSound'
<1> DEFINE message == [caller |-> c, job |-> calls[c].job]
<1>1. message \in Message /\ calls[c].pc = "sending" /\ calls[c] \in Call
  BY DEF WriterSound, WriterTypeOK, Call, Idle, Message, Send
<1>2. /\ queue' = Append(queue, message) /\ running' = running
      /\ calls' = [calls EXCEPT ![c].pc = "waiting"]
  BY DEF Send
<1>3. [calls[c] EXCEPT !.pc = "waiting"] \in Call
  BY <1>1 DEF Call, Idle
<1>4. WriterTypeOK'
  <2>1. calls' \in [Callers -> Call]
    BY <1>2, <1>3 DEF WriterSound, WriterTypeOK
  <2>2. queue' \in Seq(Message)
    BY <1>1, <1>2 DEF WriterSound, WriterTypeOK
  <2> QED BY <1>2, <2>1, <2>2 DEF WriterSound, WriterTypeOK
<1>5. \A d \in Callers : calls[d].pc = "waiting" \/ d = c => calls'[d].pc = "waiting"
  BY <1>1, <1>2 DEF WriterSound, WriterTypeOK, Call, Idle
<1>6. /\ \A i \in DOMAIN queue : queue[i].caller \in Callers \union {NoOne}
      /\ running.caller \in Callers \union {NoOne}
  BY Senders
<1>7. c # NoOne /\ message.caller = c
  BY WriteActorAssumption
<1>8. /\ DOMAIN queue' = DOMAIN queue \union {Len(queue) + 1}
      /\ \A i \in DOMAIN queue : queue'[i] = queue[i]
      /\ queue'[Len(queue) + 1] = message
      /\ Len(queue) + 1 \notin DOMAIN queue
  BY <1>1, <1>2 DEF WriterSound, WriterTypeOK
<1>9. \A i \in DOMAIN queue : queue[i].caller # c
  BY <1>1, <1>7 DEF WriterSound, Waits
<1>10. running.caller # c
  BY <1>1, <1>7 DEF WriterSound, Waits
<1> HIDE DEF message
<1>11. Waits'
  <2>1. ASSUME NEW i \in DOMAIN queue', queue'[i].caller # NoOne
        PROVE  /\ calls'[queue'[i].caller].pc = "waiting"
               /\ queue'[i].caller # running.caller
               /\ \A j \in DOMAIN queue' : queue'[j].caller = queue'[i].caller => j = i
    <3>1. CASE i \in DOMAIN queue
      BY <1>5, <1>6, <1>7, <1>8, <1>9, <2>1, <3>1 DEF WriterSound, Waits
    <3>2. CASE i = Len(queue) + 1
      BY <1>5, <1>7, <1>8, <1>9, <1>10, <3>2
    <3> QED BY <1>8, <3>1, <3>2
  <2>2. running'.caller # NoOne => calls'[running'.caller].pc = "waiting"
    BY <1>2, <1>5, <1>6 DEF WriterSound, Waits
  <2> QED BY <1>2, <2>1, <2>2 DEF Waits
<1> QED BY <1>4, <1>11 DEF WriterSound

\* The first message in the queue becomes the one the writer works on.
LEMMA ReceiveSound ==
    ASSUME WriterSound, Receive
    PROVE  WriterSound'
<1>1. /\ queue \in Seq(Message) /\ queue # <<>>
      /\ running' = Head(queue) /\ queue' = Tail(queue) /\ calls' = calls
  BY DEF Receive, WriterSound, WriterTypeOK
<1>2. /\ 1 \in DOMAIN queue /\ running' = queue[1]
      /\ \A i \in DOMAIN queue' : /\ i + 1 \in DOMAIN queue /\ i \in Nat /\ i + 1 # 1
                                  /\ queue'[i] = queue[i + 1]
  BY <1>1
<1>3. running' \in Message /\ queue' \in Seq(Message)
  BY <1>1
<1>4. WriterTypeOK'
  BY <1>1, <1>3 DEF WriterSound, WriterTypeOK
<1>5. Waits'
  <2>1. ASSUME NEW i \in DOMAIN queue', queue'[i].caller # NoOne
        PROVE  /\ calls'[queue'[i].caller].pc = "waiting"
               /\ queue'[i].caller # running'.caller
               /\ \A j \in DOMAIN queue' : queue'[j].caller = queue'[i].caller => j = i
    <3>1. queue[i + 1].caller # NoOne /\ i + 1 \in DOMAIN queue
      BY <1>2, <2>1
    <3>2. /\ calls[queue[i + 1].caller].pc = "waiting"
          /\ \A j \in DOMAIN queue : queue[j].caller = queue[i + 1].caller => j = i + 1
      BY <3>1 DEF WriterSound, Waits
    <3>3. calls'[queue'[i].caller].pc = "waiting" /\ queue'[i].caller # running'.caller
      BY <1>1, <1>2, <3>2
    <3>4. \A j \in DOMAIN queue' : queue'[j].caller = queue'[i].caller => j + 1 = i + 1
      BY <1>2, <3>2
    <3>5. \A j \in DOMAIN queue' : j + 1 = i + 1 => j = i
      BY <1>2
    <3> QED BY <3>3, <3>4, <3>5
  <2>2. running'.caller # NoOne => calls'[running'.caller].pc = "waiting"
    BY <1>1, <1>2 DEF WriterSound, Waits
  <2> QED BY <2>1, <2>2 DEF Waits
<1> QED BY <1>4, <1>5 DEF WriterSound

\* The caller the writer works for is told the outcome, and nobody else.
LEMMA FinishSound ==
    ASSUME WriterSound, NEW outcome \in {Failed} \union Outcomes, Finish(outcome)
    PROVE  WriterSound'
<1>1. /\ running' = NoMessage /\ queue' = queue
      /\ calls' = [c \in Callers |-> IF c = running.caller THEN Answered(outcome) ELSE calls[c]]
  BY DEF Finish
<1>2. Answered(outcome) \in Call
  BY DEF Answered, Call
<1>3. WriterTypeOK'
  BY <1>1, <1>2 DEF WriterSound, WriterTypeOK
<1>4. NoMessage.caller = NoOne
  BY DEF NoMessage
<1>5. \A d \in Callers : d # running.caller => calls'[d] = calls[d]
  BY <1>1
<1>6. Waits'
  BY <1>1, <1>4, <1>5, Senders DEF WriterSound, Waits
<1> QED BY <1>3, <1>6 DEF WriterSound

\* With the writer, all messages are gone.
LEMMA PanicSound ==
    ASSUME WriterSound, Panic
    PROVE  WriterSound'
<1>1. /\ running' = NoMessage /\ queue' = <<>>
      /\ calls' = [c \in Callers |-> IF ToldByStop(c) THEN Answered(Failed) ELSE calls[c]]
  BY DEF Panic
<1>2. Answered(Failed) \in Call
  BY DEF Answered, Call
<1>3. WriterTypeOK'
  BY <1>1, <1>2 DEF WriterSound, WriterTypeOK
<1>4. Waits'
  BY <1>1 DEF Waits, NoMessage
<1> QED BY <1>3, <1>4 DEF WriterSound

\* What a caller that goes away has sent is nobody's.
LEMMA AbortSound ==
    ASSUME WriterSound, NEW c \in Callers, Abort(c)
    PROVE  WriterSound'
<1>1. /\ calls' = [calls EXCEPT ![c] = Idle]
      /\ queue' = [i \in DOMAIN queue |-> Orphaned(queue[i], c)]
      /\ running' = Orphaned(running, c)
  BY DEF Abort
<1>2. \A m \in Message \union {NoMessage} :
         /\ Orphaned(m, c) \in Message \union {NoMessage}
         /\ Orphaned(m, c).caller = IF m.caller = c THEN NoOne ELSE m.caller
  BY WriteActorAssumption DEF Orphaned, Message, NoMessage
<1>3. \A m \in Message : Orphaned(m, c) \in Message
  BY DEF Orphaned, Message
<1>4. WriterTypeOK'
  <2>1. calls' \in [Callers -> Call]
    BY <1>1 DEF WriterSound, WriterTypeOK, Call
  <2>2. queue' \in Seq(Message)
    BY <1>1, <1>3 DEF WriterSound, WriterTypeOK
  <2> QED BY <1>1, <1>2, <2>1, <2>2 DEF WriterSound, WriterTypeOK
<1>5. \A d \in Callers : d # c => calls'[d] = calls[d]
  BY <1>1 DEF WriterSound, WriterTypeOK
<1>6. /\ DOMAIN queue' = DOMAIN queue
      /\ \A i \in DOMAIN queue :
            queue'[i].caller = IF queue[i].caller = c THEN NoOne ELSE queue[i].caller
      /\ running'.caller = IF running.caller = c THEN NoOne ELSE running.caller
  <2>1. \A i \in DOMAIN queue : queue[i] \in Message
    BY DEF WriterSound, WriterTypeOK
  <2>2. running \in Message \union {NoMessage}
    BY DEF WriterSound, WriterTypeOK
  <2> QED BY <1>1, <1>2, <2>1, <2>2
<1>7. Waits'
  BY <1>5, <1>6, Senders DEF WriterSound, Waits
<1> QED BY <1>4, <1>7 DEF WriterSound

\* What a step does to the calls: a job is given, sent or refused, run, dropped;
\* an outcome is told, published, shown.
LEMMA NextWriter ==
    ASSUME WriterSound, alerts \in [Keys -> Row], [Next]_vars
    PROVE  WriterSound'
<1>1. CASE UNCHANGED writerVars
  BY <1>1, Zenon DEF writerVars, WriterSound, WriterTypeOK, Waits
<1>2. ASSUME NEW c \in Callers, NEW job \in Jobs, Write(c, job) PROVE WriterSound'
  <2>1. [pc |-> "sending", job |-> job] \in Call
    BY DEF Call
  <2> QED BY <1>2, <2>1, OwnCall DEF Write, Issue
<1>3. ASSUME NEW c \in Callers, Writing(c) PROVE WriterSound'
  <2>1. CASE SendRefused(c)
    <3>1. Answered(Failed) \in Call
      BY DEF Answered, Call
    <3> QED BY <2>1, <3>1, OwnCall DEF SendRefused
  <2> QED BY <1>3, <2>1, SendSound DEF Writing
<1>4. ASSUME NEW c \in Callers, Announce(c) PROVE WriterSound'
  <2>1. calls[c] \in Call /\ calls[c].pc = "replied"
    BY <1>4 DEF Announce, WriterSound, WriterTypeOK
  <2>2. (IF c \in Clients THEN [calls[c] EXCEPT !.pc = "answered"] ELSE Idle) \in Call
    BY <2>1 DEF Call, Idle
  <2>3. /\ calls' = [calls EXCEPT ![c] =
                        IF c \in Clients THEN [calls[c] EXCEPT !.pc = "answered"] ELSE Idle]
        /\ UNCHANGED <<queue, running, writer>>
    BY <1>4 DEF Announce
  <2> QED BY <2>1, <2>2, <2>3, OwnCall
<1>5. ASSUME NEW c \in Callers, Answer(c) PROVE WriterSound'
  <2>1. Idle \in Call
    BY DEF Call
  <2> QED BY <1>5, <2>1, OwnCall DEF Answer
<1>6. ASSUME NEW c \in Callers, GoAway(c) PROVE WriterSound'
  BY <1>6, AbortSound DEF GoAway
<1>7. CASE WriterRuns
  <2>1. CASE Receiving
    BY <2>1, ReceiveSound DEF Receiving
  <2>2. CASE Commit
    <3>1. running \in Message
      BY <2>2 DEF Commit, Finish, WriterSound, WriterTypeOK
    <3>2. Outcome(running.job) \in Outcomes
      BY <3>1, OutcomeIsOne DEF Message
    <3> QED BY <2>2, <3>2, FinishSound DEF Commit
  <2>3. CASE RollBack
    BY <2>3, FinishSound DEF RollBack
  <2>4. CASE WriterPanics
    BY <2>4, PanicSound DEF WriterPanics
  <2> QED BY <1>7, <2>1, <2>2, <2>3, <2>4 DEF WriterRuns
<1>8. ASSUME NEW c \in Callers, NEW job \in ProducerJobs, Produce(c, job) PROVE WriterSound'
  BY <1>2, <1>8, AlertFeedAssumption DEF Produce
<1>9. ASSUME NEW c \in Clients, MarkAllRead(c) \/ \E k \in Keys : Toggle(c, k)
      PROVE  WriterSound'
  <2>1. c \in Callers
    BY AlertFeedAssumption
  <2>2. [op |-> "readAll"] \in Jobs
    BY DEF Jobs
  <2>3. \A k \in Keys, op \in {"read", "unread"} : [op |-> op, key |-> k] \in Jobs
    BY DEF Jobs
  <2>4. CASE MarkAllRead(c)
    BY <1>2, <2>1, <2>2, <2>4 DEF MarkAllRead
  <2>5. ASSUME NEW k \in Keys, Toggle(c, k) PROVE WriterSound'
    BY <1>2, <2>1, <2>3, <2>5 DEF Toggle
  <2> QED BY <1>9, <2>4, <2>5
<1>10. ASSUME NEW c \in Clients,
              \/ Subscribe(c) \/ Load(c) \/ Disconnect(c) \/ Event(c) \/ Look(c)
              \/ \E filter \in Filters : Select(c, filter)
              \/ \E r \in requests[c] : ReadList(c, r) \/ ReadCount(c, r) \/ Apply(c, r)
       PROVE  WriterSound'
  <2>1. UNCHANGED writerVars
    BY <1>10, ZenonT(30) DEF Subscribe, Load, Disconnect, Event, Look, Select, ReadList,
                             ReadCount, Apply
  <2> QED BY <1>1, <2>1
<1>11. CASE UNCHANGED vars
  BY <1>1, <1>11 DEF vars
<1>12. CASE Next
  <2>1. ASSUME NEW c \in Callers, Writing(c) \/ Announce(c) \/ GoAway(c) \/ Answer(c)
        PROVE  WriterSound'
    BY <1>3, <1>4, <1>5, <1>6, <2>1
  <2> QED BY <1>7, <1>8, <1>9, <1>10, <1>12, <2>1, ZenonT(30) DEF Next
<1> QED BY <1>11, <1>12

-----------------------------------------------------------------------------
(***************************************************************************)
(* The clients.                                                            *)
(***************************************************************************)
\* What a list and a count read depends on the rows alone.
LEMMA SameRowsSamePages ==
    ASSUME alerts' = alerts
    PROVE  UnreadCount' = UnreadCount /\ \A filter : Page(filter)' = Page(filter)
BY DEF UnreadCount, Page, Saved, Listed

\* A client is left alone, and what it has read is still what is saved, or it will be told.
LEMMA KeptClient ==
    ASSUME NEW c \in Clients, ClientInv(c), feed'[c] = feed[c], requests'[c] = requests[c],
           IsSubscription(live'[c]),
           OnItsWay(c)' \/ (alerts' = alerts /\ ~OnItsWay(c))
    PROVE  ClientInv(c)'
<1>1. OneCurrent(c)'
  BY DEF ClientInv, OneCurrent
<1>2. CASE OnItsWay(c)'
  BY <1>1, <1>2 DEF ClientInv, UpToDate
<1>3. CASE alerts' = alerts /\ ~OnItsWay(c)
  <2>1. UnreadCount' = UnreadCount /\ \A filter : Page(filter)' = Page(filter)
    BY <1>3, SameRowsSamePages
  <2>2. \A r \in requests[c] : r.current => ReadsCurrent(r)'
    BY <1>3, <2>1 DEF ClientInv, UpToDate, ReadsCurrent
  <2>3. ShowsCurrent(feed[c]) => ShowsCurrent(feed[c])'
    BY <1>3, <2>1 DEF ShowsCurrent
  <2> QED BY <1>1, <1>3, <2>2, <2>3 DEF ClientInv, UpToDate
<1> QED BY <1>2, <1>3

\* The columns that are not set stay.
LEMMA SupersededRequest ==
    ASSUME NEW a, NEW b, NEW d, NEW e, NEW f, NEW q,
           q = [current |-> a, preserve |-> b, filter |-> d, list |-> e, count |-> f]
    PROVE  [q EXCEPT !.current = FALSE] =
              [current |-> FALSE, preserve |-> b, filter |-> d, list |-> e, count |-> f]
<1> DEFINE old == [q EXCEPT !.current = FALSE]
<1>1. q \in [current : {a}, preserve : {b}, filter : {d}, list : {e}, count : {f}]
  OBVIOUS
<1>2. old \in [current : {FALSE}, preserve : {b}, filter : {d}, list : {e}, count : {f}]
  BY <1>1
<1> HIDE DEF old
<1>3. old = [current |-> FALSE, preserve |-> b, filter |-> d, list |-> e, count |-> f]
  BY <1>2
<1> QED BY <1>3 DEF old

\* The count of a refresh is set beside whether it is known.
LEMMA CountedFeed ==
    ASSUME NEW a, NEW b, NEW d, NEW e, NEW f, NEW shown, NEW known, NEW count,
           shown = [items |-> a, count |-> b, known |-> d, status |-> e, filter |-> f]
    PROVE  [shown EXCEPT !.known = known, !.count = count] =
              [items |-> a, count |-> count, known |-> known, status |-> e, filter |-> f]
<1> DEFINE new == [[shown EXCEPT !.known = known] EXCEPT !.count = count]
<1>1. shown \in [items : {a}, count : {b}, known : {d}, status : {e}, filter : {f}]
  OBVIOUS
<1>2. [shown EXCEPT !.known = known] \in
        [items : {a}, count : {b}, known : {known}, status : {e}, filter : {f}]
  BY <1>1
<1>3. new \in [items : {a}, count : {count}, known : {known}, status : {e}, filter : {f}]
  BY <1>2
<1> HIDE DEF new
<1>4. new = [items |-> a, count |-> count, known |-> known, status |-> e, filter |-> f]
  BY <1>3
<1> QED BY <1>4 DEF new

\* A refresh that begins is the one that counts, and has read nothing yet.
LEMMA RefreshedClient ==
    ASSUME FeedTypeOK, NEW c \in Clients, NEW shown, IsFeed(shown), NEW preserve,
           Refresh(c, shown, preserve), IsSubscription(live'[c])
    PROVE  /\ ClientInv(c)'
           /\ IsFeed(feed'[c]) /\ \A r \in requests'[c] : IsRequest(r)
           /\ feed' = [feed EXCEPT ![c] = feed'[c]]
           /\ requests' = [requests EXCEPT ![c] = requests'[c]]
           /\ untold' = untold \ {c}
<1> DEFINE new == [current |-> TRUE, preserve |-> preserve, filter |-> shown.filter,
                   list |-> Pending, count |-> Pending]
           next == [shown EXCEPT !.status = IF @ = "idle" THEN "loading" ELSE @]
<1>1. /\ requests' = [requests EXCEPT ![c] = Superseded(@) \union {new}]
      /\ feed' = [feed EXCEPT ![c] = next]
      /\ untold' = untold \ {c}
  BY DEF Refresh
<1>2. requests'[c] = Superseded(requests[c]) \union {new} /\ feed'[c] = next
  BY <1>1 DEF FeedTypeOK
<1>3. IsFeed(next) /\ next.filter = shown.filter
  BY DEF IsFeed
<1>4. \A r \in Superseded(requests[c]) : IsRequest(r) /\ ~r.current
  <2>1. ASSUME NEW q \in requests[c]
        PROVE  IsRequest([q EXCEPT !.current = FALSE]) /\ ~[q EXCEPT !.current = FALSE].current
    <3> DEFINE old == [q EXCEPT !.current = FALSE]
    <3>1. q = [current |-> q.current, preserve |-> q.preserve, filter |-> q.filter,
               list |-> q.list, count |-> q.count]
      BY DEF FeedTypeOK, IsRequest
    <3>2. old = [current |-> FALSE, preserve |-> q.preserve, filter |-> q.filter,
                 list |-> q.list, count |-> q.count]
      BY <3>1, SupersededRequest
    <3> HIDE DEF old
    <3>3. IsRequest(old) /\ ~old.current
      BY <3>2 DEF IsRequest
    <3> QED BY <3>3 DEF old
  <2> QED BY <2>1 DEF Superseded
<1>5. IsRequest(new) /\ new.current /\ new.filter = next.filter
      /\ new.list = Pending /\ new.count = Pending
  BY <1>3 DEF IsRequest
<1>6. OneCurrent(c)'
  <2> HIDE DEF new, next
  <2> QED BY <1>2, <1>4, <1>5 DEF OneCurrent
<1>7. UpToDate(c)'
  <2> HIDE DEF new, next
  <2>1. \A r \in requests'[c] : r.current => r = new
    BY <1>2, <1>4
  <2>2. new \in requests'[c]
    BY <1>2
  <2>3. ReadsCurrent(new)'
    BY <1>5 DEF ReadsCurrent
  <2> QED BY <1>5, <2>1, <2>2, <2>3 DEF UpToDate
<1> HIDE DEF new, next
<1>8. ClientInv(c)'
  BY <1>6, <1>7 DEF ClientInv
<1>9. IsFeed(feed'[c]) /\ \A r \in requests'[c] : IsRequest(r)
  BY <1>2, <1>3, <1>4, <1>5
<1> QED BY <1>1, <1>2, <1>8, <1>9

\* A part of a refresh is read, now, or fails.
LEMMA ReadByClient ==
    ASSUME FeedTypeOK, NEW c \in Clients, ClientInv(c), NEW r \in requests[c],
           ReadList(c, r) \/ ReadCount(c, r)
    PROVE  /\ ClientInv(c)'
           /\ \A q \in requests'[c] : IsRequest(q)
           /\ requests' = [requests EXCEPT ![c] = requests'[c]]
           /\ UNCHANGED <<writerVars, alerts, live, feed, untold>>
<1>1. UNCHANGED <<writerVars, alerts, live, feed, untold>>
  BY DEF ReadList, ReadCount
<1>2. IsRequest(r) /\ \A q \in requests[c] : IsRequest(q)
  BY DEF FeedTypeOK
<1>3. PICK new :
        /\ \/ new = [r EXCEPT !.list = Page(r.filter)]
           \/ new = [r EXCEPT !.list = Failed]
           \/ new = [r EXCEPT !.count = UnreadCount]
           \/ new = [r EXCEPT !.count = Failed]
        /\ requests' = [requests EXCEPT ![c] = (@ \ {r}) \union {new}]
  BY DEF ReadList, ReadCount, ReplaceRequest
<1>4. requests'[c] = (requests[c] \ {r}) \union {new}
  BY <1>3 DEF FeedTypeOK
<1>5. /\ IsRequest(new) /\ new.current = r.current /\ new.filter = r.filter
      /\ ReadsCurrent(r) => ReadsCurrent(new)
  BY <1>2, <1>3 DEF IsRequest, ReadsCurrent
<1>6. OneCurrent(c)'
  BY <1>1, <1>4, <1>5 DEF ClientInv, OneCurrent
<1>7. UpToDate(c)'
  <2>1. OnItsWay(c)' = OnItsWay(c)
    BY <1>1 DEF OnItsWay, Published, writerVars
  <2>2. UnreadCount' = UnreadCount /\ \A filter : Page(filter)' = Page(filter)
    BY <1>1, SameRowsSamePages
  <2>3. \A q : ReadsCurrent(q)' <=> ReadsCurrent(q)
    BY <2>2 DEF ReadsCurrent
  <2>4. ShowsCurrent(feed[c]) => ShowsCurrent(feed[c])'
    BY <1>1, <2>2 DEF ShowsCurrent
  <2>5. (\A q \in requests'[c] : ~q.current) => \A q \in requests[c] : ~q.current
    BY <1>4, <1>5
  <2> QED BY <1>1, <1>4, <1>5, <2>1, <2>3, <2>4, <2>5 DEF ClientInv, UpToDate
<1>8. ClientInv(c)'
  BY <1>1, <1>6, <1>7 DEF ClientInv
<1>9. \A q \in requests'[c] : IsRequest(q)
  BY <1>2, <1>4, <1>5
<1> QED BY <1>1, <1>3, <1>4, <1>8, <1>9

\* What is read is what is saved: it is shown when it comes from the refresh that counts.
LEMMA AppliedByClient ==
    ASSUME FeedTypeOK, NEW c \in Clients, ClientInv(c), NEW r \in requests[c], Apply(c, r)
    PROVE  /\ ClientInv(c)'
           /\ IsFeed(feed'[c]) /\ requests'[c] \subseteq requests[c]
           /\ feed' = [feed EXCEPT ![c] = feed'[c]]
           /\ requests' = [requests EXCEPT ![c] = requests'[c]]
           /\ UNCHANGED <<writerVars, alerts, live, untold>>
<1>1. /\ UNCHANGED <<writerVars, alerts, live, untold>>
      /\ Pending \notin {r.list, r.count}
      /\ feed' = IF r.current THEN [feed EXCEPT ![c] = Refreshed(@, r)] ELSE feed
      /\ requests' = [requests EXCEPT ![c] = (@ \ {r}) \union {}]
  BY DEF Apply, ReplaceRequest
<1>2. /\ requests'[c] = requests[c] \ {r}
      /\ feed'[c] = IF r.current THEN Refreshed(feed[c], r) ELSE feed[c]
  BY <1>1 DEF FeedTypeOK
<1>3. /\ feed = [d \in Clients |-> feed[d]]
      /\ IsFeed(feed[c])
  BY DEF FeedTypeOK
<1>4. feed' = [feed EXCEPT ![c] = feed'[c]]
  BY <1>1, <1>3
<1> DEFINE counted == [feed[c] EXCEPT !.known = r.count # Failed,
                                      !.count = IF r.count = Failed THEN @ ELSE r.count]
           items == IF r.preserve THEN Merged(feed[c].items, r.list, r.filter) ELSE r.list
<1>5. counted = [items |-> feed[c].items, known |-> r.count # Failed,
                 count |-> IF r.count = Failed THEN feed[c].count ELSE r.count,
                 status |-> feed[c].status, filter |-> feed[c].filter]
  <2> DEFINE count == IF r.count = Failed THEN feed[c].count ELSE r.count
  <2>1. counted = [feed[c] EXCEPT !.known = (r.count # Failed), !.count = count]
    OBVIOUS
  <2> HIDE DEF counted, count
  <2>2. counted = [items |-> feed[c].items, count |-> count, known |-> (r.count # Failed),
                   status |-> feed[c].status, filter |-> feed[c].filter]
    BY <1>3, <2>1, CountedFeed DEF IsFeed
  <2> QED BY <2>2 DEF count
<1>6. Refreshed(feed[c], r) =
         IF Failed \in {r.list, r.count} THEN [counted EXCEPT !.status = "error"]
         ELSE [counted EXCEPT !.status = "ready", !.items = items]
  BY <1>5 DEF Refreshed
<1> HIDE DEF counted, items
<1>7. /\ IsFeed(Refreshed(feed[c], r)) /\ Refreshed(feed[c], r).filter = feed[c].filter
      /\ Failed \in {r.list, r.count} => Refreshed(feed[c], r).status = "error"
      /\ Failed \notin {r.list, r.count} =>
            /\ Refreshed(feed[c], r).count = r.count
            /\ Refreshed(feed[c], r).known
            /\ Refreshed(feed[c], r).items = items
  <2>1. CASE Failed \in {r.list, r.count}
    BY <1>5, <1>6, <2>1 DEF IsFeed
  <2>2. CASE Failed \notin {r.list, r.count}
    <3>1. Refreshed(feed[c], r) =
             [items |-> items, known |-> TRUE, count |-> r.count,
              status |-> "ready", filter |-> feed[c].filter]
      BY <1>5, <1>6, <2>2
    <3> QED BY <2>2, <3>1 DEF IsFeed
  <2> QED BY <2>1, <2>2
<1>8. OneCurrent(c)'
  BY <1>2, <1>7 DEF ClientInv, OneCurrent
<1>9. OnItsWay(c)' = OnItsWay(c)
  BY <1>1 DEF OnItsWay, Published, writerVars
<1>10. UnreadCount' = UnreadCount /\ \A filter : Page(filter)' = Page(filter)
  BY <1>1, SameRowsSamePages
<1>11. UpToDate(c)'
  <2> SUFFICES ASSUME ~OnItsWay(c) PROVE UpToDate(c)'
    BY <1>9 DEF UpToDate
  <2>1. \A q \in requests[c] : q.current => ReadsCurrent(q)'
    BY <1>10 DEF ClientInv, UpToDate, ReadsCurrent
  <2>2. CASE ~r.current
    <3>1. ShowsCurrent(feed[c]) => ShowsCurrent(feed[c])'
      BY <1>1, <1>2, <1>10, <2>2 DEF ShowsCurrent
    <3>2. (\A q \in requests'[c] : ~q.current) => \A q \in requests[c] : ~q.current
      BY <1>2, <2>2
    <3> QED BY <1>2, <2>1, <2>2, <3>1, <3>2 DEF ClientInv, UpToDate
  <2>3. CASE r.current /\ Failed \in {r.list, r.count}
    BY <1>2, <1>7, <2>1, <2>3 DEF UpToDate
  <2>4. CASE r.current /\ Failed \notin {r.list, r.count}
    <3>1. r.list = Page(r.filter) /\ r.count = UnreadCount /\ r.filter = feed[c].filter
      BY <1>1, <2>4 DEF ClientInv, UpToDate, OneCurrent, ReadsCurrent
    <3>2. ASSUME NEW k \in Keys, Page(r.filter)[k] # NoRow PROVE items[k] = alerts[k]
      <4>1. Page(r.filter)[k] = alerts[k] /\ Listed(r.filter, alerts[k])
        BY <3>2 DEF Page
      <4>2. Shown(r.filter, alerts[k])
        BY <4>1 DEF Listed, Shown, Unread
      <4> QED BY <3>1, <3>2, <4>1, <4>2 DEF items, Merged
    <3>3. ShowsCurrent(feed[c])'
      BY <1>1, <1>2, <1>7, <1>10, <2>4, <3>1, <3>2 DEF ShowsCurrent
    <3> QED BY <1>2, <2>1, <3>3 DEF UpToDate
  <2> QED BY <2>2, <2>3, <2>4
<1>12. ClientInv(c)'
  BY <1>1, <1>8, <1>11 DEF ClientInv
<1>13. IsFeed(feed'[c])
  BY <1>2, <1>3, <1>7
<1> QED BY <1>1, <1>2, <1>4, <1>12, <1>13

\* What is on its way to a client stays so until it arrives.
LEMMA StillOnItsWay ==
    ASSUME NEW c \in Clients, OnItsWay(c), live'[c] = live[c], c \in untold => c \in untold',
           \A d \in Callers : Published(calls[d]) => Published(calls'[d])
    PROVE  OnItsWay(c)'
BY DEF OnItsWay

\* A step that is not about a client.
LEMMA LeftAlone ==
    ASSUME NEW c \in Clients, ClientInv(c), alerts' = alerts,
           feed'[c] = feed[c], requests'[c] = requests[c], live'[c] = live[c],
           c \in untold => c \in untold',
           \A d \in Callers : Published(calls[d]) => Published(calls'[d])
    PROVE  ClientInv(c)'
<1>1. IsSubscription(live'[c])
  BY DEF ClientInv
<1>2. OnItsWay(c) => OnItsWay(c)'
  BY StillOnItsWay
<1> QED BY <1>1, <1>2, KeptClient

ClientsSound == FeedTypeOK /\ \A c \in Clients : ClientInv(c)

\* Nobody's step, as far as the clients go.
LEMMA QuietStep ==
    ASSUME ClientsSound, UNCHANGED feedVars,
           \A d \in Callers : Published(calls[d]) => Published(calls'[d])
    PROVE  ClientsSound'
<1>1. UNCHANGED <<alerts, live, feed, requests, untold>>
  BY DEF feedVars
<1>2. FeedTypeOK'
  BY <1>1 DEF ClientsSound, FeedTypeOK
<1>3. \A c \in Clients : ClientInv(c)'
  BY <1>1, LeftAlone DEF ClientsSound
<1> QED BY <1>2, <1>3 DEF ClientsSound

\* A client refreshes, and nothing that was published is lost to the others.
LEMMA RefreshStep ==
    ASSUME ClientsSound, NEW c \in Clients, NEW shown, IsFeed(shown), NEW preserve,
           Refresh(c, shown, preserve), alerts' = alerts,
           NEW l \in [subscribed : BOOLEAN, opened : BOOLEAN, pending : Nat],
           IsSubscription(l), live' = [live EXCEPT ![c] = l],
           \A d \in Callers : Published(calls[d]) => Published(calls'[d])
    PROVE  ClientsSound'
<1>1. live'[c] = l /\ \A d \in Clients \ {c} : live'[d] = live[d]
  BY DEF ClientsSound, FeedTypeOK
<1>2. /\ ClientInv(c)'
      /\ IsFeed(feed'[c]) /\ \A r \in requests'[c] : IsRequest(r)
      /\ feed' = [feed EXCEPT ![c] = feed'[c]]
      /\ requests' = [requests EXCEPT ![c] = requests'[c]]
      /\ untold' = untold \ {c}
  BY <1>1, RefreshedClient DEF ClientsSound
<1>3. \A d \in Clients \ {c} : feed'[d] = feed[d] /\ requests'[d] = requests[d]
  BY <1>2 DEF ClientsSound, FeedTypeOK
<1>4. FeedTypeOK'
  <2>1. feed' = [d \in Clients |-> feed'[d]]
    BY <1>2 DEF ClientsSound, FeedTypeOK
  <2>2. requests' = [d \in Clients |-> requests'[d]]
    BY <1>2 DEF ClientsSound, FeedTypeOK
  <2>3. live' \in [Clients -> [subscribed : BOOLEAN, opened : BOOLEAN, pending : Nat]]
    BY DEF ClientsSound, FeedTypeOK
  <2>4. \A d \in Clients : IsFeed(feed'[d]) /\ \A r \in requests'[d] : IsRequest(r)
    BY <1>2, <1>3 DEF ClientsSound, FeedTypeOK
  <2> QED BY <2>1, <2>2, <2>3, <2>4 DEF ClientsSound, FeedTypeOK
<1>5. ASSUME NEW d \in Clients \ {c} PROVE ClientInv(d)'
  <2>1. d \in untold => d \in untold'
    BY <1>2
  <2> QED BY <1>1, <1>3, <2>1, LeftAlone DEF ClientsSound
<1> QED BY <1>2, <1>4, <1>5 DEF ClientsSound

\* Whoever is told an outcome is waiting: no published event is overwritten.
LEMMA FinishKeepsPublished ==
    ASSUME WriterSound, NEW outcome, Finish(outcome)
    PROVE  \A d \in Callers : Published(calls[d]) => Published(calls'[d])
<1>1. \A d \in Callers : d = running.caller => calls[d].pc = "waiting"
  BY WriteActorAssumption DEF WriterSound, Waits
<1>2. \A d \in Callers : d # running.caller => calls'[d] = calls[d]
  BY DEF Finish
<1> QED BY <1>1, <1>2 DEF Published

\* Nor by any other step but the publication and the end of the caller.
LEMMA PublishedStays ==
    ASSUME WriterSound,
           \/ UNCHANGED writerVars
           \/ \E c \in Callers : \E job : Write(c, job)
           \/ \E c \in Callers : Writing(c) \/ Answer(c)
           \/ Receiving \/ Commit \/ RollBack \/ WriterPanics
    PROVE  \A d \in Callers : Published(calls[d]) => Published(calls'[d])
<1> DEFINE Goal == \A d \in Callers : Published(calls[d]) => Published(calls'[d])
<1>1. CASE UNCHANGED writerVars \/ Receiving
  BY <1>1 DEF writerVars, Receiving, Receive
<1>2. ASSUME NEW c \in Callers, ~Published(calls[c]), NEW call,
             calls' = [calls EXCEPT ![c] = call]
      PROVE  Goal
  BY <1>2 DEF WriterSound, WriterTypeOK
<1> HIDE DEF Goal
<1>3. ASSUME NEW c \in Callers, NEW job, Write(c, job) PROVE Goal
  BY <1>2, <1>3 DEF Write, Issue, Published
<1>4. ASSUME NEW c \in Callers, Writing(c) PROVE Goal
  <2>1. calls[c].pc = "sending" /\ \E call : calls' = [calls EXCEPT ![c] = call]
    <3>1. CASE Send(c)
      BY <3>1 DEF Send
    <3>2. CASE SendRefused(c)
      BY <3>2 DEF SendRefused
    <3> QED BY <1>4, <3>1, <3>2 DEF Writing
  <2> QED BY <1>2, <2>1 DEF Published
<1>5. ASSUME NEW c \in Callers, Answer(c) PROVE Goal
  BY <1>2, <1>5 DEF Answer, Published
<1>6. CASE Commit \/ RollBack
  BY <1>6, FinishKeepsPublished DEF Commit, RollBack, Goal
<1>7. CASE WriterPanics
  <2>1. \A d \in Callers : calls[d].pc # "waiting" => calls'[d] = calls[d]
    BY <1>7 DEF WriterPanics, Panic, ToldByStop
  <2> QED BY <2>1 DEF Goal, Published
<1> QED BY <1>1, <1>3, <1>4, <1>5, <1>6, <1>7 DEF Goal

\* A commit that changes a row has its caller publish, or nobody told.
LEMMA CommitStep ==
    ASSUME WriterSound, ClientsSound, Commit
    PROVE  ClientsSound'
<1> DEFINE job == running.job
<1>1. running \in Message
  BY DEF Commit, Finish, WriterSound, WriterTypeOK
<1>2. job \in Jobs /\ running.caller \in Callers \union {NoOne}
  BY <1>1 DEF Message
<1>3. /\ alerts' = Written(job) /\ UNCHANGED <<live, feed, requests>>
      /\ untold' = IF running.caller = NoOne /\ Publishes(job) THEN Clients ELSE untold
      /\ calls' = [c \in Callers |->
                     IF c = running.caller THEN Answered(Outcome(job)) ELSE calls[c]]
  BY DEF Commit, Unannounced, Finish
<1>4. Written(job) \in [Keys -> Row] /\ Outcome(job) \in Outcomes
  BY <1>2, OutcomeIsOne DEF ClientsSound, FeedTypeOK
<1>5. ~Publishes(job) => alerts' = alerts
  BY <1>3 DEF Publishes
<1>6. Outcome(job) # Failed /\ (Publishes(job) => Outcome(job).event)
  BY <1>4, AlertFeedAssumption DEF Outcome
<1> HIDE DEF job
<1>7. FeedTypeOK'
  BY <1>3, <1>4 DEF ClientsSound, FeedTypeOK
<1>8. ASSUME NEW c \in Clients PROVE ClientInv(c)'
  <2>1. CASE Publishes(job) /\ running.caller = NoOne
    <3>1. OnItsWay(c)'
      BY <1>3, <2>1 DEF OnItsWay
    <3> QED BY <1>3, <3>1, KeptClient DEF ClientsSound, ClientInv
  <2>2. CASE Publishes(job) /\ running.caller \in Callers
    <3>1. calls'[running.caller] = Answered(Outcome(job))
      BY <1>3, <2>2
    <3>2. Published(calls'[running.caller])
      BY <1>6, <2>2, <3>1 DEF Published, Answered
    <3>3. OnItsWay(c)'
      BY <2>2, <3>2 DEF OnItsWay
    <3> QED BY <1>3, <3>3, KeptClient DEF ClientsSound, ClientInv
  <2>3. CASE ~Publishes(job)
    <3>1. \A d \in Callers : Published(calls[d]) => Published(calls'[d])
      BY PublishedStays
    <3> QED BY <1>3, <1>5, <2>3, <3>1, LeftAlone DEF ClientsSound
  <2> QED BY <1>2, <2>1, <2>2, <2>3
<1> QED BY <1>7, <1>8 DEF ClientsSound

\* An event reaches every client that is subscribed; one that was is behind until
\* its stream opens again, and one that never was is not told.
LEMMA AnnounceStep ==
    ASSUME WriterSound, ClientsSound, NEW d \in Callers, Announce(d)
    PROVE  ClientsSound'
<1> DEFINE event == calls[d].outcome # Failed /\ calls[d].outcome.event
<1>1. /\ calls[d].pc = "replied"
      /\ live' = [c \in Clients |-> IF event THEN Received(live[c]) ELSE live[c]]
      /\ untold' = untold \union {c \in Clients : event /\ ~live[c].opened}
      /\ UNCHANGED <<alerts, feed, requests>>
      /\ \E call : calls' = [calls EXCEPT ![d] = call]
  BY DEF Announce, Publish
<1>2. event <=> Published(calls[d])
  BY <1>1 DEF Published
<1> HIDE DEF event
<1>3. ASSUME NEW l \in [subscribed : BOOLEAN, opened : BOOLEAN, pending : Nat]
      PROVE  /\ Received(l) \in [subscribed : BOOLEAN, opened : BOOLEAN, pending : Nat]
             /\ Received(l).opened = l.opened /\ Received(l).subscribed = l.subscribed
             /\ l.subscribed => Received(l).pending > 0
             /\ ~l.subscribed => Received(l) = l
  <2> DEFINE n == Min({l.pending, BusCapacity})
  <2>1. n \in Nat
    <3>1. l.pending \in Nat /\ BusCapacity \in Nat
      BY AlertFeedAssumption
    <3>2. n = l.pending \/ n = BusCapacity
      <4>1. \E x \in {l.pending, BusCapacity} : \A y \in {l.pending, BusCapacity} : x <= y
        BY <3>1
      <4> QED BY <4>1 DEF Min
    <3> QED BY <3>1, <3>2
  <2>2. Received(l) = IF l.subscribed THEN [l EXCEPT !.pending = n + 1] ELSE l
    BY DEF Received
  <2> HIDE DEF n
  <2>3. n + 1 \in Nat /\ n + 1 > 0
    BY <2>1
  <2> QED BY <2>2, <2>3
<1>4. FeedTypeOK'
  <2>1. live' \in [Clients -> [subscribed : BOOLEAN, opened : BOOLEAN, pending : Nat]]
    BY <1>1, <1>3 DEF ClientsSound, FeedTypeOK
  <2> QED BY <1>1, <2>1 DEF ClientsSound, FeedTypeOK
<1>5. ASSUME NEW c \in Clients PROVE ClientInv(c)'
  <2>1. live[c] \in [subscribed : BOOLEAN, opened : BOOLEAN, pending : Nat]
        /\ IsSubscription(live[c])
    BY DEF ClientsSound, FeedTypeOK, ClientInv
  <2>2. CASE event
    <3>1. live'[c] = Received(live[c]) /\ (~live[c].opened => c \in untold')
      BY <1>1, <2>2
    <3>2. IsSubscription(live'[c])
      BY <1>3, <2>1, <3>1 DEF IsSubscription
    <3>3. OnItsWay(c)'
      BY <1>3, <2>1, <3>1 DEF OnItsWay
    <3> QED BY <1>1, <3>2, <3>3, KeptClient DEF ClientsSound
  <2>3. CASE ~event
    <3>1. \A e \in Callers : Published(calls[e]) => Published(calls'[e])
      BY <1>1, <1>2, <2>3 DEF WriterSound, WriterTypeOK
    <3>2. live'[c] = live[c]
      BY <1>1, <2>3
    <3> QED BY <1>1, <3>1, <3>2, LeftAlone DEF ClientsSound
  <2> QED BY <2>2, <2>3
<1> QED BY <1>4, <1>5 DEF ClientsSound

\* A caller that goes away with an event untold leaves every client untold.
LEMMA GoAwayStep ==
    ASSUME WriterSound, ClientsSound, NEW d \in Callers, GoAway(d)
    PROVE  ClientsSound'
<1>1. /\ UNCHANGED <<alerts, live, feed, requests>>
      /\ untold' = IF Published(calls[d]) THEN Clients ELSE untold
      /\ calls' = [calls EXCEPT ![d] = Idle]
  BY DEF GoAway, Unannounced, Abort, Published
<1>2. FeedTypeOK'
  BY <1>1 DEF ClientsSound, FeedTypeOK
<1>3. ASSUME NEW c \in Clients PROVE ClientInv(c)'
  <2>1. CASE Published(calls[d])
    <3>1. OnItsWay(c)'
      BY <1>1, <2>1 DEF OnItsWay
    <3> QED BY <1>1, <3>1, KeptClient DEF ClientsSound, ClientInv
  <2>2. CASE ~Published(calls[d])
    <3>1. \A e \in Callers : Published(calls[e]) => Published(calls'[e])
      BY <1>1, <2>2 DEF WriterSound, WriterTypeOK
    <3> QED BY <1>1, <2>2, <3>1, LeftAlone DEF ClientsSound
  <2> QED BY <2>1, <2>2
<1> QED BY <1>2, <1>3 DEF ClientsSound

\* The answer of a command, put into what is shown, is shown until the refresh.
LEMMA SyncedFeed ==
    ASSUME NEW shown, IsFeed(shown), NEW outcome
    PROVE  IsFeed(Synced(shown, outcome))
<1>1. ASSUME NEW items, NEW count
      PROVE  IsFeed([items |-> items, count |-> count, known |-> shown.known,
                     status |-> shown.status, filter |-> shown.filter])
  BY DEF IsFeed
<1>2. ASSUME NEW items
      PROVE  [shown EXCEPT !.items = items] =
                [items |-> items, count |-> shown.count, known |-> shown.known,
                 status |-> shown.status, filter |-> shown.filter]
  BY DEF IsFeed
<1> DEFINE row == outcome.row
           k == CHOOSE j \in Keys : alerts[j].at = row.at
           count == IF outcome.was /\ ~Unread(row) THEN Max({0, shown.count - 1})
                    ELSE IF ~outcome.was /\ Unread(row) THEN shown.count + 1 ELSE shown.count
           items == [shown.items EXCEPT ![k] = IF @ = NoRow THEN NoRow ELSE row]
           read == [j \in Keys |->
                      IF shown.items[j] # NoRow /\ Unread(shown.items[j])
                      THEN [shown.items[j] EXCEPT !.read = TRUE] ELSE shown.items[j]]
<1>3. Synced(shown, outcome) =
         IF row = NoRow THEN [shown EXCEPT !.items = read]
         ELSE [[shown EXCEPT !.items = items] EXCEPT !.count = count]
  BY Zenon DEF Synced
<1> HIDE DEF row, k, count, items, read
<1>4. ASSUME NEW a, a = [items |-> items, count |-> shown.count, known |-> shown.known,
                        status |-> shown.status, filter |-> shown.filter]
      PROVE  IsFeed([a EXCEPT !.count = count])
  <2> DEFINE new == [a EXCEPT !.count = count]
  <2>1. a \in [items : {items}, count : {shown.count}, known : {shown.known},
               status : {shown.status}, filter : {shown.filter}]
    BY <1>4
  <2>2. new \in [items : {items}, count : {count}, known : {shown.known},
                 status : {shown.status}, filter : {shown.filter}]
    BY <2>1
  <2> HIDE DEF new
  <2>3. IsFeed(new)
    BY <2>2 DEF IsFeed
  <2> QED BY <2>3 DEF new
<1>5. CASE row = NoRow
  <2>1. Synced(shown, outcome) = [shown EXCEPT !.items = read]
    BY <1>3, <1>5, Zenon
  <2> QED BY <1>1, <1>2, <2>1
<1>6. CASE row # NoRow
  <2> DEFINE a == [shown EXCEPT !.items = items]
  <2>1. Synced(shown, outcome) = [a EXCEPT !.count = count]
    BY <1>3, <1>6, Zenon
  <2>2. a = [items |-> items, count |-> shown.count, known |-> shown.known,
             status |-> shown.status, filter |-> shown.filter]
    BY <1>2
  <2> HIDE DEF a
  <2> QED BY <1>4, <2>1, <2>2
<1> QED BY <1>5, <1>6

\* The filter is one more column.
LEMMA FilteredFeed ==
    ASSUME NEW shown, IsFeed(shown), NEW filter
    PROVE  IsFeed([shown EXCEPT !.filter = filter])
<1>1. [shown EXCEPT !.filter = filter] =
         [items |-> shown.items, count |-> shown.count, known |-> shown.known,
          status |-> shown.status, filter |-> filter]
  BY DEF IsFeed
<1> QED BY <1>1 DEF IsFeed

\* A stream opens for the first time: nothing has been missed.
LEMMA FirstSubscription ==
    ASSUME ClientsSound, NEW c \in Clients, Subscribe(c), ~live[c].opened
    PROVE  ClientsSound'
<1> DEFINE l == [NewLive EXCEPT !.subscribed = TRUE, !.opened = TRUE]
<1>1. /\ l = [subscribed |-> TRUE, opened |-> TRUE, pending |-> 0]
      /\ ~live[c].subscribed /\ live' = [live EXCEPT ![c] = l]
      /\ UNCHANGED <<writerVars, alerts, feed, requests, untold>>
  <2>1. l \in [subscribed : {TRUE}, opened : {TRUE}, pending : {0}]
    BY DEF NewLive
  <2> HIDE DEF l
  <2>2. l = [subscribed |-> TRUE, opened |-> TRUE, pending |-> 0]
    BY <2>1
  <2>3. ~live[c].subscribed /\ live' = [live EXCEPT ![c] = l]
    BY Zenon DEF Subscribe, l
  <2>4. UNCHANGED <<writerVars, alerts, feed, requests, untold>>
    BY DEF Subscribe
  <2> QED BY <2>2, <2>3, <2>4
<1> HIDE DEF l
<1>2. l \in [subscribed : BOOLEAN, opened : BOOLEAN, pending : Nat] /\ IsSubscription(l)
  BY <1>1 DEF IsSubscription
<1>3. FeedTypeOK'
  BY <1>1, <1>2 DEF ClientsSound, FeedTypeOK
<1>4. \A d \in Clients : live'[d] = IF d = c THEN l ELSE live[d]
  BY <1>1 DEF ClientsSound, FeedTypeOK
<1>5. live[c].pending = 0
  BY <1>1 DEF ClientsSound, ClientInv, IsSubscription
<1>6. \A d \in Callers : Published(calls[d]) => Published(calls'[d])
  BY <1>1 DEF writerVars
<1>7. ASSUME NEW d \in Clients PROVE ClientInv(d)'
  <2>1. CASE d = c
    <3>1. OnItsWay(c) => OnItsWay(c)'
      BY <1>1, <1>5, <1>6 DEF OnItsWay
    <3>2. IsSubscription(live'[c])
      BY <1>2, <1>4
    <3> QED BY <1>1, <2>1, <3>1, <3>2, KeptClient DEF ClientsSound
  <2>2. CASE d # c
    BY <1>1, <1>4, <1>6, <2>2, LeftAlone DEF ClientsSound
  <2> QED BY <2>1, <2>2
<1> QED BY <1>3, <1>7 DEF ClientsSound

\* A stream that breaks leaves its client behind until it opens again.
LEMMA DisconnectStep ==
    ASSUME ClientsSound, NEW c \in Clients, Disconnect(c)
    PROVE  ClientsSound'
<1> DEFINE l == [NewLive EXCEPT !.opened = TRUE]
<1>1. /\ l = [subscribed |-> FALSE, opened |-> TRUE, pending |-> 0]
      /\ live' = [live EXCEPT ![c] = l]
      /\ UNCHANGED <<writerVars, alerts, feed, requests, untold>>
  <2>1. l \in [subscribed : {FALSE}, opened : {TRUE}, pending : {0}]
    BY DEF NewLive
  <2> HIDE DEF l
  <2>2. l = [subscribed |-> FALSE, opened |-> TRUE, pending |-> 0]
    BY <2>1
  <2>3. live' = [live EXCEPT ![c] = l]
    BY Zenon DEF Disconnect, l
  <2>4. UNCHANGED <<writerVars, alerts, feed, requests, untold>>
    BY DEF Disconnect
  <2> QED BY <2>2, <2>3, <2>4
<1> HIDE DEF l
<1>2. l \in [subscribed : BOOLEAN, opened : BOOLEAN, pending : Nat] /\ IsSubscription(l)
  BY <1>1 DEF IsSubscription
<1>3. FeedTypeOK'
  BY <1>1, <1>2 DEF ClientsSound, FeedTypeOK
<1>4. \A d \in Clients : live'[d] = IF d = c THEN l ELSE live[d]
  BY <1>1 DEF ClientsSound, FeedTypeOK
<1>5. \A d \in Callers : Published(calls[d]) => Published(calls'[d])
  BY <1>1 DEF writerVars
<1>6. ASSUME NEW d \in Clients PROVE ClientInv(d)'
  <2>1. CASE d = c
    <3>1. OnItsWay(c)' /\ IsSubscription(live'[c])
      BY <1>1, <1>2, <1>4 DEF OnItsWay
    <3> QED BY <1>1, <2>1, <3>1, KeptClient DEF ClientsSound
  <2>2. CASE d # c
    BY <1>1, <1>4, <1>5, <2>2, LeftAlone DEF ClientsSound
  <2> QED BY <2>1, <2>2
<1> QED BY <1>3, <1>6 DEF ClientsSound

\* A client reads a part of a refresh, or applies one.
LEMMA RequestStep ==
    ASSUME ClientsSound, NEW c \in Clients, NEW r \in requests[c],
           ReadList(c, r) \/ ReadCount(c, r) \/ Apply(c, r)
    PROVE  ClientsSound'
<1>1. /\ ClientInv(c)'
      /\ IsFeed(feed'[c]) /\ \A q \in requests'[c] : IsRequest(q)
      /\ feed' = [feed EXCEPT ![c] = feed'[c]]
      /\ requests' = [requests EXCEPT ![c] = requests'[c]]
      /\ UNCHANGED <<writerVars, alerts, live, untold>>
  <2>1. CASE Apply(c, r)
    <3>1. \A q \in requests[c] : IsRequest(q)
      BY DEF ClientsSound, FeedTypeOK
    <3> QED BY <2>1, <3>1, AppliedByClient DEF ClientsSound
  <2>2. CASE ReadList(c, r) \/ ReadCount(c, r)
    <3>1. /\ ClientInv(c)' /\ \A q \in requests'[c] : IsRequest(q)
          /\ requests' = [requests EXCEPT ![c] = requests'[c]]
          /\ UNCHANGED <<writerVars, alerts, live, feed, untold>>
      BY <2>2, ReadByClient DEF ClientsSound
    <3>2. IsFeed(feed'[c]) /\ feed' = [feed EXCEPT ![c] = feed'[c]]
      BY <3>1 DEF ClientsSound, FeedTypeOK
    <3> QED BY <3>1, <3>2
  <2> QED BY <2>1, <2>2
<1>2. \A d \in Clients \ {c} : feed'[d] = feed[d] /\ requests'[d] = requests[d]
  BY <1>1 DEF ClientsSound, FeedTypeOK
<1>3. FeedTypeOK'
  <2>1. feed' = [d \in Clients |-> feed'[d]]
    BY <1>1 DEF ClientsSound, FeedTypeOK
  <2>2. requests' = [d \in Clients |-> requests'[d]]
    BY <1>1 DEF ClientsSound, FeedTypeOK
  <2>3. \A d \in Clients : IsFeed(feed'[d]) /\ \A q \in requests'[d] : IsRequest(q)
    BY <1>1, <1>2 DEF ClientsSound, FeedTypeOK
  <2> QED BY <1>1, <2>1, <2>2, <2>3 DEF ClientsSound, FeedTypeOK
<1>4. \A d \in Callers : Published(calls[d]) => Published(calls'[d])
  BY <1>1 DEF writerVars
<1>5. \A d \in Clients \ {c} : ClientInv(d)'
  BY <1>1, <1>2, <1>4, LeftAlone DEF ClientsSound
<1> QED BY <1>1, <1>3, <1>5 DEF ClientsSound

\* Every step keeps what is said of the clients.
LEMMA NextClients ==
    ASSUME WriterSound, ClientsSound, [Next]_vars
    PROVE  ClientsSound'
<1>1. ASSUME NEW c \in Clients, NEW shown, IsFeed(shown), NEW preserve,
             Refresh(c, shown, preserve), alerts' = alerts, live' = [live EXCEPT ![c] = live'[c]],
             live'[c] \in [subscribed : BOOLEAN, opened : BOOLEAN, pending : Nat],
             IsSubscription(live'[c]),
             \A d \in Callers : Published(calls[d]) => Published(calls'[d])
      PROVE  ClientsSound'
  BY <1>1, RefreshStep
<1>2. ASSUME NEW c \in Clients
      PROVE  /\ IsFeed(feed[c]) /\ IsSubscription(live[c])
             /\ live = [live EXCEPT ![c] = live[c]]
             /\ live[c] \in [subscribed : BOOLEAN, opened : BOOLEAN, pending : Nat]
  BY DEF ClientsSound, FeedTypeOK, ClientInv
<1>3. ASSUME NEW c \in Clients, NEW shown, IsFeed(shown), NEW preserve,
             Refresh(c, shown, preserve), UNCHANGED <<alerts, live>>,
             \A d \in Callers : Published(calls[d]) => Published(calls'[d])
      PROVE  ClientsSound'
  BY <1>1, <1>2, <1>3
<1>4. ASSUME NEW c \in Callers, NEW job, Write(c, job) PROVE ClientsSound'
  <2>1. \A d \in Callers : Published(calls[d]) => Published(calls'[d])
    BY <1>4, PublishedStays
  <2> QED BY <1>4, <2>1, QuietStep DEF Write
<1>5. ASSUME NEW c \in Callers, Writing(c) PROVE ClientsSound'
  <2>1. \A d \in Callers : Published(calls[d]) => Published(calls'[d])
    BY <1>5, PublishedStays
  <2> QED BY <1>5, <2>1, QuietStep DEF Writing
<1>6. ASSUME NEW c \in Callers, Answer(c) PROVE ClientsSound'
  <2>1. \A d \in Callers : Published(calls[d]) => Published(calls'[d])
    BY <1>6, PublishedStays
  <2>2. CASE calls[c].outcome = Failed
    BY <1>6, <2>1, <2>2, QuietStep DEF Answer, feedVars
  <2>3. CASE calls[c].outcome # Failed
    <3>1. /\ c \in Clients /\ UNCHANGED <<alerts, live>>
          /\ Refresh(c, Synced(feed[c], calls[c].outcome), TRUE)
      BY <1>6, <2>3 DEF Answer
    <3>2. IsFeed(Synced(feed[c], calls[c].outcome))
      BY <1>2, <3>1, SyncedFeed
    <3> QED BY <1>3, <2>1, <3>1, <3>2
  <2> QED BY <2>2, <2>3
<1>7. CASE WriterRuns
  <2>1. \A d \in Callers : Published(calls[d]) => Published(calls'[d])
    BY <1>7, PublishedStays DEF WriterRuns
  <2>2. CASE Receiving
    BY <2>1, <2>2, QuietStep DEF Receiving
  <2>3. CASE RollBack
    BY <2>1, <2>3, QuietStep DEF RollBack
  <2>4. CASE WriterPanics
    BY <2>1, <2>4, QuietStep DEF WriterPanics
  <2> QED BY <1>7, <2>2, <2>3, <2>4, CommitStep DEF WriterRuns
<1>8. ASSUME NEW c \in Clients, MarkAllRead(c) \/ \E k \in Keys : Toggle(c, k)
      PROVE  ClientsSound'
  <2>1. c \in Callers /\ \E job : Write(c, job)
    BY <1>8, AlertFeedAssumption DEF MarkAllRead, Toggle
  <2> QED BY <1>4, <2>1
<1>9. ASSUME NEW c \in Clients, Subscribe(c) PROVE ClientsSound'
  <2>1. CASE live[c].opened
    <3>1. /\ live' = [live EXCEPT ![c] = [NewLive EXCEPT !.subscribed = TRUE, !.opened = TRUE]]
          /\ Refresh(c, feed[c], TRUE) /\ UNCHANGED <<writerVars, alerts>>
      BY <1>9, <2>1 DEF Subscribe
    <3>2. live'[c] = [subscribed |-> TRUE, opened |-> TRUE, pending |-> 0]
      BY <3>1 DEF NewLive, ClientsSound, FeedTypeOK
    <3>3. live' = [live EXCEPT ![c] = live'[c]]
      BY <3>1 DEF ClientsSound, FeedTypeOK
    <3>4. \A d \in Callers : Published(calls[d]) => Published(calls'[d])
      BY <3>1, PublishedStays
    <3>5. /\ live'[c] \in [subscribed : BOOLEAN, opened : BOOLEAN, pending : Nat]
          /\ IsSubscription(live'[c])
      BY <3>2 DEF IsSubscription
    <3> QED BY <1>1, <1>2, <3>1, <3>3, <3>4, <3>5
  <2> QED BY <1>9, <2>1, FirstSubscription
<1>10. ASSUME NEW c \in Clients, Event(c) PROVE ClientsSound'
  <2>1. /\ live[c].pending > 0 /\ live' = [live EXCEPT ![c].pending = @ - 1]
        /\ Refresh(c, feed[c], TRUE) /\ UNCHANGED <<writerVars, alerts>>
    BY <1>10 DEF Event
  <2>2. live[c].pending - 1 \in Nat /\ live[c].subscribed /\ live[c].opened
    BY <1>2, <2>1 DEF IsSubscription
  <2>3. live'[c] = [live[c] EXCEPT !.pending = live[c].pending - 1]
    BY <2>1 DEF ClientsSound, FeedTypeOK
  <2>4. live' = [live EXCEPT ![c] = live'[c]]
    BY <2>1 DEF ClientsSound, FeedTypeOK
  <2>5. /\ live'[c] \in [subscribed : BOOLEAN, opened : BOOLEAN, pending : Nat]
        /\ IsSubscription(live'[c])
    BY <1>2, <2>2, <2>3 DEF IsSubscription
  <2>6. \A d \in Callers : Published(calls[d]) => Published(calls'[d])
    BY <2>1, PublishedStays
  <2> QED BY <1>1, <1>2, <2>1, <2>4, <2>5, <2>6
<1>11. ASSUME NEW c \in Clients,
              Load(c) \/ Look(c) \/ \E filter \in Filters : Select(c, filter)
       PROVE  ClientsSound'
  <2>1. /\ UNCHANGED <<writerVars, alerts, live>>
        /\ \/ \E preserve : Refresh(c, feed[c], preserve)
           \/ \E filter : Refresh(c, [feed[c] EXCEPT !.filter = filter], FALSE)
    BY <1>11 DEF Load, Look, Select
  <2>2. \A filter : IsFeed([feed[c] EXCEPT !.filter = filter])
    BY <1>2, FilteredFeed
  <2>3. \A d \in Callers : Published(calls[d]) => Published(calls'[d])
    BY <2>1, PublishedStays
  <2> QED BY <1>2, <1>3, <2>1, <2>2, <2>3
<1>12. CASE UNCHANGED vars
  BY <1>12, QuietStep DEF vars, writerVars
<1>13. ASSUME NEW c \in Clients,
              \/ Disconnect(c)
              \/ \E r \in requests[c] : ReadList(c, r) \/ ReadCount(c, r) \/ Apply(c, r)
       PROVE  ClientsSound'
  BY <1>13, DisconnectStep, RequestStep
<1>14. ASSUME NEW c \in Callers,
              \/ Announce(c) \/ GoAway(c)
              \/ \E job \in ProducerJobs : Produce(c, job)
       PROVE  ClientsSound'
  BY <1>4, <1>14, AnnounceStep, GoAwayStep DEF Produce
<1>15. CASE Next
  <2>1. ASSUME NEW c \in Callers, Writing(c) \/ Announce(c) \/ GoAway(c) \/ Answer(c)
        PROVE  ClientsSound'
    BY <1>5, <1>6, <1>14, <2>1
  <2> QED BY <1>7, <1>8, <1>9, <1>10, <1>11, <1>13, <1>14, <1>15, <2>1, ZenonT(30) DEF Next
<1> QED BY <1>12, <1>15

-----------------------------------------------------------------------------
(***************************************************************************)
(* The theorems.                                                           *)
(***************************************************************************)
\* Nothing is shown, read or on its way at first.
LEMMA InitSound == Init => FeedInv
<1> SUFFICES ASSUME Init PROVE FeedInv
  OBVIOUS
<1>1. WriterTypeOK
  BY DEF Init, WriterInit, WriterTypeOK, Call
<1>2. Waits
  BY DEF Init, WriterInit, Waits, NoMessage
<1>3. FeedTypeOK
  <2>1. alerts \in [Keys -> Row]
    <3>1. NoRow \in Row /\ [NoRow EXCEPT !.at = 1] \in Row
      BY DEF NoRow, Row
    <3> QED BY <3>1 DEF Init
  <2>2. IsFeed(NewFeed)
    BY DEF IsFeed, NewFeed
  <2> QED BY <2>1, <2>2 DEF Init, FeedTypeOK, NewLive
<1>4. \A c \in Clients : ClientInv(c)
  <2> TAKE c \in Clients
  <2>1. feed[c].status = "idle" /\ requests[c] = {} /\ IsSubscription(live[c])
    BY DEF Init, NewFeed, NewLive, IsSubscription
  <2> QED BY <2>1 DEF ClientInv, OneCurrent, UpToDate
<1> QED BY <1>1, <1>2, <1>3, <1>4 DEF FeedInv

\* What a client shows comes from the newest refresh, which has read nothing that is
\* older than the last change, unless a change is still on its way to the client.
THEOREM FeedSound == Spec => []FeedInv
<1>1. FeedInv /\ [Next]_vars => FeedInv'
  <2> SUFFICES ASSUME FeedInv, [Next]_vars PROVE FeedInv'
    OBVIOUS
  <2>1. WriterSound /\ ClientsSound /\ alerts \in [Keys -> Row]
    BY DEF FeedInv, WriterSound, ClientsSound, FeedTypeOK
  <2>2. WriterSound' /\ ClientsSound'
    BY <2>1, NextWriter, NextClients
  <2> QED BY <2>2 DEF FeedInv, WriterSound, ClientsSound
<1> QED BY <1>1, InitSound, PTL DEF Spec

\* A settled client shows the number of unread alerts and the rows of the first page as
\* they are saved, whatever was lost, overlapped or came out of order before.
THEOREM SettledFeedsAreCurrent == Spec => []SettledFeedIsCurrent
<1>1. FeedInv => SettledFeedIsCurrent
  <2> SUFFICES ASSUME FeedInv, NEW c \in Clients, Settled(c)
               PROVE  ShowsCurrent(feed[c])
    BY DEF SettledFeedIsCurrent, ShowsCurrent
  <2>1. ~OnItsWay(c)
    BY DEF Settled, OnItsWay, Published
  <2>2. UpToDate(c)
    BY DEF FeedInv, ClientInv
  <2> QED BY <2>1, <2>2 DEF UpToDate, Settled
<1> QED BY <1>1, FeedSound, PTL
=============================================================================
