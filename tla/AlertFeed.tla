------------------------------ MODULE AlertFeed ------------------------------
(***************************************************************************)
(* Domain alerts, from the write that changes one to the list a client     *)
(* shows: the rows (db domain_alerts), the writer they are changed through, *)
(* the events published after the reply (core domain_alerts/events.rs), the *)
(* stream or the forwarder that carries them (server live_events.rs, tauri *)
(* lib.rs) and the refreshes of the frontend's list controller.            *)
(*                                                                         *)
(* Older pages (loadOlder) and toasts are left out.                        *)
(***************************************************************************)
EXTENDS WriteActor, FiniteSets, FiniteSetsExt

CONSTANTS Clients,      \* frontends; each is the caller of its own commands
          WebClients,   \* those served over HTTP, the others are desktop windows
          Keys,         \* producer and occurrence key of an alert
          Earlier,      \* the key of an alert of an earlier run of the program
          ProducerJobs, \* what the other callers write: a set of jobs
          Filters,      \* the read states a user selects, of "all", "read", "unread"
          PageSize,     \* DEFAULT_LIST_LIMIT
          BusCapacity,  \* DEFAULT_DOMAIN_ALERT_EVENT_CAPACITY
          Pending,      \* stands for an answer not there yet
          MaxRequests,  \* bound on the refreshes of a client under way
          MaxWrites,    \* bound on the jobs written
          MaxIncidents  \* bound on what interferes: see Incident

\* A row, what a job does, and what its caller learns.
Row == [at : Nat, read : BOOLEAN, resolved : BOOLEAN]
Jobs == [op : {"insert", "open", "resolve", "read", "unread"}, key : Keys]
            \union [op : {"readAll"}]
Outcomes == [event : BOOLEAN, was : BOOLEAN, row : Row]

ASSUME AlertFeedAssumption ==
    /\ Clients \subseteq Callers
    /\ WebClients \subseteq Clients
    /\ IsFiniteSet(Keys) /\ Earlier \in Keys
    /\ ProducerJobs \subseteq Jobs
    /\ Failed \notin Outcomes
    /\ Filters \subseteq {"all", "read", "unread"}
    /\ {PageSize, BusCapacity, MaxRequests, MaxWrites} \subseteq Nat \ {0}
    /\ MaxIncidents \in Nat

VARIABLES alerts,       \* the rows, by key
          live,         \* of each client, its subscription to the events
          feed,         \* what each client shows
          requests,     \* the refreshes it waits for
          untold,       \* clients no event can tell of a change they have not read
          writes,       \* the jobs written so far
          incidents     \* what has interfered so far

feedVars == <<alerts, live, feed, requests, untold>>
bounds == <<writes, incidents>>
vars == <<writerVars, feedVars, bounds>>

NoRow == [at |-> 0, read |-> FALSE, resolved |-> FALSE]
Saved == {k \in Keys : alerts[k] # NoRow}
Unread(row) == ~row.read /\ ~row.resolved

-----------------------------------------------------------------------------
(***************************************************************************)
(* What a job makes of the rows, and whether its caller publishes an event. *)
(***************************************************************************)
NewRow == [at |-> Cardinality(Saved) + 1, read |-> FALSE, resolved |-> FALSE]

\* insert_domain_alert: a key that exists is left alone.
Inserted(row) == IF row = NoRow THEN NewRow ELSE row

\* ensure_open_domain_alert: a resolved alert opens again, as read as it was.
Opened(row) == [Inserted(row) EXCEPT !.resolved = FALSE]

Written(job) ==
    CASE job.op = "insert"   -> [alerts EXCEPT ![job.key] = Inserted(@)]
      [] job.op = "open"     -> [alerts EXCEPT ![job.key] = Opened(@)]
      [] job.op = "resolve"  -> [alerts EXCEPT ![job.key].resolved = alerts[job.key] # NoRow]
      [] job.op = "read"     -> [alerts EXCEPT ![job.key].read = TRUE]
      [] job.op = "unread"   -> [alerts EXCEPT ![job.key].read = FALSE]
      [] job.op = "readAll"  ->
            [k \in Keys |-> [alerts[k] EXCEPT !.read = @ \/ (k \in Saved /\ Unread(alerts[k]))]]

\* ensure_open publishes even when only updated_at is written.
Publishes(job) == Written(job) # alerts \/ job.op = "open"

Outcome(job) ==
    [event |-> Publishes(job),
     was   |-> job.op = "read",     \* unread when the command was given
     row   |-> IF job.op = "readAll" THEN NoRow ELSE Written(job)[job.key]]

-----------------------------------------------------------------------------
\* list_domain_alerts and unread_domain_alert_count.
Listed(filter, row) ==
    /\ row # NoRow
    /\ filter = "read" => row.read
    /\ filter = "unread" => Unread(row)

Page(filter) ==
    LET listed == {k \in Keys : Listed(filter, alerts[k])}
        newer(k) == {j \in listed : alerts[j].at > alerts[k].at}
    IN  [k \in Keys |-> IF k \in listed /\ Cardinality(newer(k)) < PageSize
                        THEN alerts[k] ELSE NoRow]

UnreadCount == Cardinality({k \in Saved : Unread(alerts[k])})

\* matchesAlertFilters.
Shown(filter, row) ==
    /\ row # NoRow
    /\ filter = "unread" => Unread(row)
    /\ filter = "read" => ~Unread(row)

\* mergeReconciledAlertPage: the page over what is shown already.
Merged(items, page, filter) ==
    [k \in Keys |->
        LET row == IF page[k] # NoRow THEN page[k] ELSE items[k]
        IN  IF Shown(filter, row) THEN row ELSE NoRow]

-----------------------------------------------------------------------------
NewLive == [subscribed |-> FALSE, opened |-> FALSE, pending |-> 0]
NewFeed == [items |-> [k \in Keys |-> NoRow], count |-> 0, known |-> FALSE,
            status |-> "idle", filter |-> "unread"]

Init ==
    /\ WriterInit
    /\ alerts = [k \in Keys |-> IF k = Earlier THEN [NoRow EXCEPT !.at = 1] ELSE NoRow]
    /\ live = [c \in Clients |-> NewLive]
    /\ feed = [c \in Clients |-> NewFeed]
    /\ requests = [c \in Clients |-> {}]
    /\ untold = {}
    /\ writes = 0 /\ incidents = 0

\* A job that fails or panics, a caller that goes away, a stream that breaks, a
\* read that fails, a refresh the user asks for.
Incident == incidents < MaxIncidents /\ incidents' = incidents + 1 /\ UNCHANGED writes

Write(c, job) ==
    /\ Issue(c, job)
    /\ writes < MaxWrites /\ writes' = writes + 1
    /\ UNCHANGED <<feedVars, incidents>>

\* Mutant: an answer counts whenever it arrives.
SupersededNever(pending) == pending

\* listRequestIdRef: only the newest request is applied when it is answered.
Superseded(pending) == {[r EXCEPT !.current = FALSE] : r \in pending}

\* refresh: the list and the count are read in two requests.
Refresh(c, shown, preserve) ==
    /\ Cardinality(requests[c]) < MaxRequests
    /\ requests' = [requests EXCEPT ![c] = Superseded(@) \union
          {[current |-> TRUE, preserve |-> preserve, filter |-> shown.filter,
            list |-> Pending, count |-> Pending]}]
    /\ feed' = [feed EXCEPT ![c] =
          [shown EXCEPT !.status = IF @ = "idle" THEN "loading" ELSE @]]
    /\ untold' = untold \ {c}

(***************************************************************************)
(* The events. A receiver that falls behind by more than the capacity of   *)
(* the bus loses the oldest; the stream and the forwarder put one event in *)
(* the place of those.                                                     *)
(***************************************************************************)
Received(l) ==
    IF l.subscribed THEN [l EXCEPT !.pending = Min({@, BusCapacity}) + 1] ELSE l

Publish(event) ==
    /\ live' = [c \in Clients |-> IF event THEN Received(live[c]) ELSE live[c]]
    /\ untold' = untold \union {c \in Clients : event /\ ~live[c].opened}

\* A change nobody publishes.
Unannounced(event) == untold' = IF event THEN Clients ELSE untold

\* The repository publishes after the reply of the writer.
Announce(c) ==
    /\ calls[c].pc = "replied"
    /\ Publish(calls[c].outcome # Failed /\ calls[c].outcome.event)
    /\ calls' = [calls EXCEPT ![c] = IF c \in Clients THEN [@ EXCEPT !.pc = "answered"] ELSE Idle]
    /\ UNCHANGED <<queue, running, writer, alerts, feed, requests, bounds>>

Commit ==
    /\ running # NoMessage
    /\ Finish(Outcome(running.job))
    /\ alerts' = Written(running.job)
    /\ Unannounced(running.caller = NoOne /\ Publishes(running.job))
    /\ UNCHANGED <<live, feed, requests, bounds>>

\* The job returns an error, or the transaction cannot be committed.
RollBack == Finish(Failed) /\ Incident /\ UNCHANGED feedVars

WriterPanics == Panic /\ Incident /\ UNCHANGED feedVars

GoAway(c) ==
    /\ Unannounced(calls[c].pc = "replied" /\ calls[c].outcome # Failed
                     /\ calls[c].outcome.event)
    /\ Abort(c) /\ Incident
    /\ UNCHANGED <<alerts, live, feed, requests>>

-----------------------------------------------------------------------------
\* A web client opens its stream, at once or again after it broke; only the
\* second time does it refresh (hasOpened). A desktop window starts to listen.
Subscribe(c) ==
    /\ ~live[c].subscribed
    /\ live' = [live EXCEPT ![c] = [NewLive EXCEPT !.subscribed = TRUE, !.opened = TRUE]]
    /\ IF live[c].opened THEN Refresh(c, feed[c], TRUE) ELSE UNCHANGED <<feed, requests, untold>>
    /\ UNCHANGED <<writerVars, alerts, bounds>>

\* onReady: the first page. A web client does not wait for its stream.
Load(c) ==
    /\ feed[c].status = "idle"
    /\ c \in WebClients \/ live[c].subscribed
    /\ Refresh(c, feed[c], FALSE)
    /\ UNCHANGED <<writerVars, alerts, live, bounds>>

Disconnect(c) ==
    /\ c \in WebClients /\ live[c].subscribed
    /\ Incident
    /\ live' = [live EXCEPT ![c] = [NewLive EXCEPT !.opened = TRUE]]
    /\ UNCHANGED <<writerVars, alerts, feed, requests, untold>>

\* onReconcile.
Event(c) ==
    /\ live[c].pending > 0
    /\ live' = [live EXCEPT ![c].pending = @ - 1]
    /\ Refresh(c, feed[c], TRUE)
    /\ UNCHANGED <<writerVars, alerts, bounds>>

\* The window gets the focus, or the list is opened.
Look(c) ==
    /\ feed[c].status # "idle" /\ Incident
    /\ Refresh(c, feed[c], TRUE)
    /\ UNCHANGED <<writerVars, alerts, live>>

\* applyFilters.
Select(c, filter) ==
    /\ feed[c].status # "idle" /\ filter # feed[c].filter /\ Incident
    /\ Refresh(c, [feed[c] EXCEPT !.filter = filter], FALSE)
    /\ UNCHANGED <<writerVars, alerts, live>>

ReplaceRequest(c, old, new) == requests' = [requests EXCEPT ![c] = (@ \ {old}) \union new]

ReadList(c, r) ==
    /\ r.list = Pending
    /\ \/ UNCHANGED bounds /\ ReplaceRequest(c, r, {[r EXCEPT !.list = Page(r.filter)]})
       \/ Incident /\ ReplaceRequest(c, r, {[r EXCEPT !.list = Failed]})
    /\ UNCHANGED <<writerVars, alerts, live, feed, untold>>

ReadCount(c, r) ==
    /\ r.count = Pending
    /\ \/ UNCHANGED bounds /\ ReplaceRequest(c, r, {[r EXCEPT !.count = UnreadCount]})
       \/ Incident /\ ReplaceRequest(c, r, {[r EXCEPT !.count = Failed]})
    /\ UNCHANGED <<writerVars, alerts, live, feed, untold>>

\* A part that failed leaves the rows as they are; without a count the number
\* shown is not known.
Refreshed(shown, r) ==
    LET counted == [shown EXCEPT !.known = r.count # Failed,
                                 !.count = IF r.count = Failed THEN @ ELSE r.count]
    IN  IF Failed \in {r.list, r.count} THEN [counted EXCEPT !.status = "error"]
        ELSE [counted EXCEPT !.status = "ready",
                 !.items = IF r.preserve THEN Merged(@, r.list, r.filter) ELSE r.list]

Apply(c, r) ==
    /\ Pending \notin {r.list, r.count}
    /\ feed' = IF r.current THEN [feed EXCEPT ![c] = Refreshed(@, r)] ELSE feed
    /\ ReplaceRequest(c, r, {})
    /\ UNCHANGED <<writerVars, alerts, live, untold, bounds>>

-----------------------------------------------------------------------------
\* toggleAlertReadState and markAllRead.
Toggle(c, k) ==
    /\ feed[c].items[k] # NoRow
    /\ Write(c, [op |-> IF Unread(feed[c].items[k]) THEN "read" ELSE "unread", key |-> k])

MarkAllRead(c) ==
    /\ feed[c].known /\ feed[c].count > 0
    /\ Write(c, [op |-> "readAll"])

\* syncAlertUpdate, or what markAllRead makes of the rows shown.
Synced(shown, outcome) ==
    LET row == outcome.row
        k   == CHOOSE j \in Keys : alerts[j].at = row.at
    IN  IF row = NoRow
        THEN [shown EXCEPT !.items = [j \in Keys |->
                IF @[j] # NoRow /\ Unread(@[j]) THEN [@[j] EXCEPT !.read = TRUE] ELSE @[j]]]
        ELSE [shown EXCEPT
                !.items[k] = IF @ = NoRow THEN NoRow ELSE row,
                !.count = IF outcome.was /\ ~Unread(row) THEN Max({0, @ - 1})
                          ELSE IF ~outcome.was /\ Unread(row) THEN @ + 1 ELSE @]

\* The answer of its own command: the rows are brought up to date, then
\* refreshed. An error is shown and nothing else.
Answer(c) ==
    /\ c \in Clients /\ calls[c].pc = "answered"
    /\ calls' = [calls EXCEPT ![c] = Idle]
    /\ IF calls[c].outcome = Failed THEN UNCHANGED <<feed, requests, untold>>
       ELSE Refresh(c, Synced(feed[c], calls[c].outcome), TRUE)
    /\ UNCHANGED <<queue, running, writer, alerts, live, bounds>>

Produce(c, job) == c \notin Clients /\ Write(c, job)

Writing(c) == (Send(c) \/ SendRefused(c)) /\ UNCHANGED <<feedVars, bounds>>

Receiving == Receive /\ UNCHANGED <<feedVars, bounds>>

WriterRuns == Receiving \/ Commit \/ RollBack \/ WriterPanics

Next ==
    \/ \E c \in Callers : Writing(c) \/ Announce(c) \/ GoAway(c) \/ Answer(c)
    \/ \E c \in Callers, job \in ProducerJobs : Produce(c, job)
    \/ WriterRuns
    \/ \E c \in Clients :
          \/ Subscribe(c) \/ Load(c) \/ Disconnect(c) \/ Event(c) \/ Look(c)
          \/ MarkAllRead(c)
          \/ \E k \in Keys : Toggle(c, k)
          \/ \E filter \in Filters : Select(c, filter)
          \/ \E r \in requests[c] : ReadList(c, r) \/ ReadCount(c, r) \/ Apply(c, r)

Spec == Init /\ [][Next]_vars

\* The writer's thread goes on as long as there are jobs, and the channel serves
\* a waiting sender in its turn.
Fairness == WF_vars(WriterRuns) /\ \A c \in Clients : SF_vars(Writing(c))

FairSpec == Spec /\ Fairness

-----------------------------------------------------------------------------
\* A command of a client ends, with its outcome or with an error, unless the
\* client goes away: it does not wait forever for a full queue, for a writer that
\* has stopped or for a reply that was dropped (write_actor.rs).
CommandsEnd ==
    \A c \in Clients :
        calls[c].pc \in {"sending", "waiting"} ~> calls[c].pc \notin {"sending", "waiting"}

\* Nothing is on its way to client c: no event, no answer, no request, and no
\* event still to be published.
Settled(c) ==
    /\ feed[c].status = "ready" /\ c \notin untold
    /\ live[c].subscribed /\ live[c].pending = 0
    /\ \A r \in requests[c] : ~r.current
    /\ calls[c].pc # "answered"
    /\ \A d \in Callers : calls[d].pc # "replied"

\* A settled client shows the number of unread alerts, and the rows of the
\* first page, as they are saved: whatever overlapped (changes between the two
\* reads of a refresh, refreshes that overtake each other, lost connections, a
\* bus that overflowed), the last event leads to a refresh that is applied
\* last. Not covered: a change whose event was never published because the
\* request that made it was dropped, and one made before a web client opened
\* its stream for the first time.
SettledFeedIsCurrent ==
    \A c \in Clients : Settled(c) =>
        /\ feed[c].known /\ feed[c].count = UnreadCount
        /\ \A k \in Keys : Page(feed[c].filter)[k] # NoRow =>
              feed[c].items[k] = alerts[k]

=============================================================================
