------------------------------ MODULE RunStream ------------------------------
(***************************************************************************)
(* One run seen from outside: the worker thread that drains the pipeline's *)
(* generator, the in-memory registry it publishes to, the rows it commits, *)
(* the WebSocket streams that replay and follow it, cancellation, the      *)
(* retention purge and the eviction of old runs.                           *)
(*                                                                         *)
(* A worker's step ends at a commit, at a publish or where it reads the    *)
(* cancel flag.  A stream's step is what its coroutine does between two    *)
(* awaits.  What the registry does under its lock is one step.             *)
(***************************************************************************)
EXTENDS Naturals, Sequences, FiniteSets, SequencesExt

CONSTANTS
    Runs,         \* run ids
    Members,      \* streams of signed-in users, authenticated by a ticket
    Visitors,     \* streams of share-link visitors, authenticated by a cookie
    Retained,     \* _MAX_RETAINED_RUNS
    Nodes,        \* agent nodes of a pipeline, numbered as their events come
    Workers,      \* threads of the executor
    Remembering,  \* the runs whose pipeline has a memory
    Solo,         \* the runs of a pipeline of one agent; the others have all Nodes
    Parallel,     \* the runs whose nodes are siblings of one superstep
    Diagnostic,   \* the diagnostic re-runs
    MaxDeltas,    \* bound: pieces of text a node streams
    MaxStreams,   \* bound: streams that are ever opened
    MaxUpsets     \* bound: cancellations, purges, lapses of access, failed writes of a
                  \* worker and restarts

ASSUME StreamAssumption ==
    /\ Retained \in Nat /\ Nodes \in Nat \ {0} /\ Workers \in Nat \ {0}
    /\ MaxDeltas \in Nat /\ MaxStreams \in Nat /\ MaxUpsets \in Nat
    /\ Runs # {} /\ Remembering \cup Solo \cup Parallel \cup Diagnostic \subseteq Runs
    /\ Members \cap Visitors = {}

VARIABLES
    entry,      \* RunRegistry._runs with its cancel flag and live previews
    order,      \* the insertion order of _runs
    subscribed, \* RunRegistry._subscribers
    row,        \* the runs row
    trace,      \* whether trace_events holds anything of a run
    driver,     \* the worker thread of a run
    stream,     \* the WebSocket handlers
    account,    \* the member's account, organisation and share link
    \* history and bounds
    log,        \* every event published for a run the registry has
    scrubbed,   \* how many of them a purge took out of the registry
    unmetered,  \* model calls of a run that may be paid for and were not handed to the meter
    upsets

streamVars == <<entry, order, subscribed, row, trace, driver, stream, account,
                log, scrubbed, unmetered, upsets>>

Viewers == Members \cup Visitors

----------------------------------------------------------------------------
(* Events.  "work" stands for the granular events of a node, which the     *)
(* adapter buffers and flushes just before its "done" (agent_completed).   *)
(* Siblings run at once, and the events of one come without those of       *)
(* another in between.                                                     *)

Event(type, node) == [type |-> type, node |-> node]

Events == [type : {"queued", "started", "recalled", "work", "done", "completed",
                   "failed", "cancelled", "recorded"}, node : 0..Nodes]

Outcomes == {"completed", "failed", "cancelled"}

Terminal(event) == event.type \in Outcomes

\* _BUFFERED_NODE_EVENT_TYPES has every granular event but the prompts and the model
\* turns, which a diagnostic run's trace contains.
Buffered(event, r) == event.type = "work" /\ r \notin Diagnostic

\* The model calls whose usage an event carries.
Carries(event) == IF event.type \in {"done", "recalled", "recorded"} THEN {event} ELSE {}

\* What Pipeline.stream may yield after an event: a node's events, then
\* run_completed and the recording of the run in memory, or run_failed.
LastNode(r) == IF r \in Solo THEN 1 ELSE Nodes

FromNode(n, r) == IF n > LastNode(r) THEN {Event("completed", 0)}
                  ELSE {Event("work", n), Event("failed", 0)}

Yields(event, r) ==
    CASE event.type = "queued" -> {Event("started", 0)}
      [] event.type = "started" ->
            IF r \in Remembering THEN {Event("recalled", 0)} ELSE FromNode(1, r)
      [] event.type = "recalled" -> FromNode(1, r)
      [] event.type = "work" -> {Event("done", event.node)}
      [] event.type = "done" -> FromNode(event.node + 1, r)
      [] event.type = "completed" /\ r \in Remembering -> {Event("recorded", 0)}
      [] OTHER -> {}

----------------------------------------------------------------------------
(* The registry: each operator is what one method does under its lock.     *)

NoEntry == [kept |-> FALSE, status |-> "running", events |-> <<>>, text |-> <<>>,
            working |-> {}, cancel |-> FALSE]

\* What a subscriber's queue holds: recorded events and the transient ones.
EventItem(event) == [kind |-> "event", event |-> event, text |-> <<>>]
DeltaItem(text) == [kind |-> "delta", event |-> Event("work", 0), text |-> text]
ResetItem == [kind |-> "reset", event |-> Event("work", 0), text |-> <<>>]
WorkingItem(n) == [kind |-> "working", event |-> Event("work", n), text |-> <<>>]

\* _evict_if_over_bound: the oldest terminal runs nobody is subscribed to,
\* until the registry is within its bound.
Evictable(r, entries) ==
    entries[r].kept /\ entries[r].status # "running" /\ subscribed[r] = {}

EvictedAnyway(entries, ids) ==
    LET over == Cardinality({r \in Runs : entries[r].kept}) - Retained
        Old(r) == entries[r].kept /\ entries[r].status # "running"
        Older(r) == {q \in Runs : /\ Old(q)
                                  /\ IndexFirstSubSeq(<<q>>, ids) < IndexFirstSubSeq(<<r>>, ids)}
    IN {r \in Runs : Old(r) /\ Cardinality(Older(r)) < over}

Evicted(entries, ids) ==
    LET over == Cardinality({r \in Runs : entries[r].kept}) - Retained
        Older(r) == {q \in Runs : /\ Evictable(q, entries)
                                  /\ IndexFirstSubSeq(<<q>>, ids) < IndexFirstSubSeq(<<r>>, ids)}
    IN {r \in Runs : Evictable(r, entries) /\ Cardinality(Older(r)) < over}

\* publish: append, take the status of a terminal event, drop the previews
\* the event supersedes.
Published(e, event) ==
    [e EXCEPT !.events = Append(@, event),
              !.status = IF Terminal(event) THEN event.type ELSE @,
              !.text = IF Terminal(event) THEN <<>> ELSE @,
              !.working = IF Terminal(event) THEN {}
                          ELSE IF event.type = "done" THEN @ \ {event.node} ELSE @]

\* What every subscriber of the run finds in its queue.
Notify(r, item) ==
    stream' = [v \in Viewers |->
        IF v \in subscribed[r] THEN [stream[v] EXCEPT !.queue = Append(@, item)]
        ELSE stream[v]]

\* subscribe: the events so far, one delta with the text so far, the agents
\* at work.
ReplayWithoutPreview(e) ==
    [i \in 1..Len(e.events) |-> EventItem(e.events[i])]
    \o [i \in 1..Cardinality(e.working) |-> WorkingItem(SetToSeq(e.working)[i])]

Replay(e) ==
    [i \in 1..Len(e.events) |-> EventItem(e.events[i])]
    \o (IF e.text = <<>> THEN <<>> ELSE <<DeltaItem(e.text)>>)
    \o [i \in 1..Cardinality(e.working) |-> WorkingItem(SetToSeq(e.working)[i])]

\* Faulty: a run at work is purged too.
ForgottenAtWork(e) ==
    IF ~e.kept THEN e ELSE [e EXCEPT !.events = <<>>, !.text = <<>>, !.working = {}]

\* purge_content: a running run is left alone.
Forgotten(e) ==
    IF ~e.kept \/ e.status = "running" THEN e
    ELSE [e EXCEPT !.events = <<>>, !.text = <<>>, !.working = {}]

----------------------------------------------------------------------------
Idle == [pc |-> "none", event |-> Event("queued", 0), sent |-> 0]

Over == [Idle EXCEPT !.pc = "over"]

Closed == [pc |-> "none", run |-> CHOOSE r \in Runs : TRUE, stamp |-> 0, queue |-> <<>>,
           got |-> <<>>, from |-> 0, cut |-> 0, screen |-> <<>>, strip |-> {}]

Entries == [kept : BOOLEAN, status : Outcomes \cup {"running"}, events : Seq(Events),
            text : Seq(Nat), working : SUBSET (1..Nodes), cancel : BOOLEAN]

Items == [kind : {"event", "delta", "reset", "working"}, event : Events, text : Seq(Nat)]

Streams == [pc : {"none", "ticket", "accepted", "streaming", "closed"}, run : Runs, stamp : Nat,
            queue : Seq(Items), got : Seq(Events), from : Nat, cut : Nat,
            screen : Seq(Nat), strip : SUBSET (0..Nodes)]

Drivers == [pc : {"none", "persistRow", "pull", "commit", "salvage", "publish", "record", "over"},
            event : Events, sent : 0..MaxDeltas]

StreamTypeOK ==
    /\ entry \in [Runs -> Entries] /\ stream \in [Viewers -> Streams]
    /\ subscribed \in [Runs -> SUBSET Viewers]
    /\ row \in [Runs -> [status : Outcomes \cup {"none", "running"}, purged : BOOLEAN]]
    /\ trace \in [Runs -> BOOLEAN] /\ driver \in [Runs -> Drivers]
    /\ account \in [stamp : Nat, active : BOOLEAN, link : BOOLEAN]
    /\ log \in [Runs -> Seq(Events)] /\ scrubbed \in [Runs -> Nat]
    /\ unmetered \in [Runs -> SUBSET Events] /\ upsets \in 0..MaxUpsets

StreamInit ==
    /\ entry = [r \in Runs |-> NoEntry] /\ order = <<>>
    /\ subscribed = [r \in Runs |-> {}]
    /\ row = [r \in Runs |-> [status |-> "none", purged |-> FALSE]]
    /\ trace = [r \in Runs |-> FALSE]
    /\ driver = [r \in Runs |-> Idle]
    /\ stream = [v \in Viewers |-> Closed]
    /\ account = [stamp |-> 0, active |-> TRUE, link |-> TRUE]
    /\ log = [r \in Runs |-> <<>>] /\ scrubbed = [r \in Runs |-> 0]
    /\ unmetered = [r \in Runs |-> {}]
    /\ upsets = 0

registryVars == <<entry, order, subscribed>>
historyVars == <<log, scrubbed, unmetered>>

Upset == upsets < MaxUpsets /\ upsets' = upsets + 1

----------------------------------------------------------------------------
(* Requests.                                                               *)

\* POST /api/runs: registry.create under a new id, with its eviction, and the
\* submission.
Fresh == CHOOSE r \in Runs : driver[r].pc = "none"

CreateRun(r) ==
    /\ driver[r].pc = "none" /\ r = Fresh
    /\ LET entries == [entry EXCEPT ![r] = [NoEntry EXCEPT !.kept = TRUE]]
           ids == Append(order, r)
           gone == Evicted(entries, ids)
       IN /\ entry' = [q \in Runs |-> IF q \in gone THEN NoEntry ELSE entries[q]]
          /\ order' = SelectSeq(ids, LAMBDA q : q \notin gone)
          /\ log' = [q \in Runs |-> IF q \in gone THEN <<>> ELSE log[q]]
          /\ scrubbed' = [q \in Runs |-> IF q \in gone THEN 0 ELSE scrubbed[q]]
    /\ driver' = [driver EXCEPT ![r] = [Idle EXCEPT !.pc = "persistRow"]]
    /\ UNCHANGED <<subscribed, row, trace, stream, account, unmetered, upsets>>

\* POST /api/runs/{id}/cancel: registry.request_cancel.
CancelRun(r) ==
    /\ entry[r].kept /\ entry[r].status = "running" /\ ~entry[r].cancel
    /\ Upset
    /\ entry' = [entry EXCEPT ![r].cancel = TRUE]
    /\ UNCHANGED <<order, subscribed, row, trace, driver, stream, account, historyVars>>

\* POST /api/runs/{id}/purge and the retention sweep: the rows and the copy in
\* the registry.  The write lock is held from the DELETE to the commit.
PurgeRun(r) ==
    /\ row[r].status \in Outcomes /\ ~row[r].purged
    /\ Upset
    /\ row' = [row EXCEPT ![r].purged = TRUE]
    /\ trace' = [trace EXCEPT ![r] = FALSE]
    /\ entry' = [entry EXCEPT ![r] = Forgotten(@)]
    /\ scrubbed' = [scrubbed EXCEPT ![r] = IF Forgotten(entry[r]) # entry[r] THEN Len(log[r]) ELSE @]
    /\ UNCHANGED <<order, subscribed, driver, stream, account, log, unmetered>>

\* A password reset gives the account a new security stamp; the operator
\* suspends or resumes the organisation; the member revokes the link.
Allowed(v, acc) ==
    /\ acc.active
    /\ IF v \in Members THEN stream[v].stamp = acc.stamp ELSE acc.link

ChangeAccount(acc) ==
    /\ Upset
    /\ account' = acc
    /\ stream' = [v \in Viewers |->
        IF stream[v].pc # "closed" /\ Allowed(v, account) /\ ~Allowed(v, acc)
        THEN [stream[v] EXCEPT !.cut = Len(log[stream[v].run])] ELSE stream[v]]
    /\ UNCHANGED <<registryVars, row, trace, driver, historyVars>>

ResetPassword == ChangeAccount([account EXCEPT !.stamp = @ + 1])
ToggleOrg == ChangeAccount([account EXCEPT !.active = ~@])
RevokeLink == account.link /\ ChangeAccount([account EXCEPT !.link = FALSE])

----------------------------------------------------------------------------
(* The worker thread: run_in_background.                                   *)

Go(r, pc) == driver' = [driver EXCEPT ![r].pc = pc]

\* The event is ready to be published, or its status to be committed first.
NextStop(event) == IF Terminal(event) THEN "commit" ELSE "publish"

\* The row is inserted before anything refers to it, then run_queued.
PersistRow(r) ==
    /\ driver[r].pc = "persistRow"
    /\ Cardinality({q \in Runs : driver[q].pc \notin {"none", "persistRow", "over"}}) < Workers
    /\ \/ /\ UNCHANGED upsets
          /\ row' = [row EXCEPT ![r].status = "running"]
          /\ driver' = [driver EXCEPT ![r].pc = "publish", ![r].event = Event("queued", 0)]
       \/ /\ Upset
          /\ UNCHANGED row
          /\ driver' = [driver EXCEPT ![r].pc = "salvage", ![r].event = Event("failed", 0)]
    /\ UNCHANGED <<registryVars, trace, stream, account, historyVars>>

\* The nodes at work while the worker waits for an event: the one whose events come
\* next, and its siblings that are not done.
NodesAtWork(r) ==
    LET event == driver[r].event
        next == {e.node : e \in {e \in Yields(event, r) : e.type = "work"}}
        first == IF event.type = "work" THEN {event.node + 1} ELSE next
    IN IF r \in Parallel THEN {n \in 1..LastNode(r) : \E m \in first : m <= n} ELSE next

\* The calls that may have been made when the generator yields an event: by every node
\* at work, whether its events come or it raises; by the query expansion before
\* run_started; by the extraction.
Pays(event, r) ==
    CASE event.type \in {"work", "failed"} -> {Event("done", n) : n \in NodesAtWork(r)}
      [] event.type = "started" /\ r \in Remembering -> {Event("recalled", 0)}
      [] event.type = "recorded" -> {event}
      [] OTHER -> {}

\* The generator runs to its next event, or raises: the compilation that
\* precedes run_started is not covered by its handler.
Pull(r) ==
    /\ driver[r].pc = "pull"
    /\ \/ \E event \in Yields(driver[r].event, r) :
            /\ driver' = [driver EXCEPT ![r].pc = NextStop(event), ![r].event = event]
            /\ unmetered' = [unmetered EXCEPT ![r] = @ \cup Pays(event, r)]
       \/ /\ driver[r].event.type = "queued"
          /\ driver' = [driver EXCEPT ![r].pc = "salvage", ![r].event = Event("failed", 0)]
          /\ UNCHANGED unmetered
       \/ /\ Yields(driver[r].event, r) = {}
          /\ driver' = [driver EXCEPT ![r] = Over]
          /\ UNCHANGED unmetered
    /\ UNCHANGED <<registryVars, row, trace, stream, account, log, scrubbed, upsets>>

\* The terminal status is committed, and the rows that go with it written,
\* before the terminal event is published.
Commit(r) ==
    /\ driver[r].pc = "commit"
    /\ \/ /\ UNCHANGED upsets
          /\ row' = [row EXCEPT ![r].status = driver[r].event.type]
          /\ Go(r, "publish")
       \/ /\ Upset
          /\ UNCHANGED row
          /\ driver' = [driver EXCEPT ![r].pc = "salvage", ![r].event = Event("failed", 0)]
    /\ UNCHANGED <<registryVars, trace, stream, account, historyVars>>

\* The catch-all: no terminal event was seen, so the run is failed; if even
\* that write fails the event is published all the same.
Salvage(r) ==
    /\ driver[r].pc = "salvage"
    /\ \/ UNCHANGED upsets /\ row' = [row EXCEPT ![r].status = "failed"]
       \/ Upset /\ UNCHANGED row
    /\ Go(r, "publish")
    /\ UNCHANGED <<registryVars, trace, stream, account, historyVars>>

\* registry.publish; a run that was evicted takes no more events.
Publish(r) ==
    LET event == driver[r].event IN
    /\ driver[r].pc = "publish"
    /\ IF entry[r].kept
       THEN /\ entry' = [entry EXCEPT ![r] = Published(@, event)]
            /\ log' = [log EXCEPT ![r] = Append(@, event)]
            /\ Notify(r, EventItem(event))
       ELSE UNCHANGED <<entry, log, stream>>
    /\ Go(r, "record")
    /\ UNCHANGED <<order, subscribed, row, trace, account, scrubbed, unmetered, upsets>>

\* The cancel flag is honoured after an event that is neither buffered nor followed at
\* once by the one that carries the usage.
MayStopAnywhere(event, r) == ~Terminal(event) /\ event.type # "recorded"

MayStop(event, r) ==
    /\ ~Terminal(event) /\ event.type # "recorded"
    /\ ~Buffered(event, r)
    /\ ~(event.type = "started" /\ r \in Remembering)

\* _safe_record_trace_event and _safe_record_usage, whose failures are swallowed
\* (a run without a row can have no trace), then the look at the cancel flag.
RecordTrace(r) ==
    LET event == driver[r].event
        stop == entry[r].cancel /\ MayStop(event, r)
    IN
    /\ driver[r].pc = "record"
    /\ \/ /\ UNCHANGED upsets
          /\ trace' = [trace EXCEPT ![r] = row[r].status # "none"]
       \/ Upset /\ UNCHANGED trace
    /\ unmetered' = [unmetered EXCEPT ![r] = @ \ Carries(event)]
    /\ driver' = [driver EXCEPT ![r] =
            IF stop THEN [@ EXCEPT !.event = Event("cancelled", 0), !.pc = "commit"]
            ELSE IF event.type \in {"failed", "cancelled"} THEN Over
            ELSE [@ EXCEPT !.pc = "pull"]]
    /\ UNCHANGED <<registryVars, row, stream, account, log, scrubbed>>

\* While nodes run, their sinks publish what is never recorded: that the agent is at
\* work, the pieces of its text, or that they belonged to a tool call.  Only the last
\* node streams its text, and no sibling does.
PublishTransient(r) ==
    /\ driver[r].pc = "pull" /\ entry[r].kept
    /\ \E n \in NodesAtWork(r) :
        \/ /\ n \notin entry[r].working
           /\ entry' = [entry EXCEPT ![r].working = @ \cup {n}]
           /\ Notify(r, WorkingItem(n))
           /\ UNCHANGED driver
        \/ /\ n = LastNode(r) /\ n \in entry[r].working /\ r \notin Parallel
           /\ driver[r].sent < MaxDeltas
           /\ LET piece == <<driver[r].sent + 1>> IN
                /\ entry' = [entry EXCEPT ![r].text = @ \o piece]
                /\ Notify(r, DeltaItem(piece))
                /\ driver' = [driver EXCEPT ![r].sent = @ + 1]
        \/ /\ entry[r].text # <<>>
           /\ entry' = [entry EXCEPT ![r].text = <<>>]
           /\ Notify(r, ResetItem)
           /\ UNCHANGED driver
    /\ UNCHANGED <<order, subscribed, row, trace, account, historyVars, upsets>>

Worker(r) ==
    \/ PersistRow(r) \/ Pull(r) \/ Commit(r) \/ Salvage(r) \/ Publish(r)
    \/ RecordTrace(r)

----------------------------------------------------------------------------
(* The WebSocket handlers: stream_run and stream_share_run.                *)

Unchanging == <<row, trace, driver, account, historyVars, upsets>>

Opened == Cardinality({v \in Viewers : stream[v].pc # "none"})

\* POST /api/runs/ws-ticket: the ticket carries the account's stamp.
IssueTicket(v) ==
    /\ v \in Members /\ stream[v].pc = "none" /\ account.active
    /\ Opened < MaxStreams
    /\ stream' = [stream EXCEPT ![v].pc = "ticket", ![v].stamp = account.stamp]
    /\ UNCHANGED <<registryVars, Unchanging>>

\* The ticket is consumed, or has expired; the run is looked up and the access
\* checked before the socket is accepted.
Connect(v, r) ==
    /\ stream[v].pc = IF v \in Members THEN "ticket" ELSE "none"
    /\ v \in Visitors => Opened < MaxStreams
    /\ \/ /\ entry[r].kept /\ Allowed(v, account)
          /\ stream' = [stream EXCEPT ![v].pc = "accepted", ![v].run = r]
       \/ /\ ~entry[r].kept \/ ~Allowed(v, account) \/ v \in Members
          /\ stream' = [stream EXCEPT ![v] = [Closed EXCEPT !.pc = "closed"]]
    /\ UNCHANGED <<registryVars, Unchanging>>

\* registry.subscribe, after the await of accept: the run may be gone.
Subscribe(v) ==
    LET r == stream[v].run IN
    /\ stream[v].pc = "accepted"
    /\ IF entry[r].kept
       THEN /\ subscribed' = [subscribed EXCEPT ![r] = @ \cup {v}]
            /\ stream' = [stream EXCEPT ![v].pc = "streaming", ![v].queue = Replay(entry[r]),
                                        ![v].from = scrubbed[r]]
       ELSE /\ stream' = [stream EXCEPT ![v] = [Closed EXCEPT !.pc = "closed"]]
            /\ UNCHANGED subscribed
    /\ UNCHANGED <<entry, order, Unchanging>>

\* What the page shows after an item: the text pieced together, the agents at
\* work, and neither once the run is over.
Shown(s, item) ==
    CASE item.kind = "delta" -> [s EXCEPT !.screen = @ \o item.text]
      [] item.kind = "reset" -> [s EXCEPT !.screen = <<>>]
      [] item.kind = "working" -> [s EXCEPT !.strip = @ \cup {item.event.node}]
      [] item.kind = "event" ->
            [s EXCEPT !.got = Append(@, item.event),
                      !.screen = IF Terminal(item.event) THEN <<>> ELSE @,
                      !.strip = IF Terminal(item.event) THEN {}
                                ELSE IF item.event.type = "done" THEN @ \ {item.event.node} ELSE @]

\* An event is taken from the queue, the access checked again, the event sent;
\* the stream ends at the terminal event, when access is gone, or when the
\* send finds the client gone.
MaySendOnceConnected(v) == TRUE
MaySend(v) == Allowed(v, account)

Deliver(v) ==
    LET s == stream[v]
        item == Head(s.queue)
        shown == Shown([s EXCEPT !.queue = Tail(@)], item)
        last == item.kind = "event" /\ Terminal(item.event)
        over == IF Allowed(v, account) THEN [Closed EXCEPT !.pc = "closed"]
                ELSE [s EXCEPT !.pc = "closed", !.queue = <<>>, !.screen = <<>>, !.strip = {}]
        Ends(record) == /\ stream' = [stream EXCEPT ![v] = record]
                        /\ subscribed' = [subscribed EXCEPT ![s.run] = @ \ {v}]
    IN
    /\ s.pc = "streaming" /\ s.queue # <<>>
    /\ \/ /\ MaySend(v) /\ ~last
          /\ stream' = [stream EXCEPT ![v] = shown]
          /\ UNCHANGED subscribed
       \/ MaySend(v) /\ last /\ Ends([over EXCEPT !.got = IF Allowed(v, account) THEN @ ELSE shown.got])
       \/ Ends(over)
    /\ UNCHANGED <<entry, order, Unchanging>>

\* The process is restarted: only the rows survive, and fail_interrupted_runs
\* fails the runs that were running.
Restart ==
    /\ Upset
    /\ entry' = [r \in Runs |-> NoEntry] /\ order' = <<>>
    /\ subscribed' = [r \in Runs |-> {}]
    /\ driver' = [r \in Runs |-> IF driver[r].pc = "none" THEN Idle ELSE Over]
    /\ stream' = [v \in Viewers |-> Closed]
    /\ log' = [r \in Runs |-> <<>>] /\ scrubbed' = [r \in Runs |-> 0]
    /\ unmetered' = [r \in Runs |-> {}]
    /\ row' = [r \in Runs |-> IF row[r].status = "running"
                              THEN [row[r] EXCEPT !.status = "failed"] ELSE row[r]]
    /\ UNCHANGED <<trace, account>>

StreamNext ==
    \/ \E r \in Runs : CreateRun(r)
    \/ \E r \in Runs : CancelRun(r)
    \/ \E r \in Runs : PurgeRun(r)
    \/ \E r \in Runs : Worker(r)
    \/ \E r \in Runs : PublishTransient(r)
    \/ \E v \in Viewers : IssueTicket(v)
    \/ \E v \in Viewers, r \in Runs : Connect(v, r)
    \/ \E v \in Viewers : Subscribe(v)
    \/ \E v \in Viewers : Deliver(v)
    \/ ResetPassword \/ ToggleOrg \/ RevokeLink
    \/ Restart

StreamSpec == StreamInit /\ [][StreamNext]_streamVars

----------------------------------------------------------------------------
(* Properties.                                                             *)

Streaming(v) == stream[v].pc = "streaming"

\* The recorded events in a stream's queue, among previews, and the place in the
\* run's log of the one at i.
Waiting(s) == {i \in 1..Len(s.queue) : s.queue[i].kind = "event"}

Place(s, i) == s.from + Len(s.got) + Cardinality({j \in Waiting(s) : j <= i})

\* What a stream was sent is the log from where its replay began, and the events
\* that wait in its queue are the rest of the log.
Follows(s, events) ==
    /\ \A i \in 1..Len(s.got) : s.got[i] = events[s.from + i]
    /\ \A i \in Waiting(s) : s.queue[i].event = events[Place(s, i)]
    /\ Len(events) = s.from + Len(s.got) + Cardinality(Waiting(s))

\* A subscriber loses no recorded event and gets none twice or out of order,
\* whenever it attached, nor is the run it watches evicted.
\* (registry.py: the lock over append, replay and registration; CR-010.)
ViewerSeesTheLog ==
    \A v \in Viewers : Streaming(v) =>
        entry[stream[v].run].kept /\ Follows(stream[v], log[stream[v].run])

\* What a page shows once it has been given the items of q.
Drawn(s, q) == FoldLeft(Shown, s, q)

\* A page that attaches or reconnects in the middle of a reply ends up showing
\* the whole text so far and exactly the agents at work, not the suffix it
\* happened to catch (registry.subscribe's synthetic events).
PreviewIsWhole ==
    \A v \in Viewers : Streaming(v) =>
        LET page == Drawn(stream[v], stream[v].queue)
            e == entry[stream[v].run]
        IN page.screen = e.text /\ page.strip = e.working

\* Nothing published after a stream's access was taken away reaches it, however
\* many events wait in its queue (main.py _stream_access, share_chat.py
\* _link_and_org_active, asked again before every send).
NothingAfterRevocation ==
    \A v \in Viewers :
        (~Allowed(v, account) /\ stream[v].got # <<>>)
            => stream[v].from + Len(stream[v].got) <= stream[v].cut

\* A run that completes has handed every model call it paid for to the meter, and so has
\* one that is stopped, wherever the cancel flag is honoured, unless it is one of the two
\* kinds whose flag is looked at between a paid call and its agent_completed: siblings
\* that ran at once, and a diagnostic run's model turns.  Of a run that fails, or is a
\* stopped diagnostic one, no node but the one at work is unpaid for.  (runtime.py: the
\* look at the cancel flag after an event.  What a restart interrupts is metered by nobody.)
PaidWorkIsMetered ==
    \A r \in Runs : driver[r].pc = "over" =>
        /\ row[r].status = "completed" => unmetered[r] = {}
        /\ row[r].status = "cancelled" /\ r \notin Parallel \cup Diagnostic => unmetered[r] = {}
        /\ r \notin Parallel => \A call, other \in unmetered[r] : call = other

\* A purge leaves nothing of a run's content behind, neither rows nor the copy
\* the registry serves (registry.py purge_content, retention.py purge_run).
PurgedContentIsGone ==
    \A r \in Runs : row[r].purged => ~trace[r] /\ entry[r].events = <<>>

\* The registry and its streams as the feeds of the runs and who follows them.
Kept == {r \in Runs : entry[r].kept}

Away == [pc |-> "away", run |-> CHOOSE r \in Runs : TRUE, from |-> 0, got |-> <<>>]

ReaderOf(s) == IF s.pc = "streaming" THEN [pc |-> "following", run |-> s.run, from |-> s.from, got |-> s.got]
               ELSE Away

Following == [v \in Viewers |-> ReaderOf(stream[v])]

Permitted == {v \in Viewers : Streaming(v) /\ Allowed(v, account)}

Endings == {event \in Events : Terminal(event)}
Postscripts == {event \in Events : event.type = "recorded"}

Feed == INSTANCE EventFeed WITH
    Readers <- Viewers, held <- Kept, published <- log, hidden <- scrubbed,
    reader <- Following, permitted <- Permitted

\* Every step of the workers, the requests, the streams and a restart is a step of the
\* feeds or none: a run ends once, a reader is sent its events one by one without a gap
\* from where it subscribed, and only while it has access, and a run is forgotten only
\* when it is over and nobody follows it (registry.py, main.py stream_run).
ImplementsFeed == Feed!Spec
==============================================================================
