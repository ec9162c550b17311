----------------------------- MODULE StreamProofs ---------------------------
(***************************************************************************)
(* Theorems of RunStream for every number of runs, viewers, nodes, workers *)
(* and faults.                                                             *)
(***************************************************************************)
EXTENDS RunStream, FoldTheorems, FiniteSetTheorems, SequenceTheorems, TLAPS

----------------------------------------------------------------------------
\* The inductive invariant of a run's streams, by what each part is about.

\* What the registry keeps of a run is its log but for what was scrubbed, and a run
\* that has not been created has no log.
LogInv ==
    \A r \in Runs :
        /\ entry[r].kept =>
            /\ Len(log[r]) = scrubbed[r] + Len(entry[r].events)
            /\ \A i \in 1..Len(entry[r].events) : entry[r].events[i] = log[r][scrubbed[r] + i]
        /\ driver[r].pc = "none" => ~entry[r].kept /\ log[r] = <<>> /\ scrubbed[r] = 0

\* The subscribers of a run are the streams that follow it.
SubscribedInv ==
    \A v \in Viewers, r \in Runs :
        v \in subscribed[r] <=> Streaming(v) /\ stream[v].run = r

\* A stream has received nothing before it streams, and nothing past its cut once
\* its access is gone or it is closed.
CutInv ==
    \A v \in Viewers :
        /\ stream[v].pc \in {"none", "ticket", "accepted"} => stream[v].got = <<>>
        /\ (~Allowed(v, account) \/ stream[v].pc = "closed") /\ stream[v].got # <<>> =>
            stream[v].from + Len(stream[v].got) <= stream[v].cut

\* The calls of a node and of the siblings whose events come after its own.
Siblings(n, r) == IF r \in Parallel THEN n..LastNode(r) ELSE {n}

NodeCalls(n, r) == {Event("done", m) : m \in Siblings(n, r)}

\* The calls a worker owes the meter: those of the event it has in hand, or of the
\* node, its siblings or the query expansion whose event it has passed on.
Owed(r, d) ==
    LET event == d.event IN
    CASE event.type = "work" -> NodeCalls(event.node, r)
      [] event.type = "done" -> NodeCalls(event.node, r) \ (IF d.pc = "pull" THEN Carries(event) ELSE {})
      [] event.type \in {"recalled", "recorded"} /\ d.pc # "pull" -> Carries(event)
      [] event.type = "started" /\ r \in Remembering -> {Event("recalled", 0)}
      [] OTHER -> {}

\* The runs that may be stopped between a paid call and the event that carries it.
Exempt == Parallel \cup Diagnostic

\* Where a worker is after its terminal status is committed.
Afterwards == {"publish", "record", "pull"}

Paid(r, d, status, owed) ==
    /\ r \notin Parallel => \A call, other \in owed : call = other
    /\ d.pc \in {"none", "persistRow"} => owed = {}
    /\ d.pc # "over" /\ d.event.type \notin {"failed", "cancelled"} => owed \subseteq Owed(r, d)
    /\ d.pc # "over" /\ d.event.type = "cancelled" /\ r \notin Exempt => owed = {}
    /\ status = "completed" =>
        IF d.pc = "over" THEN owed = {}
        ELSE d.pc \in Afterwards /\ d.event.type \in {"completed", "recorded"}
    /\ status = "cancelled" =>
        /\ d.pc = "over" \/ (d.pc \in Afterwards /\ d.event.type = "cancelled")
        /\ r \notin Exempt => owed = {}

PaidInv == \A r \in Runs : Paid(r, driver[r], row[r].status, unmetered[r])

\* Only a terminal status is committed.
CommitInv == \A r \in Runs : driver[r].pc = "commit" => Terminal(driver[r].event)

StreamInv ==
    /\ StreamTypeOK
    /\ LogInv /\ SubscribedInv /\ ViewerSeesTheLog /\ CutInv
    /\ PaidInv /\ CommitInv

----------------------------------------------------------------------------
\* Typing.

EventTypes == {"queued", "started", "recalled", "work", "done", "completed",
               "failed", "cancelled", "recorded"}

LEMMA EventTyped ==
    /\ \A type \in EventTypes, n \in 0..Nodes :
        /\ Event(type, n) \in Events
        /\ Event(type, n).type = type /\ Event(type, n).node = n
    /\ \A event \in Events : event.type \in EventTypes /\ event.node \in 0..Nodes
    /\ 0 \in 0..Nodes
  BY StreamAssumption DEF Event, Events, EventTypes

LEMMA LastNodeTyped ==
    ASSUME NEW r \in Runs
    PROVE  LastNode(r) \in 1..Nodes
  BY StreamAssumption DEF LastNode

LEMMA FromNodeTyped ==
    ASSUME NEW n \in Nat, n > 0, NEW r \in Runs
    PROVE  /\ FromNode(n, r) \subseteq Events /\ FromNode(n, r) # {}
           /\ \A e \in FromNode(n, r) :
                /\ e.type \in {"completed", "work", "failed"}
                /\ e.type = "work" => e = Event("work", n) /\ n <= LastNode(r)
                /\ e.type = "completed" => n > LastNode(r)
<1>a. LastNode(r) \in 1..Nodes
  BY LastNodeTyped
<1>1. CASE n > LastNode(r)
  BY <1>1, EventTyped DEF FromNode, EventTypes
<1>2. CASE ~(n > LastNode(r))
  <2>1. n \in 0..Nodes /\ n <= LastNode(r)
    BY <1>a, <1>2, StreamAssumption
  <2>2. FromNode(n, r) = {Event("work", n), Event("failed", 0)}
    BY <1>2 DEF FromNode
  <2> QED  BY <2>1, <2>2, EventTyped DEF EventTypes
<1> QED  BY <1>1, <1>2

\* What may follow an event.
LEMMA YieldsTyped ==
    ASSUME NEW event \in Events, NEW r \in Runs
    PROVE  /\ Yields(event, r) \subseteq Events
           /\ event.type \in {"queued", "started", "recalled", "work", "done"} =>
                Yields(event, r) # {}
           /\ \A e \in Yields(event, r) : e.type = "work" => e.node \in 1..Nodes
<1>a. /\ event.type \in EventTypes /\ event.node \in 0..Nodes
      /\ event.node \in Nat /\ event.node + 1 \in Nat /\ event.node + 1 > 0 /\ 1 \in Nat /\ 1 > 0
  <2>1. event.type \in EventTypes /\ event.node \in 0..Nodes
    BY EventTyped
  <2> HIDE DEF EventTypes
  <2> QED  BY <2>1, StreamAssumption
<1>b. ASSUME NEW n \in Nat, n > 0
      PROVE  /\ FromNode(n, r) \subseteq Events /\ FromNode(n, r) # {}
             /\ \A e \in FromNode(n, r) : e.type = "work" => e.node \in 1..Nodes
  <2>1. ASSUME n <= LastNode(r)
        PROVE  Event("work", n).node \in 1..Nodes
    <3>1. n \in 1..Nodes /\ n \in 0..Nodes
      BY <1>b, <2>1, LastNodeTyped, StreamAssumption
    <3> QED  BY <3>1, EventTyped DEF EventTypes
  <2> QED  BY <1>b, <2>1, FromNodeTyped
<1>1. CASE event.type = "queued"
  BY <1>1, EventTyped DEF Yields, EventTypes
<1>2. CASE event.type = "started" /\ r \in Remembering
  BY <1>2, EventTyped DEF Yields, EventTypes
<1>3. CASE event.type = "started" /\ r \notin Remembering
  <2>1. Yields(event, r) = FromNode(1, r)
    BY <1>3 DEF Yields
  <2> QED  BY <1>a, <1>b, <2>1
<1>4. CASE event.type = "recalled"
  <2>1. Yields(event, r) = FromNode(1, r)
    BY <1>4 DEF Yields
  <2> QED  BY <1>a, <1>b, <2>1
<1>5. CASE event.type = "work"
  <2>1. Yields(event, r) = {Event("done", event.node)}
    BY <1>5 DEF Yields
  <2> QED  BY <1>a, <2>1, EventTyped DEF EventTypes
<1>6. CASE event.type = "done"
  <2> DEFINE n == event.node + 1
  <2>1. Yields(event, r) = FromNode(n, r)
    BY <1>6 DEF Yields
  <2>2. n \in Nat /\ n > 0
    BY <1>a
  <2> HIDE DEF n
  <2> QED  BY <1>b, <1>6, <2>1, <2>2
<1>7. CASE event.type = "completed" /\ r \in Remembering
  <2>1. Yields(event, r) = {Event("recorded", 0)}
    BY <1>7 DEF Yields
  <2> QED  BY <1>7, <2>1, EventTyped DEF EventTypes
<1>8. CASE \/ event.type \in {"failed", "cancelled", "recorded"}
           \/ event.type = "completed" /\ r \notin Remembering
  BY <1>8 DEF Yields
<1> QED  BY <1>a, <1>1, <1>2, <1>3, <1>4, <1>5, <1>6, <1>7, <1>8 DEF EventTypes

\* The nodes at work are nodes: those of the next work event and, of siblings, the
\* ones after it.
LEMMA NodesAtWorkTyped ==
    ASSUME NEW r \in Runs, driver[r].event \in Events
    PROVE  NodesAtWork(r) \subseteq 1..Nodes
<1> DEFINE next == {e.node : e \in {e \in Yields(driver[r].event, r) : e.type = "work"}}
<1>1. next \subseteq 1..Nodes
  BY YieldsTyped
<1>2. r \notin Parallel => NodesAtWork(r) = next
  BY DEF NodesAtWork
<1>3. r \in Parallel => NodesAtWork(r) \subseteq 1..LastNode(r)
  BY DEF NodesAtWork
<1>4. 1..LastNode(r) \subseteq 1..Nodes
  BY LastNodeTyped, StreamAssumption
<1> HIDE DEF next
<1> QED  BY <1>1, <1>2, <1>3, <1>4

LEMMA PaysTyped ==
    ASSUME NEW r \in Runs, driver[r].event \in Events, NEW event \in Events
    PROVE  Pays(event, r) \subseteq Events
<1>1. NodesAtWork(r) \subseteq 0..Nodes
  BY NodesAtWorkTyped, StreamAssumption
<1>2. /\ \A n \in NodesAtWork(r) : Event("done", n) \in Events
      /\ Event("recalled", 0) \in Events
  BY <1>1, EventTyped DEF EventTypes
<1> QED  BY <1>2 DEF Pays

\* What a node that is next pays for is its own calls and those of the siblings after it.
LEMMA NextNodePays ==
    ASSUME NEW r \in Runs, NEW n \in Nat, n > 0,
           Yields(driver[r].event, r) = FromNode(n, r), driver[r].event.type # "work",
           NEW event \in FromNode(n, r)
    PROVE  Pays(event, r) \subseteq NodeCalls(n, r)
<1> DEFINE next == {e.node : e \in {e \in FromNode(n, r) : e.type = "work"}}
<1>1. ASSUME NEW m \in next
      PROVE  m = n
  <2>1. PICK e \in FromNode(n, r) : e.type = "work" /\ m = e.node
    BY <1>1
  <2>2. e = Event("work", n)
    BY <2>1, FromNodeTyped
  <2> QED  BY <2>1, <2>2 DEF Event
<1>2. r \notin Parallel => NodesAtWork(r) = next
  BY DEF NodesAtWork
<1>3. r \in Parallel => NodesAtWork(r) = {k \in 1..LastNode(r) : \E m \in next : m <= k}
  BY DEF NodesAtWork
<1> HIDE DEF next
<1>4. NodesAtWork(r) \subseteq Siblings(n, r)
  <2>1. CASE r \in Parallel
    <3>1. ASSUME NEW k \in NodesAtWork(r)
          PROVE  k \in n..LastNode(r)
      <4>1. k \in 1..LastNode(r) /\ n <= k
        BY <1>1, <1>3, <2>1, <3>1
      <4> QED  BY <4>1, LastNodeTyped, StreamAssumption
    <3> QED  BY <2>1, <3>1 DEF Siblings
  <2>2. CASE r \notin Parallel
    BY <1>1, <1>2, <2>2 DEF Siblings
  <2> QED  BY <2>1, <2>2
<1>5. event.type \in {"completed", "work", "failed"}
  BY FromNodeTyped
<1>6. Pays(event, r) \subseteq {Event("done", k) : k \in NodesAtWork(r)}
  BY <1>5 DEF Pays
<1> QED  BY <1>4, <1>6 DEF NodeCalls

\* An event is its type and its node.
LEMMA EventIs ==
    ASSUME NEW event \in Events, NEW type, event.type = type
    PROVE  event = Event(type, event.node)
  BY DEF Event, Events

----------------------------------------------------------------------------
\* How the worker's steps keep the account of what was paid for.

LEMMA PaidStays ==
    ASSUME NEW r, NEW d, NEW next, NEW status, NEW owed, Paid(r, d, status, owed),
           next.pc = d.pc, next.event = d.event
    PROVE  Paid(r, next, status, owed)
<1>1. Owed(r, next) = Owed(r, d)
  BY DEF Owed
<1> QED  BY <1>1 DEF Paid

\* The worker comes from an event to the node that is next.
LEMMA NextNodePaid ==
    ASSUME NEW r \in Runs, NEW status, NEW owed, NEW n \in Nat, n > 0,
           driver[r].pc = "pull", Yields(driver[r].event, r) = FromNode(n, r),
           driver[r].event.type \in {"started", "recalled", "done"},
           Paid(r, driver[r], status, owed),
           r \notin Parallel => owed = {}, owed \subseteq NodeCalls(n, r),
           NEW event \in FromNode(n, r), NEW next, next.event = event, next.pc = NextStop(event)
    PROVE  Paid(r, next, status, owed \cup Pays(event, r))
<1>1. Pays(event, r) \subseteq NodeCalls(n, r)
  BY NextNodePays
<1>2. r \notin Parallel => \A call, other \in owed \cup Pays(event, r) : call = other
  BY <1>1 DEF NodeCalls, Siblings
<1>3. /\ event.type \in {"completed", "work", "failed"}
      /\ event.type = "work" => event = Event("work", n)
      /\ event.type = "completed" => n > LastNode(r)
  BY FromNodeTyped
<1>4. next.pc \in {"commit", "publish"}
  BY DEF NextStop
<1>5. event.type # "failed" => owed \cup Pays(event, r) \subseteq Owed(r, next)
  <2>1. CASE event.type = "work"
    <3>1. event.node = n
      BY <1>3, <2>1 DEF Event
    <3>2. Owed(r, next) = NodeCalls(n, r)
      BY <2>1, <3>1 DEF Owed
    <3> QED  BY <1>1, <3>2
  <2>2. CASE event.type = "completed"
    <3>1. r \in Parallel => NodeCalls(n, r) = {}
      <4>1. n..LastNode(r) = {}
        BY <1>3, <2>2, LastNodeTyped
      <4> QED  BY <4>1 DEF NodeCalls, Siblings
    <3>2. Pays(event, r) = {}
      BY <2>2 DEF Pays
    <3> QED  BY <3>1, <3>2
  <2> QED  BY <1>3, <2>1, <2>2
<1>6. status \notin {"completed", "cancelled"}
  BY DEF Paid
<1> QED  BY <1>2, <1>3, <1>4, <1>5, <1>6 DEF Paid

LEMMA PullPaid ==
    ASSUME NEW r \in Runs, NEW status, NEW owed, driver[r].event \in Events,
           driver[r].pc = "pull", Paid(r, driver[r], status, owed),
           NEW event \in Yields(driver[r].event, r),
           NEW next, next.event = event, next.pc = NextStop(event)
    PROVE  Paid(r, next, status, owed \cup Pays(event, r))
<1> DEFINE d == driver[r]
<1>1. /\ d.event.type \in EventTypes /\ d.event.node \in 0..Nodes
      /\ d.event.node + 1 \in Nat /\ d.event.node + 1 > 0
  <2>1. d.event.type \in EventTypes /\ d.event.node \in 0..Nodes
    BY EventTyped
  <2> HIDE DEF EventTypes
  <2> QED  BY <2>1, StreamAssumption
<1>2. d.event.type \notin {"failed", "cancelled"} => owed \subseteq Owed(r, d)
  BY DEF Paid
<1>3. ASSUME event.type \in {"started", "recalled", "done", "recorded"},
             d.event.type \in {"queued", "started", "work", "completed"},
             event.type = "recorded" <=> d.event.type = "completed",
             owed \cup Pays(event, r) \subseteq Owed(r, next),
             r \notin Parallel => \A call, other \in owed \cup Pays(event, r) : call = other
      PROVE  Paid(r, next, status, owed \cup Pays(event, r))
  <2>1. next.pc = "publish"
    BY <1>3 DEF NextStop, Terminal, Outcomes
  <2>2. status # "cancelled" /\ (status = "completed" => d.event.type = "completed")
    BY <1>3 DEF Paid
  <2> QED  BY <1>3, <2>1, <2>2 DEF Paid, Afterwards
<1>4. CASE d.event.type = "queued"
  <2>1. event = Event("started", 0) /\ owed = {}
    BY <1>2, <1>4 DEF Yields, Owed
  <2>2. event.type = "started"
    BY <2>1 DEF Event
  <2>3. Pays(event, r) = IF r \in Remembering THEN {Event("recalled", 0)} ELSE {}
    BY <2>2 DEF Pays
  <2>4. Owed(r, next) = IF r \in Remembering THEN {Event("recalled", 0)} ELSE {}
    BY <2>2 DEF Owed
  <2> QED  BY <1>3, <1>4, <2>1, <2>2, <2>3, <2>4
<1>5. CASE d.event.type = "started" /\ r \in Remembering
  <2>1. event = Event("recalled", 0) /\ owed \subseteq {Event("recalled", 0)}
    BY <1>2, <1>5 DEF Yields, Owed
  <2>2. event.type = "recalled" /\ next.pc = "publish"
    BY <2>1 DEF Event, NextStop, Terminal, Outcomes
  <2>3. Pays(event, r) = {} /\ Owed(r, next) = {event}
    BY <2>2 DEF Pays, Owed, Carries
  <2> QED  BY <1>3, <1>5, <2>1, <2>2, <2>3
<1>6. CASE d.event.type = "started" /\ r \notin Remembering
  <2>1. Yields(d.event, r) = FromNode(1, r) /\ owed = {}
    BY <1>2, <1>6 DEF Yields, Owed
  <2> QED  BY <1>6, <2>1, NextNodePaid
<1>7. CASE d.event.type = "recalled"
  <2>1. Yields(d.event, r) = FromNode(1, r) /\ owed = {}
    BY <1>2, <1>7 DEF Yields, Owed
  <2> QED  BY <1>7, <2>1, NextNodePaid
<1>8. CASE d.event.type = "work"
  <2>1. event = Event("done", d.event.node) /\ owed \subseteq NodeCalls(d.event.node, r)
    BY <1>2, <1>8 DEF Yields, Owed
  <2>2. event.type = "done" /\ event.node = d.event.node /\ next.pc = "publish"
    BY <2>1 DEF Event, NextStop, Terminal, Outcomes
  <2>3. Pays(event, r) = {} /\ Owed(r, next) = NodeCalls(d.event.node, r)
    BY <2>2 DEF Pays, Owed
  <2>4. r \notin Parallel => \A call, other \in owed : call = other
    BY DEF Paid
  <2> QED  BY <1>3, <1>8, <2>1, <2>2, <2>3, <2>4
<1>9. CASE d.event.type = "done"
  <2> DEFINE n == d.event.node + 1
  <2>1. Yields(d.event, r) = FromNode(n, r)
    BY <1>9 DEF Yields
  <2>2. owed \subseteq NodeCalls(d.event.node, r) \ {d.event}
    BY <1>2, <1>9 DEF Owed, Carries
  <2>3. d.event = Event("done", d.event.node)
    BY <1>9, EventIs
  <2>4. r \notin Parallel => owed = {}
    BY <2>2, <2>3 DEF NodeCalls, Siblings
  <2>5. r \in Parallel => owed \subseteq NodeCalls(n, r)
    <3>1. SUFFICES ASSUME r \in Parallel, NEW call \in owed
                   PROVE  call \in NodeCalls(n, r)
      OBVIOUS
    <3>2. PICK k \in d.event.node..LastNode(r) : call = Event("done", k)
      BY <2>2, <3>1 DEF NodeCalls, Siblings
    <3>3. k # d.event.node
      BY <2>2, <2>3, <3>1, <3>2
    <3>4. k \in n..LastNode(r)
      BY <1>1, <3>2, <3>3, LastNodeTyped
    <3> HIDE DEF n
    <3> QED  BY <3>1, <3>2, <3>4 DEF NodeCalls, Siblings
  <2>6. n \in Nat /\ n > 0
    BY <1>1
  <2> HIDE DEF n
  <2> QED  BY <1>9, <2>1, <2>4, <2>5, <2>6, NextNodePaid
<1>10. CASE d.event.type = "completed" /\ r \in Remembering
  <2>1. event = Event("recorded", 0) /\ owed = {}
    BY <1>2, <1>10 DEF Yields, Owed
  <2>2. event.type = "recorded" /\ next.pc = "publish"
    BY <2>1 DEF Event, NextStop, Terminal, Outcomes
  <2>3. Pays(event, r) = {event} /\ Owed(r, next) = {event}
    BY <2>2 DEF Pays, Owed, Carries
  <2> QED  BY <1>3, <1>10, <2>1, <2>2, <2>3
<1>11. CASE \/ d.event.type \in {"failed", "cancelled", "recorded"}
            \/ d.event.type = "completed" /\ r \notin Remembering
  BY <1>11 DEF Yields
<1> QED
  BY <1>1, <1>4, <1>5, <1>6, <1>7, <1>8, <1>9, <1>10, <1>11 DEF EventTypes

\* The generator raises before the first node, or has nothing more to yield.
LEMMA PullEndsPaid ==
    ASSUME NEW r \in Runs, NEW status, NEW owed, NEW d, d.event \in Events,
           d.pc = "pull", Paid(r, d, status, owed), NEW next,
           \/ d.event.type = "queued" /\ next.pc = "salvage" /\ next.event.type = "failed"
           \/ Yields(d.event, r) = {} /\ next.pc = "over"
    PROVE  Paid(r, next, status, owed)
<1>1. CASE d.event.type = "queued" /\ next.pc = "salvage" /\ next.event.type = "failed"
  BY <1>1 DEF Paid
<1>2. CASE Yields(d.event, r) = {} /\ next.pc = "over"
  <2>1. status = "completed" => owed = {}
    <3>1. SUFFICES ASSUME status = "completed" PROVE owed = {}
      OBVIOUS
    <3>2. d.event.type \in {"completed", "recorded"} /\ owed \subseteq Owed(r, d)
      BY <3>1 DEF Paid
    <3> QED  BY <3>2 DEF Owed
  <2> QED  BY <1>2, <2>1 DEF Paid
<1> QED  BY <1>1, <1>2

\* The look at the cancel flag and the meter after an event.
LEMMA RecordPaid ==
    ASSUME NEW r \in Runs, NEW status, NEW owed, NEW d, d.event \in Events,
           d.pc = "record", Paid(r, d, status, owed), NEW next,
           \/ /\ MayStop(d.event, r)
              /\ next.pc = "commit" /\ next.event.type = "cancelled"
           \/ d.event.type \in {"failed", "cancelled"} /\ next.pc = "over"
           \/ /\ d.event.type \notin {"failed", "cancelled"}
              /\ next.pc = "pull" /\ next.event = d.event
    PROVE  Paid(r, next, status, owed \ Carries(d.event))
<1> DEFINE left == owed \ Carries(d.event)
<1>1. r \notin Parallel => \A call, other \in left : call = other
  BY DEF Paid
<1>2. d.event.type \notin {"failed", "cancelled"} => owed \subseteq Owed(r, d)
  BY DEF Paid
<1>3. CASE /\ MayStop(d.event, r)
           /\ next.pc = "commit" /\ next.event.type = "cancelled"
  <2>1. /\ d.event.type \notin {"completed", "failed", "cancelled", "recorded"}
        /\ ~(d.event.type = "started" /\ r \in Remembering)
        /\ d.event.type = "work" => r \in Diagnostic
    BY <1>3 DEF MayStop, Terminal, Outcomes, Buffered
  <2>2. ASSUME r \notin Exempt
        PROVE  left = {}
    <3>1. CASE d.event.type = "done"
      <4>1. d.event = Event("done", d.event.node) /\ r \notin Parallel
        BY <2>2, <3>1, EventIs DEF Exempt
      <4>2. Owed(r, d) \subseteq {d.event}
        BY <3>1, <4>1 DEF Owed, NodeCalls, Siblings
      <4>3. Carries(d.event) = {d.event}
        BY <3>1 DEF Carries
      <4> QED  BY <1>2, <3>1, <4>2, <4>3
    <3>2. CASE d.event.type = "recalled"
      BY <1>2, <3>2 DEF Owed
    <3>3. CASE d.event.type \in {"queued", "started"}
      BY <1>2, <2>1, <3>3 DEF Owed
    <3>4. d.event.type # "work"
      BY <2>1, <2>2 DEF Exempt
    <3>5. d.event.type \in EventTypes
      BY EventTyped
    <3> QED  BY <2>1, <3>1, <3>2, <3>3, <3>4, <3>5 DEF EventTypes
  <2>3. status \notin {"completed", "cancelled"}
    BY <2>1 DEF Paid
  <2> HIDE DEF left
  <2>4. Paid(r, next, status, left)
    BY <1>1, <1>3, <2>2, <2>3 DEF Paid
  <2> QED  BY <2>4 DEF left
<1>4. CASE d.event.type \in {"failed", "cancelled"} /\ next.pc = "over"
  <2>1. status # "completed" /\ (status = "cancelled" /\ r \notin Exempt => left = {})
    BY <1>4 DEF Paid
  <2> HIDE DEF left
  <2>2. Paid(r, next, status, left)
    BY <1>1, <1>4, <2>1 DEF Paid
  <2> QED  BY <2>2 DEF left
<1>5. CASE /\ d.event.type \notin {"failed", "cancelled"}
           /\ next.pc = "pull" /\ next.event = d.event
  <2>1. left \subseteq Owed(r, next)
    <3>1. CASE d.event.type \in {"work", "done"}
      BY <1>2, <1>5, <3>1 DEF Owed
    <3>2. CASE d.event.type \in {"recalled", "recorded"}
      BY <1>2, <1>5, <3>2 DEF Owed
    <3>3. CASE d.event.type \notin {"work", "done", "recalled", "recorded"}
      BY <1>2, <1>5, <3>3 DEF Owed
    <3> QED  BY <3>1, <3>2, <3>3
  <2>2. /\ status = "completed" => d.event.type \in {"completed", "recorded"}
        /\ status # "cancelled"
    BY <1>5 DEF Paid
  <2> HIDE DEF left
  <2>3. Paid(r, next, status, left)
    BY <1>1, <1>5, <2>1, <2>2 DEF Paid, Afterwards
  <2> QED  BY <2>3 DEF left
<1> QED  BY <1>3, <1>4, <1>5

\* What an item of a queue is.
LEMMA ItemsTyped ==
    /\ \A event \in Events : EventItem(event) \in Items /\ EventItem(event).kind = "event"
                             /\ EventItem(event).event = event
    /\ \A text \in Seq(Nat) : DeltaItem(text) \in Items /\ DeltaItem(text).kind # "event"
    /\ \A n \in 1..Nodes : WorkingItem(n) \in Items /\ WorkingItem(n).kind # "event"
    /\ ResetItem \in Items /\ ResetItem.kind # "event"
<1>1. \A n \in 1..Nodes : n \in 0..Nodes
  BY StreamAssumption
<1>2. /\ \A n \in 1..Nodes : Event("work", n) \in Events
      /\ Event("work", 0) \in Events /\ <<>> \in Seq(Nat)
  BY <1>1, EventTyped DEF EventTypes
<1> QED  BY <1>2 DEF Items, EventItem, DeltaItem, WorkingItem, ResetItem

LEMMA EntriesTyped ==
    /\ NoEntry \in Entries /\ NoEntry.kept = FALSE /\ NoEntry.events = <<>>
    /\ NoEntry.status = "running"
    /\ [NoEntry EXCEPT !.kept = TRUE] \in Entries
    /\ \A e \in Entries : Forgotten(e) \in Entries /\ [e EXCEPT !.cancel = TRUE] \in Entries
<1>1. <<>> \in Seq(Events) /\ <<>> \in Seq(Nat) /\ {} \in SUBSET (1..Nodes)
  OBVIOUS
<1> QED  BY <1>1 DEF NoEntry, Entries, Forgotten

LEMMA PublishedTyped ==
    ASSUME NEW e \in Entries, NEW event \in Events
    PROVE  /\ Published(e, event) \in Entries
           /\ Published(e, event).events = Append(e.events, event)
           /\ Published(e, event).kept = e.kept /\ Published(e, event).cancel = e.cancel
<1> DEFINE more == Append(e.events, event)
           status == IF Terminal(event) THEN event.type ELSE e.status
           text == IF Terminal(event) THEN <<>> ELSE e.text
           working == IF Terminal(event) THEN {}
                      ELSE IF event.type = "done" THEN e.working \ {event.node} ELSE e.working
<1>1. more \in Seq(Events)
  BY AppendProperties DEF Entries
<1>2. status \in Outcomes \cup {"running"}
  BY DEF Entries, Terminal
<1>3. text \in Seq(Nat)
  BY DEF Entries
<1>4. working \in SUBSET (1..Nodes)
  BY DEF Entries
<1>5. Published(e, event) = [e EXCEPT !.events = more, !.status = status, !.text = text,
                                      !.working = working]
  BY DEF Published
<1> HIDE DEF more, status, text, working
<1>6. /\ Published(e, event) \in Entries /\ Published(e, event).events = more
      /\ Published(e, event).kept = e.kept /\ Published(e, event).cancel = e.cancel
  BY <1>1, <1>2, <1>3, <1>4, <1>5 DEF Entries
<1> QED  BY <1>6 DEF more

LEMMA WorkingListed ==
    ASSUME NEW S, IsFiniteSet(S)
    PROVE  SetToSeq(S) \in [1..Cardinality(S) -> S] /\ Cardinality(S) \in Nat
<1>1. Cardinality(S) \in Nat /\ ExistsBijection(1..Cardinality(S), S)
  BY FS_CardinalityType
<1>2. \E f \in [1..Cardinality(S) -> S] : IsInjective(f)
  BY <1>1 DEF ExistsBijection, Bijection, Injection, IsInjective
<1> QED  BY <1>1, <1>2 DEF SetToSeq

\* A replay is the recorded events, then previews.
LEMMA ReplayIs ==
    ASSUME NEW e \in Entries
    PROVE  /\ Replay(e) \in Seq(Items) /\ Len(e.events) \in Nat
           /\ Len(e.events) <= Len(Replay(e)) /\ Len(Replay(e)) \in Nat
           /\ \A i \in 1..Len(Replay(e)) :
                /\ Replay(e)[i].kind = "event" <=> i <= Len(e.events)
                /\ i <= Len(e.events) => Replay(e)[i].event = e.events[i]
<1> DEFINE n == Len(e.events)
           first == [i \in 1..n |-> EventItem(e.events[i])]
           middle == IF e.text = <<>> THEN <<>> ELSE <<DeltaItem(e.text)>>
           m == Cardinality(e.working)
           last == [i \in 1..m |-> WorkingItem(SetToSeq(e.working)[i])]
<1>1. e.events \in Seq(Events) /\ e.text \in Seq(Nat) /\ e.working \subseteq 1..Nodes
  BY DEF Entries
<1>2. n \in Nat /\ \A i \in 1..n : e.events[i] \in Events
  BY <1>1, LenProperties, ElementOfSeq
<1>3. IsFiniteSet(e.working)
  <2>1. IsFiniteSet(1..Nodes)
    BY FS_Interval, StreamAssumption
  <2> QED  BY <1>1, <2>1, FS_Subset
<1>4. m \in Nat /\ \A i \in 1..m : SetToSeq(e.working)[i] \in 1..Nodes
  BY <1>1, <1>3, WorkingListed
<1>5. Replay(e) = first \o middle \o last
  BY DEF Replay
<1>6. \A i \in 1..n : /\ first[i] \in Items /\ first[i].kind = "event"
                      /\ first[i].event = e.events[i]
  BY <1>2, ItemsTyped
<1>7. \A i \in 1..m : last[i] \in Items /\ last[i].kind # "event"
  BY <1>4, ItemsTyped
<1>8. middle \in Seq(Items) /\ Len(middle) \in Nat /\ \A i \in 1..Len(middle) : middle[i].kind # "event"
  <2>1. CASE e.text = <<>>
    BY <2>1, EmptySeq
  <2>2. CASE e.text # <<>>
    <3>1. middle = <<DeltaItem(e.text)>> /\ DeltaItem(e.text) \in Items
          /\ DeltaItem(e.text).kind # "event"
      BY <1>1, <2>2, ItemsTyped
    <3> QED  BY <3>1
  <2> QED  BY <2>1, <2>2
<1>9. first \in Seq(Items) /\ Len(first) = n
  <2>1. first \in [1..n -> Items]
    BY <1>6
  <2>2. DOMAIN first = 1..n
    OBVIOUS
  <2> HIDE DEF first, n
  <2> QED  BY <1>2, <2>1, <2>2
<1>10. last \in Seq(Items) /\ Len(last) = m
  <2>1. last \in [1..m -> Items]
    BY <1>7
  <2>2. DOMAIN last = 1..m
    OBVIOUS
  <2> HIDE DEF last, m
  <2> QED  BY <1>4, <2>1, <2>2
<1> HIDE DEF first, middle, last, n, m
<1>11. /\ first \o middle \in Seq(Items) /\ Len(first \o middle) = n + Len(middle)
       /\ \A i \in 1..n + Len(middle) :
            (first \o middle)[i] = IF i <= n THEN first[i] ELSE middle[i - n]
  BY <1>8, <1>9, ConcatProperties
<1> DEFINE front == first \o middle
           k == n + Len(middle)
<1>12. k \in Nat /\ n <= k
  BY <1>2, <1>8
<1>13. \A i \in 1..k : /\ front[i].kind = "event" <=> i <= n
                       /\ i <= n => front[i].event = e.events[i]
  <2> SUFFICES ASSUME NEW i \in 1..k
               PROVE  /\ front[i].kind = "event" <=> i <= n
                      /\ i <= n => front[i].event = e.events[i]
    OBVIOUS
  <2>1. CASE i <= n
    <3>1. i \in 1..n
      BY <1>2, <1>12, <2>1
    <3>2. front[i] = first[i]
      BY <1>11, <2>1
    <3> QED  BY <1>6, <2>1, <3>1, <3>2
  <2>2. CASE ~(i <= n)
    <3>1. i - n \in 1..Len(middle)
      BY <1>2, <1>8, <2>2
    <3>2. front[i] = middle[i - n]
      BY <1>11, <2>2
    <3> QED  BY <1>8, <2>2, <3>1, <3>2
  <2> QED  BY <2>1, <2>2
<1> HIDE DEF front, k
<1>14. front \in Seq(Items) /\ Len(front) = k
  BY <1>11 DEF front, k
<1>15. /\ front \o last \in Seq(Items) /\ Len(front \o last) = k + m
       /\ \A i \in 1..k + m : (front \o last)[i] = IF i <= k THEN front[i] ELSE last[i - k]
  BY <1>10, <1>14, ConcatProperties
<1>16. ASSUME NEW i \in 1..k + m
       PROVE  /\ (front \o last)[i].kind = "event" <=> i <= n
              /\ i <= n => (front \o last)[i].event = e.events[i]
  <2>1. CASE i <= k
    <3>1. i \in 1..k /\ (front \o last)[i] = front[i]
      BY <1>4, <1>12, <1>15, <2>1
    <3>2. /\ front[i].kind = "event" <=> i <= n
          /\ i <= n => front[i].event = e.events[i]
      BY <1>13, <3>1
    <3> QED  BY <3>1, <3>2
  <2>2. CASE ~(i <= k)
    <3>1. i - k \in 1..m /\ (front \o last)[i] = last[i - k] /\ ~(i <= n)
      <4>1. i - k \in 1..m /\ ~(i <= n)
        BY <1>2, <1>4, <1>12, <2>2
      <4> QED  BY <4>1, <1>15, <2>2
    <3> QED  BY <1>7, <3>1
  <2> QED  BY <2>1, <2>2
<1>17. Replay(e) = front \o last
  BY <1>5 DEF front
<1>18. k + m \in Nat /\ n <= k + m
  BY <1>2, <1>4, <1>12
<1> QED  BY <1>2, <1>15, <1>16, <1>17, <1>18 DEF n

LEMMA StreamsTyped ==
    /\ Closed \in Streams /\ Closed.got = <<>> /\ Closed.pc = "none" /\ Closed.cut = 0
    /\ [Closed EXCEPT !.pc = "closed"] \in Streams
    /\ [Closed EXCEPT !.pc = "closed"].got = <<>> /\ [Closed EXCEPT !.pc = "closed"].pc = "closed"
<1>1. (CHOOSE r \in Runs : TRUE) \in Runs
  BY StreamAssumption
<1>2. <<>> \in Seq(Items) /\ <<>> \in Seq(Events) /\ <<>> \in Seq(Nat)
  OBVIOUS
<1> QED  BY <1>1, <1>2 DEF Closed, Streams

\* What an item does to the page, and to what it has been sent.
LEMMA ShownIs ==
    ASSUME NEW s \in Streams, NEW item \in Items
    PROVE  /\ Shown(s, item) \in Streams
           /\ Shown(s, item).pc = s.pc /\ Shown(s, item).run = s.run
           /\ Shown(s, item).stamp = s.stamp /\ Shown(s, item).queue = s.queue
           /\ Shown(s, item).from = s.from /\ Shown(s, item).cut = s.cut
           /\ Shown(s, item).got = IF item.kind = "event" THEN Append(s.got, item.event) ELSE s.got
<1>a. /\ s.screen \in Seq(Nat) /\ item.text \in Seq(Nat) /\ s.strip \in SUBSET (0..Nodes)
      /\ s.got \in Seq(Events) /\ item.event \in Events /\ item.event.node \in 0..Nodes
  BY EventTyped DEF Streams, Items
<1>1. CASE item.kind = "delta"
  <2> DEFINE text == s.screen \o item.text
  <2>1. text \in Seq(Nat)
    BY <1>a, ConcatProperties
  <2>2. Shown(s, item) = [s EXCEPT !.screen = text]
    BY <1>1 DEF Shown
  <2> HIDE DEF text
  <2> QED  BY <1>1, <2>1, <2>2 DEF Streams
<1>2. CASE item.kind = "reset"
  <2>1. Shown(s, item) = [s EXCEPT !.screen = <<>>]
    BY <1>2 DEF Shown
  <2>2. <<>> \in Seq(Nat)
    OBVIOUS
  <2> QED  BY <1>2, <2>1, <2>2 DEF Streams
<1>3. CASE item.kind = "working"
  <2> DEFINE strip == s.strip \cup {item.event.node}
  <2>1. strip \in SUBSET (0..Nodes)
    BY <1>a
  <2>2. Shown(s, item) = [s EXCEPT !.strip = strip]
    BY <1>3 DEF Shown
  <2> HIDE DEF strip
  <2> QED  BY <1>3, <2>1, <2>2 DEF Streams
<1>4. CASE item.kind = "event"
  <2> DEFINE got == Append(s.got, item.event)
             screen == IF Terminal(item.event) THEN <<>> ELSE s.screen
             strip == IF Terminal(item.event) THEN {}
                      ELSE IF item.event.type = "done" THEN s.strip \ {item.event.node} ELSE s.strip
  <2>1. got \in Seq(Events)
    BY <1>a, AppendProperties
  <2>2. screen \in Seq(Nat) /\ strip \in SUBSET (0..Nodes)
    BY <1>a
  <2>3. Shown(s, item) = [s EXCEPT !.got = got, !.screen = screen, !.strip = strip]
    BY <1>4 DEF Shown
  <2>4. item.kind = "event" /\ got = Append(s.got, item.event)
    BY <1>4
  <2> HIDE DEF got, screen, strip
  <2> QED  BY <2>1, <2>2, <2>3, <2>4 DEF Streams
<1> QED  BY <1>1, <1>2, <1>3, <1>4 DEF Items

\* What a publication does to the queues.
LEMMA NotifyIs ==
    ASSUME stream \in [Viewers -> Streams], NEW r, NEW item \in Items, Notify(r, item)
    PROVE  /\ stream' \in [Viewers -> Streams]
           /\ \A v \in Viewers :
                IF v \in subscribed[r]
                THEN stream'[v] = [stream[v] EXCEPT !.queue = Append(stream[v].queue, item)]
                ELSE stream'[v] = stream[v]
<1>1. \A v \in Viewers :
        IF v \in subscribed[r]
        THEN stream'[v] = [stream[v] EXCEPT !.queue = Append(stream[v].queue, item)]
        ELSE stream'[v] = stream[v]
  BY DEF Notify
<1>2. ASSUME NEW v \in Viewers
      PROVE  [stream[v] EXCEPT !.queue = Append(stream[v].queue, item)] \in Streams
  <2> DEFINE more == Append(stream[v].queue, item)
  <2>1. stream[v] \in Streams /\ stream[v].queue \in Seq(Items)
    BY DEF Streams
  <2>2. more \in Seq(Items)
    BY <2>1, AppendProperties
  <2> HIDE DEF more
  <2>3. [stream[v] EXCEPT !.queue = more] \in Streams
    BY <2>1, <2>2 DEF Streams
  <2> QED  BY <2>3 DEF more
<1>3. \A v \in Viewers : stream'[v] \in Streams
  BY <1>1, <1>2
<1>4. stream' = [v \in Viewers |-> stream'[v]]
  BY DEF Notify
<1> QED  BY <1>1, <1>3, <1>4

----------------------------------------------------------------------------
\* Every step keeps the types.

LEMMA StreamTypes ==
    ASSUME StreamTypeOK
    PROVE  /\ entry \in [Runs -> Entries] /\ stream \in [Viewers -> Streams]
           /\ subscribed \in [Runs -> SUBSET Viewers] /\ driver \in [Runs -> Drivers]
           /\ row \in [Runs -> [status : Outcomes \cup {"none", "running"}, purged : BOOLEAN]]
           /\ account \in [stamp : Nat, active : BOOLEAN, link : BOOLEAN]
           /\ log \in [Runs -> Seq(Events)] /\ scrubbed \in [Runs -> Nat]
           /\ unmetered \in [Runs -> SUBSET Events] /\ upsets \in 0..MaxUpsets
           /\ \A r \in Runs : /\ log[r] \in Seq(Events) /\ entry[r] \in Entries
                              /\ entry[r].events \in Seq(Events) /\ driver[r].event \in Events
                              /\ Len(log[r]) \in Nat /\ Len(entry[r].events) \in Nat
  BY LenProperties DEF StreamTypeOK, Entries, Drivers

\* A worker's record stays one.
LEMMA DriversTyped ==
    ASSUME NEW d \in Drivers, NEW event \in Events,
           NEW pc \in {"none", "persistRow", "pull", "commit", "salvage", "publish", "record", "over"}
    PROVE  /\ [d EXCEPT !.pc = pc] \in Drivers
           /\ [d EXCEPT !.pc = pc, !.event = event] \in Drivers
           /\ [d EXCEPT !.event = event, !.pc = pc] \in Drivers
           /\ Idle \in Drivers /\ Over \in Drivers /\ [Idle EXCEPT !.pc = pc] \in Drivers
           /\ Event("failed", 0) \in Events /\ Event("cancelled", 0) \in Events
           /\ Event("queued", 0) \in Events
<1>1. /\ Event("failed", 0) \in Events /\ Event("cancelled", 0) \in Events
      /\ Event("queued", 0) \in Events
  BY EventTyped DEF EventTypes
<1>2. 0 \in 0..MaxDeltas
  BY StreamAssumption
<1> QED  BY <1>1, <1>2 DEF Drivers, Idle, Over

----------------------------------------------------------------------------
\* What a queue holds of the log.

LEMMA WaitingIs ==
    ASSUME NEW s \in Streams
    PROVE  /\ Waiting(s) \subseteq 1..Len(s.queue) /\ IsFiniteSet(Waiting(s))
           /\ Len(s.queue) \in Nat /\ Len(s.got) \in Nat /\ s.from \in Nat
           /\ Cardinality(Waiting(s)) \in Nat
           /\ \A i \in Waiting(s) : {j \in Waiting(s) : j <= i} \subseteq 1..Len(s.queue)
           /\ \A i : IsFiniteSet({j \in Waiting(s) : j <= i})
           /\ \A i : Cardinality({j \in Waiting(s) : j <= i}) \in Nat
<1>1. Len(s.queue) \in Nat /\ Len(s.got) \in Nat /\ s.from \in Nat
  BY LenProperties DEF Streams
<1>2. Waiting(s) \subseteq 1..Len(s.queue)
  BY DEF Waiting
<1>3. IsFiniteSet(1..Len(s.queue))
  <2> DEFINE n == Len(s.queue)
  <2>1. n \in Int /\ 1 \in Int
    BY <1>1
  <2> HIDE DEF n
  <2>2. IsFiniteSet(1..n)
    BY <2>1, FS_Interval
  <2> QED  BY <2>2 DEF n
<1>4. IsFiniteSet(Waiting(s))
  BY <1>2, <1>3, FS_Subset
<1>5. \A i : {j \in Waiting(s) : j <= i} \in SUBSET Waiting(s)
  OBVIOUS
<1>6. \A i : IsFiniteSet({j \in Waiting(s) : j <= i})
  BY <1>4, <1>5, FS_Subset
<1>7. \A i : Cardinality({j \in Waiting(s) : j <= i}) \in Nat
  BY <1>6, FS_CardinalityType
<1> QED  BY <1>1, <1>2, <1>4, <1>6, <1>7, FS_CardinalityType

\* A change of what a stream does not wait for or hold leaves it where it was.
LEMMA FollowsStays ==
    ASSUME NEW s, NEW t, t.got = s.got, t.queue = s.queue, t.from = s.from, NEW events
    PROVE  Follows(s, events) <=> Follows(t, events)
<1>1. Waiting(t) = Waiting(s)
  BY DEF Waiting
<1>2. \A i : Place(t, i) = Place(s, i)
  BY <1>1 DEF Place
<1> QED  BY <1>1, <1>2 DEF Follows

\* A published event is the next of the log and the last of the queue.
LEMMA FollowsAnEvent ==
    ASSUME NEW s \in Streams, NEW events \in Seq(Events), NEW event \in Events,
           NEW t, t = [s EXCEPT !.queue = Append(s.queue, EventItem(event))],
           Follows(s, events)
    PROVE  Follows(t, Append(events, event))
<1> DEFINE n == Len(s.queue)
           W == Waiting(s)
           more == Append(events, event)
           base == s.from + Len(s.got)
<1>1. /\ W \subseteq 1..n /\ IsFiniteSet(W) /\ n \in Nat /\ base \in Nat /\ Cardinality(W) \in Nat
      /\ \A i : Cardinality({j \in W : j <= i}) \in Nat
      /\ s.from \in Nat /\ Len(s.got) \in Nat
  <2>1. /\ W \subseteq 1..n /\ IsFiniteSet(W) /\ n \in Nat /\ Cardinality(W) \in Nat
        /\ s.from \in Nat /\ Len(s.got) \in Nat
    BY WaitingIs
  <2>2. \A i : Cardinality({j \in W : j <= i}) \in Nat
    BY WaitingIs
  <2>3. base \in Nat
    BY <2>1
  <2> QED  BY <2>1, <2>2, <2>3
<1>2. EventItem(event) \in Items /\ EventItem(event).kind = "event" /\ EventItem(event).event = event
  BY ItemsTyped
<1>3. s.queue \in Seq(Items) /\ s.got \in Seq(Events)
  BY DEF Streams
<1>4. /\ t.queue \in Seq(Items) /\ Len(t.queue) = n + 1
      /\ t.queue[n + 1] = EventItem(event)
      /\ \A i \in 1..n : t.queue[i] = s.queue[i]
      /\ t.got = s.got /\ t.from = s.from
  <2>1. t.queue = Append(s.queue, EventItem(event)) /\ t.got = s.got /\ t.from = s.from
    BY DEF Streams
  <2> QED  BY <1>2, <1>3, <2>1, AppendProperties
<1>5. /\ Len(events) = base + Cardinality(W) /\ Len(events) \in Nat
      /\ \A i \in 1..Len(s.got) : s.got[i] = events[s.from + i]
      /\ \A i \in W : s.queue[i].event = events[base + Cardinality({j \in W : j <= i})]
  BY LenProperties DEF Follows, Place
<1>6. /\ Len(more) = Len(events) + 1 /\ more[Len(events) + 1] = event
      /\ \A i \in 1..Len(events) : more[i] = events[i]
  BY AppendProperties
<1>7. Waiting(t) = W \cup {n + 1} /\ n + 1 \notin W
  <2>1. n + 1 \notin W
    BY <1>1
  <2>2. \A i : i \in 1..n + 1 <=> i \in 1..n \/ i = n + 1
    BY <1>1
  <2>3. Waiting(t) = {i \in 1..n + 1 : t.queue[i].kind = "event"}
    BY <1>4 DEF Waiting
  <2>4. W = {i \in 1..n : s.queue[i].kind = "event"}
    BY DEF Waiting
  <2> HIDE DEF n, W
  <2> QED  BY <1>2, <1>4, <2>1, <2>2, <2>3, <2>4
<1>8. Cardinality(W \cup {n + 1}) = Cardinality(W) + 1
  BY <1>1, <1>7, FS_AddElement
<1>9. \A i \in W : {j \in W \cup {n + 1} : j <= i} = {j \in W : j <= i}
  BY <1>1
<1>10. {j \in W \cup {n + 1} : j <= n + 1} = W \cup {n + 1}
  BY <1>1
<1> HIDE DEF n, W, more, base
<1>11. \A i : Place(t, i) = base + Cardinality({j \in W \cup {n + 1} : j <= i})
  BY <1>4, <1>7 DEF Place, base
<1>12. ASSUME NEW i \in 1..Len(t.got)
       PROVE  t.got[i] = more[t.from + i]
  <2>1. i \in 1..Len(s.got) /\ s.from + i \in 1..Len(events)
    BY <1>1, <1>4, <1>5 DEF base
  <2>2. s.got[i] = events[s.from + i] /\ more[s.from + i] = events[s.from + i]
    BY <2>1, <1>5, <1>6
  <2> QED  BY <1>4, <2>2
<1>13. ASSUME NEW i \in Waiting(t)
       PROVE  t.queue[i].event = more[Place(t, i)]
  <2>1. CASE i \in W
    <3> DEFINE below == {j \in W : j <= i}
    <3>1. Place(t, i) = base + Cardinality(below)
      BY <1>9, <1>11, <2>1
    <3>2. below \in SUBSET W /\ i \in below
      BY <1>1, <2>1
    <3>3. Cardinality(below) <= Cardinality(W) /\ Cardinality(below) \in Nat /\ Cardinality(below) > 0
      <4>1. IsFiniteSet(below) /\ Cardinality(below) <= Cardinality(W)
        BY <1>1, <3>2, FS_Subset
      <4>2. below # {}
        BY <3>2
      <4> HIDE DEF below
      <4> QED  BY <4>1, <4>2, FS_EmptySet, FS_CardinalityType
    <3>4. base + Cardinality(below) \in 1..Len(events)
      <4> HIDE DEF below
      <4> QED  BY <1>1, <1>5, <3>3
    <3>5. s.queue[i].event = events[base + Cardinality(below)]
      BY <1>5, <2>1
    <3>6. t.queue[i] = s.queue[i]
      BY <1>1, <1>4, <2>1
    <3> HIDE DEF below
    <3> QED  BY <1>6, <3>1, <3>4, <3>5, <3>6
  <2>2. CASE i = n + 1
    <3>1. Place(t, i) = base + (Cardinality(W) + 1)
      BY <1>8, <1>10, <1>11, <2>2
    <3>2. Place(t, i) = Len(events) + 1
      BY <1>1, <1>5, <3>1
    <3> QED  BY <1>2, <1>4, <1>6, <2>2, <3>2
  <2> QED  BY <1>7, <2>1, <2>2
<1>14. Len(more) = t.from + Len(t.got) + Cardinality(Waiting(t))
  <2>1. Len(more) = base + Cardinality(W) + 1
    BY <1>5, <1>6
  <2>2. t.from + Len(t.got) = base /\ Cardinality(Waiting(t)) = Cardinality(W) + 1
    BY <1>4, <1>7, <1>8 DEF base
  <2> QED  BY <1>1, <2>1, <2>2
<1> QED  BY <1>12, <1>13, <1>14 DEF Follows, more

\* A preview that is queued moves nothing.
LEMMA FollowsAPreview ==
    ASSUME NEW s \in Streams, NEW events, NEW item \in Items, item.kind # "event",
           NEW t, t = [s EXCEPT !.queue = Append(s.queue, item)],
           Follows(s, events)
    PROVE  Follows(t, events)
<1> DEFINE n == Len(s.queue)
<1>1. s.queue \in Seq(Items) /\ n \in Nat
  BY LenProperties DEF Streams
<1>2. t.queue = Append(s.queue, item) /\ t.got = s.got /\ t.from = s.from
  BY DEF Streams
<1>3. /\ Len(t.queue) = n + 1 /\ t.queue[n + 1] = item
      /\ \A i \in 1..n : t.queue[i] = s.queue[i]
  BY <1>1, <1>2, AppendProperties
<1>4. \A i : i \in 1..n + 1 <=> i \in 1..n \/ i = n + 1
  BY <1>1
<1>5. Waiting(t) = Waiting(s) /\ \A i \in Waiting(s) : t.queue[i] = s.queue[i]
  <2>1. Waiting(t) = {i \in 1..n + 1 : t.queue[i].kind = "event"}
    BY <1>3 DEF Waiting
  <2>2. Waiting(s) = {i \in 1..n : s.queue[i].kind = "event"}
    BY DEF Waiting
  <2> HIDE DEF n
  <2> QED  BY <1>3, <1>4, <2>1, <2>2
<1>6. \A i : Place(t, i) = Place(s, i)
  BY <1>2, <1>5 DEF Place
<1> QED  BY <1>2, <1>5, <1>6 DEF Follows

\* Two sets of numbers of which one is the other moved up by one.
LEMMA Shifted ==
    ASSUME NEW S \in SUBSET Nat, NEW T \in SUBSET Nat, IsFiniteSet(S),
           0 \notin T, \A j \in Nat : j \in S <=> j + 1 \in T
    PROVE  Cardinality(T) = Cardinality(S)
<1> DEFINE f == [j \in S |-> j + 1]
<1>1. f \in [S -> T]
  OBVIOUS
<1>2. \A a, b \in S : f[a] = f[b] => a = b
  OBVIOUS
<1>3. ASSUME NEW k \in T
      PROVE  \E j \in S : f[j] = k
  <2>1. k \in Nat /\ k # 0
    OBVIOUS
  <2>2. k - 1 \in Nat /\ (k - 1) + 1 = k
    BY <2>1
  <2>3. k - 1 \in S
    BY <2>2
  <2> QED  BY <2>2, <2>3
<1> HIDE DEF f
<1>4. f \in Bijection(S, T)
  BY <1>1, <1>2, <1>3 DEF Bijection, Injection, Surjection, IsInjective
<1>5. ExistsBijection(S, T)
  BY <1>4 DEF ExistsBijection
<1> QED  BY <1>5, FS_Bijection

\* An item that is delivered goes from the queue to what was sent, or to the page.
LEMMA FollowsADelivery ==
    ASSUME NEW s \in Streams, s.queue # <<>>, NEW events \in Seq(Events), Follows(s, events),
           NEW t, t = Shown([s EXCEPT !.queue = Tail(s.queue)], Head(s.queue))
    PROVE  /\ t \in Streams /\ t.pc = s.pc /\ t.run = s.run /\ t.cut = s.cut /\ t.stamp = s.stamp
           /\ Follows(t, events)
<1> DEFINE n == Len(s.queue)
           W == Waiting(s)
           V == Waiting(t)
           first == Head(s.queue)
           base == s.from + Len(s.got)
           rest == [s EXCEPT !.queue = Tail(s.queue)]
<1>1. /\ W \subseteq 1..n /\ IsFiniteSet(W) /\ n \in Nat /\ Cardinality(W) \in Nat
      /\ s.from \in Nat /\ Len(s.got) \in Nat
      /\ \A i : IsFiniteSet({j \in W : j <= i})
  BY WaitingIs
<1>2. base \in Nat /\ s.queue \in Seq(Items) /\ s.got \in Seq(Events) /\ n > 0
  <2>1. s.queue \in Seq(Items) /\ s.got \in Seq(Events)
    BY DEF Streams
  <2>2. n # 0
    BY <2>1, EmptySeq
  <2> QED  BY <1>1, <2>1, <2>2
<1>3. /\ first \in Items /\ first = s.queue[1]
      /\ Tail(s.queue) \in Seq(Items) /\ Len(Tail(s.queue)) = n - 1
      /\ \A i \in 1..n - 1 : Tail(s.queue)[i] = s.queue[i + 1]
  BY <1>2, HeadTailProperties
<1>4. rest \in Streams
  BY <1>3 DEF Streams
<1>5. /\ t \in Streams /\ t.pc = s.pc /\ t.run = s.run /\ t.cut = s.cut /\ t.stamp = s.stamp
      /\ t.queue = Tail(s.queue) /\ t.from = s.from
      /\ t.got = IF first.kind = "event" THEN Append(s.got, first.event) ELSE s.got
  <2>1. /\ rest.pc = s.pc /\ rest.run = s.run /\ rest.cut = s.cut /\ rest.stamp = s.stamp
        /\ rest.queue = Tail(s.queue) /\ rest.from = s.from /\ rest.got = s.got
    BY DEF Streams
  <2>2. t = Shown(rest, first) /\ first \in Items
    BY <1>3
  <2> HIDE DEF rest, first
  <2>3. /\ t \in Streams /\ t.pc = rest.pc /\ t.run = rest.run /\ t.cut = rest.cut
        /\ t.stamp = rest.stamp /\ t.queue = rest.queue /\ t.from = rest.from
        /\ t.got = IF first.kind = "event" THEN Append(rest.got, first.event) ELSE rest.got
    BY <1>4, <2>2, ShownIs
  <2> QED  BY <2>1, <2>3
<1>6. \A i \in Nat : i \in V <=> i # 0 /\ i + 1 \in W
  <2>1. V = {i \in 1..n - 1 : s.queue[i + 1].kind = "event"}
    BY <1>3, <1>5 DEF Waiting
  <2>2. W = {i \in 1..n : s.queue[i].kind = "event"}
    BY DEF Waiting
  <2>3. \A i \in Nat : i \in 1..n - 1 <=> i # 0 /\ i + 1 \in 1..n
    BY <1>1
  <2> HIDE DEF n, W, V
  <2> QED  BY <2>1, <2>2, <2>3
<1>7. 1 \in W <=> first.kind = "event"
  <2>1. 1 \in 1..n
    BY <1>1, <1>2
  <2> QED  BY <1>3, <2>1 DEF Waiting
<1>8. V \subseteq Nat /\ IsFiniteSet(V) /\ \A i : IsFiniteSet({j \in V : j <= i})
  <2>1. /\ Waiting(t) \subseteq 1..Len(t.queue) /\ IsFiniteSet(Waiting(t))
        /\ \A i : IsFiniteSet({j \in Waiting(t) : j <= i})
    BY <1>5, WaitingIs
  <2>2. 1..Len(t.queue) \subseteq Nat
    OBVIOUS
  <2> QED  BY <2>1, <2>2
<1> DEFINE one == IF first.kind = "event" THEN 1 ELSE 0
<1> HIDE DEF n, W, V, base, rest, first
<1>9. W \subseteq Nat /\ 0 \notin W
  BY <1>1
\* Up to each place there is one waiting event fewer if the head was one.
<1>10. ASSUME NEW i \in Nat
       PROVE  /\ Cardinality({j \in W : j <= i + 1}) = Cardinality({j \in V : j <= i}) + one
              /\ Cardinality({j \in V : j <= i}) \in Nat
  <2> DEFINE low == {j \in V : j <= i}
             high == {j \in W : j <= i + 1}
             up == high \ {1}
  <2>1. low \in SUBSET Nat /\ IsFiniteSet(low) /\ Cardinality(low) \in Nat
    BY <1>8, FS_CardinalityType
  <2>2. high \subseteq Nat /\ IsFiniteSet(high) /\ Cardinality(high) \in Nat
    BY <1>1, <1>9, FS_CardinalityType
  <2>3. up \in SUBSET Nat /\ 0 \notin up
    BY <1>9
  <2>4. ASSUME NEW j \in Nat
        PROVE  j \in low <=> j + 1 \in up
    <3>1. j + 1 # 1 <=> j # 0
      OBVIOUS
    <3>2. j <= i <=> j + 1 <= i + 1
      OBVIOUS
    <3> QED  BY <1>6, <3>1, <3>2
  <2>5. 1 \in high <=> first.kind = "event"
    <3>1. 1 <= i + 1
      OBVIOUS
    <3> QED  BY <1>7, <3>1
  <2> HIDE DEF low, high
  <2>6. Cardinality(up) = Cardinality(low)
    <3> HIDE DEF up
    <3> QED  BY <2>1, <2>3, <2>4, Shifted
  <2>7. Cardinality(up) = IF 1 \in high THEN Cardinality(high) - 1 ELSE Cardinality(high)
    BY <2>2, FS_RemoveElement
  <2>8. Cardinality(high) = Cardinality(low) + one
    BY <2>1, <2>2, <2>5, <2>6, <2>7
  <2> QED  BY <2>1, <2>8 DEF low, high
<1>11. Cardinality(W) = Cardinality(V) + one /\ Cardinality(V) \in Nat
  <2>1. {j \in W : j <= n + 1} = W /\ {j \in V : j <= n} = V /\ n \in Nat
    <3>1. \A j \in V : j + 1 \in W
      BY <1>6, <1>8
    <3> QED  BY <1>1, <1>8, <3>1
  <2> QED  BY <1>10, <2>1
<1>12. /\ Len(t.got) = Len(s.got) + one
       /\ \A i \in 1..Len(s.got) : t.got[i] = s.got[i]
       /\ first.kind = "event" => t.got[Len(s.got) + 1] = first.event
  <2>1. first.event \in Events
    BY <1>3 DEF Items
  <2>2. CASE first.kind = "event"
    <3>1. t.got = Append(s.got, first.event) /\ one = 1
      BY <1>5, <2>2
    <3>2. s.got \in Seq(Events)
      BY <1>2
    <3> DEFINE more == Append(s.got, first.event)
    <3>3. /\ Len(more) = Len(s.got) + 1 /\ more[Len(s.got) + 1] = first.event
          /\ \A i \in 1..Len(s.got) : more[i] = s.got[i]
      BY <2>1, <3>2, AppendProperties
    <3>4. t.got = more
      BY <3>1
    <3> HIDE DEF more
    <3> QED  BY <3>1, <3>3, <3>4
  <2>3. CASE first.kind # "event"
    <3>1. t.got = s.got /\ one = 0
      BY <1>5, <2>3
    <3>2. Len(s.got) \in Nat
      BY <1>1
    <3> HIDE DEF one
    <3>3. Len(t.got) = Len(s.got) + one
      BY <3>1, <3>2
    <3> QED  BY <2>3, <3>1, <3>3
  <2> QED  BY <2>2, <2>3
<1>13. /\ Len(events) = base + Cardinality(W)
       /\ \A i \in 1..Len(s.got) : s.got[i] = events[s.from + i]
       /\ \A i \in W : s.queue[i].event = events[base + Cardinality({j \in W : j <= i})]
  BY DEF Follows, Place, W, base
<1>14. ASSUME NEW i \in 1..Len(t.got)
       PROVE  t.got[i] = events[t.from + i]
  <2>1. CASE i \in 1..Len(s.got)
    BY <1>5, <1>12, <1>13, <2>1
  <2>2. CASE i \notin 1..Len(s.got)
    <3>1. first.kind = "event" /\ i = Len(s.got) + 1
      <4>1. one \in {0, 1} /\ (one = 1 <=> first.kind = "event")
        OBVIOUS
      <4>2. Len(t.got) = Len(s.got) + one /\ i \in 1..Len(t.got) /\ Len(s.got) \in Nat
        BY <1>1, <1>12
      <4> HIDE DEF one
      <4>3. one = 1 /\ i = Len(s.got) + 1
        BY <2>2, <4>1, <4>2
      <4> QED  BY <4>1, <4>3
    <3>2. {j \in W : j <= 1} = {1}
      BY <1>1, <1>7, <3>1
    <3>3. first.event = events[base + 1]
      BY <1>3, <1>7, <1>13, <3>1, <3>2, FS_Singleton
    <3>4. base + 1 = s.from + i
      BY <1>1, <3>1 DEF base
    <3> QED  BY <1>5, <1>12, <3>1, <3>3, <3>4
  <2> QED  BY <2>1, <2>2
<1>15. ASSUME NEW i \in V
       PROVE  t.queue[i].event = events[Place(t, i)]
  <2>1. i \in Nat /\ i + 1 \in W /\ i \in 1..n - 1
    <3>1. i \in Nat /\ i # 0 /\ i + 1 \in W
      BY <1>6, <1>8
    <3>2. i + 1 \in 1..n
      BY <1>1, <3>1
    <3> QED  BY <1>1, <3>1, <3>2
  <2>2. t.queue[i] = s.queue[i + 1]
    BY <1>3, <1>5, <2>1 DEF n
  <2>3. t.queue[i].event = events[base + Cardinality({j \in W : j <= i + 1})]
    BY <1>13, <2>1, <2>2
  <2> DEFINE high == Cardinality({j \in W : j <= i + 1})
             low == Cardinality({j \in V : j <= i})
  <2>4. high = low + one /\ low \in Nat
    BY <1>10, <2>1
  <2>5. Place(t, i) = t.from + Len(t.got) + low
    BY DEF Place, V
  <2>6. one \in Nat
    OBVIOUS
  <2>7. base + high = Place(t, i)
    <3>1. /\ base = s.from + Len(s.got) /\ t.from = s.from /\ Len(t.got) = Len(s.got) + one
          /\ s.from \in Nat /\ Len(s.got) \in Nat
      BY <1>1, <1>5, <1>12 DEF base
    <3> HIDE DEF high, low, one
    <3> QED  BY <2>4, <2>5, <2>6, <3>1
  <2> HIDE DEF high, low
  <2> QED  BY <2>3, <2>7 DEF high
<1>16. Len(events) = t.from + Len(t.got) + Cardinality(V)
  <2>1. one \in Nat
    OBVIOUS
  <2>2. /\ base = s.from + Len(s.got) /\ t.from = s.from /\ Len(t.got) = Len(s.got) + one
        /\ s.from \in Nat /\ Len(s.got) \in Nat
    BY <1>1, <1>5, <1>12 DEF base
  <2>3. /\ Len(events) = base + Cardinality(W)
        /\ Cardinality(W) = Cardinality(V) + one /\ Cardinality(V) \in Nat
    BY <1>11, <1>13
  <2> HIDE DEF one
  <2> QED  BY <2>1, <2>2, <2>3
<1>17. Follows(t, events)
  BY <1>14, <1>15, <1>16 DEF Follows, V
<1> QED  BY <1>5, <1>17

\* A replay is what the registry keeps of the log.
LEMMA FollowsAReplay ==
    ASSUME NEW e \in Entries, NEW events, NEW from \in Nat,
           Len(events) = from + Len(e.events),
           \A i \in 1..Len(e.events) : e.events[i] = events[from + i],
           NEW t, t.queue = Replay(e), t.got = <<>>, t.from = from
    PROVE  Follows(t, events)
<1> DEFINE n == Len(e.events)
<1>1. /\ n \in Nat /\ n <= Len(t.queue) /\ Len(t.queue) \in Nat
      /\ \A i \in 1..Len(t.queue) : /\ t.queue[i].kind = "event" <=> i <= n
                                    /\ i <= n => t.queue[i].event = e.events[i]
  BY ReplayIs
<1>2. Waiting(t) = 1..n
  BY <1>1 DEF Waiting
<1>3. \A k \in Nat : Cardinality(1..k) = k
  <2> SUFFICES ASSUME NEW k \in Nat PROVE Cardinality(1..k) = k
    OBVIOUS
  <2>1. Cardinality(1..k) = IF 1 > k THEN 0 ELSE k - 1 + 1
    BY FS_Interval
  <2> QED  BY <2>1
<1>4. Len(t.got) = 0
  BY EmptySeq
<1> HIDE DEF n
<1>5. ASSUME NEW i \in 1..n
      PROVE  t.queue[i].event = events[Place(t, i)]
  <2>1. {j \in Waiting(t) : j <= i} = 1..i /\ i \in Nat
    BY <1>1, <1>2
  <2>2. Place(t, i) = from + 0 + i
    BY <1>3, <1>4, <2>1 DEF Place
  <2>3. t.queue[i].event = e.events[i]
    BY <1>1
  <2> QED  BY <2>1, <2>2, <2>3 DEF n
<1>6. Len(events) = t.from + Len(t.got) + Cardinality(Waiting(t))
  BY <1>1, <1>2, <1>3, <1>4 DEF n
<1> QED  BY <1>2, <1>4, <1>5, <1>6 DEF Follows

----------------------------------------------------------------------------
\* Every step keeps the invariant: requests and the worker.

\* A step that only touches rows, workers or flags leaves every stream where it was.
LEMMA StreamsStand ==
    ASSUME StreamInv, UNCHANGED <<subscribed, stream, log, scrubbed, account>>,
           \A r \in Runs : /\ entry'[r].kept = entry[r].kept
                           /\ entry'[r].events = entry[r].events
                           /\ driver'[r].pc = "none" => driver[r].pc = "none"
    PROVE  LogInv' /\ SubscribedInv' /\ ViewerSeesTheLog' /\ CutInv'
<1>1. LogInv /\ SubscribedInv /\ ViewerSeesTheLog /\ CutInv
  BY DEF StreamInv
<1>2. \A v \in Viewers : stream[v].pc = "streaming" => stream[v].run \in Runs
  BY StreamTypes DEF StreamInv, Streams
<1>3. LogInv'
  BY <1>1 DEF LogInv
<1>4. SubscribedInv'
  BY <1>1 DEF SubscribedInv, Streaming
<1>5. ViewerSeesTheLog'
  BY <1>1, <1>2 DEF ViewerSeesTheLog, Streaming
<1>6. CutInv'
  BY <1>1 DEF CutInv, Allowed
<1> QED  BY <1>3, <1>4, <1>5, <1>6

LEMMA CreateRunStep ==
    ASSUME StreamInv, NEW r \in Runs, CreateRun(r)
    PROVE  StreamInv'
<1> DEFINE new == [NoEntry EXCEPT !.kept = TRUE]
           entries == [entry EXCEPT ![r] = new]
           gone == Evicted(entries, Append(order, r))
<1>1. /\ StreamTypeOK /\ LogInv /\ SubscribedInv /\ ViewerSeesTheLog /\ CutInv
      /\ PaidInv /\ CommitInv
  BY DEF StreamInv
<1>2. /\ driver[r].pc = "none"
      /\ entry' = [q \in Runs |-> IF q \in gone THEN NoEntry ELSE entries[q]]
      /\ log' = [q \in Runs |-> IF q \in gone THEN <<>> ELSE log[q]]
      /\ scrubbed' = [q \in Runs |-> IF q \in gone THEN 0 ELSE scrubbed[q]]
      /\ driver' = [driver EXCEPT ![r] = [Idle EXCEPT !.pc = "persistRow"]]
      /\ UNCHANGED <<subscribed, row, trace, stream, account, unmetered, upsets>>
  BY DEF CreateRun
<1>3. new \in Entries /\ new.status = "running" /\ new.events = <<>>
  BY EntriesTyped DEF NoEntry
<1>4. ~entry[r].kept /\ log[r] = <<>> /\ scrubbed[r] = 0
  BY <1>1, <1>2 DEF LogInv
<1>5. entry \in [Runs -> Entries]
  BY <1>1, StreamTypes
<1> HIDE DEF new
<1>6. entries \in [Runs -> Entries] /\ entries[r] = new /\ \A q \in Runs \ {r} : entries[q] = entry[q]
  BY <1>3, <1>5
<1> HIDE DEF entries
\* Nobody watches a run that is evicted, and the new run is not.
<1>7. \A q \in gone : q # r /\ subscribed[q] = {}
  BY <1>3, <1>6 DEF Evicted, Evictable
<1> HIDE DEF gone
<1>8. StreamTypeOK'
  <2>1. entry' \in [Runs -> Entries]
    BY <1>2, <1>6, EntriesTyped
  <2>2. log' \in [Runs -> Seq(Events)] /\ scrubbed' \in [Runs -> Nat]
    <3>1. log \in [Runs -> Seq(Events)] /\ scrubbed \in [Runs -> Nat]
      BY <1>1, StreamTypes
    <3>2. <<>> \in Seq(Events)
      OBVIOUS
    <3> QED  BY <1>2, <3>1, <3>2
  <2>3. driver' \in [Runs -> Drivers]
    <3>1. [Idle EXCEPT !.pc = "persistRow"] \in Drivers
      BY StreamAssumption, EventTyped DEF Idle, Drivers, EventTypes
    <3> QED  BY <1>1, <1>2, <3>1, StreamTypes
  <2> QED  BY <1>1, <1>2, <2>1, <2>2, <2>3 DEF StreamTypeOK
<1>9. LogInv'
  <2>1. ASSUME NEW q \in Runs
        PROVE  /\ entry'[q].kept =>
                    /\ Len(log'[q]) = scrubbed'[q] + Len(entry'[q].events)
                    /\ \A i \in 1..Len(entry'[q].events) :
                            entry'[q].events[i] = log'[q][scrubbed'[q] + i]
               /\ driver'[q].pc = "none" =>
                    ~entry'[q].kept /\ log'[q] = <<>> /\ scrubbed'[q] = 0
    <3>1. CASE q \in gone
      <4>1. entry'[q] = NoEntry /\ log'[q] = <<>> /\ scrubbed'[q] = 0
        BY <1>2, <3>1
      <4> QED  BY <4>1, EntriesTyped
    <3>2. CASE q = r
      <4>1. entry'[r] = new /\ log'[r] = <<>> /\ scrubbed'[r] = 0
        BY <1>2, <1>4, <1>6, <1>7
      <4>2. Len(log'[r]) = 0 /\ Len(entry'[r].events) = 0
        BY <1>3, <4>1, EmptySeq
      <4>3. driver'[r].pc = "persistRow"
        BY <1>1, <1>2, StreamTypes DEF Idle
      <4> QED  BY <3>2, <4>1, <4>2, <4>3
    <3>3. CASE q \notin gone /\ q # r
      <4>1. entry'[q] = entry[q] /\ log'[q] = log[q] /\ scrubbed'[q] = scrubbed[q]
            /\ driver'[q] = driver[q]
        BY <1>1, <1>2, <1>6, <3>3, StreamTypes
      <4> QED  BY <1>1, <4>1 DEF LogInv
    <3> QED  BY <3>1, <3>2, <3>3
  <2> QED  BY <2>1 DEF LogInv
<1>10. SubscribedInv'
  BY <1>1, <1>2 DEF SubscribedInv, Streaming
<1>11. ViewerSeesTheLog'
  <2>1. ASSUME NEW v \in Viewers, Streaming(v)
        PROVE  entry'[stream[v].run].kept /\ Follows(stream[v], log'[stream[v].run])
    <3> DEFINE q == stream[v].run
    <3>1. q \in Runs /\ v \in subscribed[q] /\ entry[q].kept /\ Follows(stream[v], log[q])
      BY <1>1, <2>1, StreamTypes DEF SubscribedInv, ViewerSeesTheLog, Streams
    <3>2. q \notin gone /\ q # r
      BY <1>4, <1>7, <3>1
    <3>3. entry'[q] = entry[q] /\ log'[q] = log[q]
      BY <1>2, <1>6, <3>1, <3>2
    <3> QED  BY <3>1, <3>3
  <2> QED  BY <1>2, <2>1 DEF ViewerSeesTheLog, Streaming
<1>12. CutInv'
  BY <1>1, <1>2 DEF CutInv, Allowed
<1>13. PaidInv' /\ CommitInv'
  <2>1. ASSUME NEW q \in Runs
        PROVE  /\ Paid(q, driver'[q], row[q].status, unmetered[q])
               /\ driver'[q].pc = "commit" => Terminal(driver'[q].event)
    <3>1. CASE q = r
      <4>1. Paid(r, driver[r], row[r].status, unmetered[r])
        BY <1>1 DEF PaidInv
      <4>2. driver'[r].pc = "persistRow"
        BY <1>1, <1>2, StreamTypes DEF Idle
      <4>3. Paid(r, driver'[r], row[r].status, unmetered[r])
        BY <1>2, <4>1, <4>2 DEF Paid, Afterwards
      <4> QED  BY <3>1, <4>2, <4>3
    <3>2. CASE q # r
      BY <1>1, <1>2, <3>2, StreamTypes DEF PaidInv, CommitInv
    <3> QED  BY <3>1, <3>2
  <2> QED  BY <1>2, <2>1 DEF PaidInv, CommitInv
<1> QED  BY <1>8, <1>9, <1>10, <1>11, <1>12, <1>13 DEF StreamInv

LEMMA CancelRunStep ==
    ASSUME StreamInv, NEW r \in Runs, CancelRun(r)
    PROVE  StreamInv'
<1>1. /\ entry' = [entry EXCEPT ![r].cancel = TRUE] /\ Upset
      /\ UNCHANGED <<subscribed, row, trace, driver, stream, account, log, scrubbed, unmetered>>
  BY DEF CancelRun, historyVars
<1>2. StreamTypeOK /\ PaidInv /\ CommitInv /\ entry \in [Runs -> Entries]
  BY StreamTypes DEF StreamInv
<1>3. entry' \in [Runs -> Entries]
  <2>1. [entry[r] EXCEPT !.cancel = TRUE] \in Entries
    BY <1>2, EntriesTyped
  <2>2. entry' = [entry EXCEPT ![r] = [entry[r] EXCEPT !.cancel = TRUE]]
    BY <1>1
  <2> QED  BY <1>2, <2>1, <2>2
<1>4. \A q \in Runs : entry'[q].kept = entry[q].kept /\ entry'[q].events = entry[q].events
  <2>1. \A q \in Runs : entry[q] \in Entries
    BY <1>2
  <2> QED  BY <1>1, <1>2, <2>1 DEF Entries
<1>5. upsets' \in 0..MaxUpsets
  BY <1>1, <1>2, StreamTypes, StreamAssumption DEF Upset
<1>6. StreamTypeOK'
  BY <1>1, <1>2, <1>3, <1>5 DEF StreamTypeOK
<1>7. PaidInv' /\ CommitInv'
  BY <1>1, <1>2 DEF PaidInv, CommitInv
<1> QED  BY <1>1, <1>4, <1>6, <1>7, StreamsStand DEF StreamInv

LEMMA PurgeRunStep ==
    ASSUME StreamInv, NEW r \in Runs, PurgeRun(r)
    PROVE  StreamInv'
<1> DEFINE e == entry[r]
<1>1. /\ row' = [row EXCEPT ![r].purged = TRUE] /\ trace' = [trace EXCEPT ![r] = FALSE] /\ Upset
      /\ entry' = [entry EXCEPT ![r] = Forgotten(e)]
      /\ scrubbed' = [scrubbed EXCEPT ![r] = IF Forgotten(e) # e THEN Len(log[r]) ELSE scrubbed[r]]
      /\ UNCHANGED <<subscribed, driver, stream, account, log, unmetered>>
  BY DEF PurgeRun
<1>2. /\ StreamTypeOK /\ LogInv /\ SubscribedInv /\ ViewerSeesTheLog /\ CutInv
      /\ PaidInv /\ CommitInv
  BY DEF StreamInv
<1>3. /\ entry \in [Runs -> Entries] /\ scrubbed \in [Runs -> Nat] /\ Len(log[r]) \in Nat
      /\ e \in Entries
  BY <1>2, StreamTypes
<1>4. /\ Forgotten(e) \in Entries /\ Forgotten(e).kept = e.kept
      /\ Forgotten(e) # e => e.kept /\ Forgotten(e).events = <<>>
  BY <1>3, EntriesTyped DEF Forgotten, Entries
<1>5. /\ entry' \in [Runs -> Entries] /\ scrubbed' \in [Runs -> Nat]
      /\ entry'[r] = Forgotten(e)
      /\ scrubbed'[r] = IF Forgotten(e) # e THEN Len(log[r]) ELSE scrubbed[r]
      /\ \A q \in Runs \ {r} : entry'[q] = entry[q] /\ scrubbed'[q] = scrubbed[q]
  BY <1>1, <1>3, <1>4
<1>6. StreamTypeOK'
  <2>1. upsets' \in 0..MaxUpsets
    BY <1>1, <1>2, StreamTypes, StreamAssumption DEF Upset
  <2>2. row' \in [Runs -> [status : Outcomes \cup {"none", "running"}, purged : BOOLEAN]]
    BY <1>1, <1>2, StreamTypes
  <2>3. trace' \in [Runs -> BOOLEAN]
    BY <1>1, <1>2 DEF StreamTypeOK
  <2> QED  BY <1>1, <1>2, <1>5, <2>1, <2>2, <2>3 DEF StreamTypeOK
<1>7. LogInv'
  <2>1. ASSUME NEW q \in Runs
        PROVE  /\ entry'[q].kept =>
                    /\ Len(log[q]) = scrubbed'[q] + Len(entry'[q].events)
                    /\ \A i \in 1..Len(entry'[q].events) :
                            entry'[q].events[i] = log[q][scrubbed'[q] + i]
               /\ driver[q].pc = "none" =>
                    ~entry'[q].kept /\ log[q] = <<>> /\ scrubbed'[q] = 0
    <3>1. CASE q = r /\ Forgotten(e) # e
      <4>1. entry'[r].events = <<>> /\ Len(entry'[r].events) = 0 /\ scrubbed'[r] = Len(log[r])
        BY <1>4, <1>5, <3>1, EmptySeq
      <4>2. driver[r].pc # "none"
        BY <1>2, <1>4, <3>1 DEF LogInv
      <4> QED  BY <1>3, <3>1, <4>1, <4>2
    <3>2. CASE q # r \/ Forgotten(e) = e
      <4>1. entry'[q] = entry[q] /\ scrubbed'[q] = scrubbed[q]
        BY <1>5, <3>2
      <4> QED  BY <1>2, <4>1 DEF LogInv
    <3> QED  BY <3>1, <3>2
  <2> QED  BY <1>1, <2>1 DEF LogInv
<1>8. SubscribedInv'
  BY <1>1, <1>2 DEF SubscribedInv, Streaming
<1>9. ViewerSeesTheLog'
  <2>1. \A v \in Viewers : stream[v].run \in Runs
    BY <1>2, StreamTypes DEF Streams
  <2>2. \A q \in Runs : entry'[q].kept = entry[q].kept
    BY <1>4, <1>5
  <2> QED  BY <1>1, <1>2, <2>1, <2>2 DEF ViewerSeesTheLog, Streaming
<1>10. CutInv'
  BY <1>1, <1>2 DEF CutInv, Allowed
<1>11. PaidInv' /\ CommitInv'
  <2>1. \A q \in Runs : row'[q].status = row[q].status
    BY <1>1, <1>2, StreamTypes
  <2> QED  BY <1>1, <1>2, <2>1 DEF PaidInv, CommitInv
<1> QED  BY <1>6, <1>7, <1>8, <1>9, <1>10, <1>11 DEF StreamInv

LEMMA ChangeAccountStep ==
    ASSUME StreamInv, NEW acc \in [stamp : Nat, active : BOOLEAN, link : BOOLEAN],
           ChangeAccount(acc)
    PROVE  StreamInv'
<1> DEFINE Loses(v) == stream[v].pc # "closed" /\ Allowed(v, account) /\ ~Allowed(v, acc)
           end(v) == Len(log[stream[v].run])
<1>1. /\ Upset /\ account' = acc
      /\ stream' = [v \in Viewers |->
            IF Loses(v) THEN [stream[v] EXCEPT !.cut = end(v)] ELSE stream[v]]
      /\ UNCHANGED <<entry, subscribed, row, trace, driver, log, scrubbed, unmetered>>
  BY DEF ChangeAccount, registryVars, historyVars
<1>2. /\ StreamTypeOK /\ LogInv /\ SubscribedInv /\ ViewerSeesTheLog /\ CutInv
      /\ PaidInv /\ CommitInv
  BY DEF StreamInv
<1>3. \A v \in Viewers : stream[v] \in Streams /\ stream[v].run \in Runs /\ end(v) \in Nat
  BY <1>2, StreamTypes DEF Streams
<1>4. \A v \in Viewers : stream'[v] = IF Loses(v) THEN [stream[v] EXCEPT !.cut = end(v)] ELSE stream[v]
  BY <1>1
<1>5. ASSUME NEW v \in Viewers
      PROVE  /\ stream'[v] \in Streams /\ stream'[v].pc = stream[v].pc
             /\ stream'[v].run = stream[v].run /\ stream'[v].stamp = stream[v].stamp
             /\ stream'[v].queue = stream[v].queue /\ stream'[v].got = stream[v].got
             /\ stream'[v].from = stream[v].from
             /\ stream'[v].cut = IF Loses(v) THEN end(v) ELSE stream[v].cut
  <2>1. stream[v] \in Streams /\ end(v) \in Nat
    BY <1>3
  <2>2. stream'[v] = IF Loses(v) THEN [stream[v] EXCEPT !.cut = end(v)] ELSE stream[v]
    BY <1>4
  <2> HIDE DEF Loses, end
  <2>3. CASE Loses(v)
    <3>1. stream'[v] = [stream[v] EXCEPT !.cut = end(v)]
      BY <2>2, <2>3
    <3> QED  BY <2>1, <2>3, <3>1 DEF Streams
  <2>4. CASE ~Loses(v)
    BY <2>1, <2>2, <2>4
  <2> QED  BY <2>3, <2>4
<1>6. StreamTypeOK'
  <2>1. upsets' \in 0..MaxUpsets
    BY <1>1, <1>2, StreamTypes, StreamAssumption DEF Upset
  <2>2. stream' \in [Viewers -> Streams]
    BY <1>1, <1>5
  <2> QED  BY <1>1, <1>2, <2>1, <2>2 DEF StreamTypeOK
<1>7. LogInv'
  BY <1>1, <1>2 DEF LogInv
<1>8. SubscribedInv'
  BY <1>1, <1>2, <1>5 DEF SubscribedInv, Streaming
<1>9. ViewerSeesTheLog'
  <2>1. ASSUME NEW v \in Viewers, stream'[v].pc = "streaming"
        PROVE  entry[stream'[v].run].kept /\ Follows(stream'[v], log[stream'[v].run])
    <3>1. entry[stream[v].run].kept /\ Follows(stream[v], log[stream[v].run])
      BY <1>2, <1>5, <2>1 DEF ViewerSeesTheLog, Streaming
    <3> QED  BY <1>5, <3>1, FollowsStays
  <2> QED  BY <1>1, <2>1 DEF ViewerSeesTheLog, Streaming
\* The events a stream was sent are at most those published when it lost its access.
<1>10. CutInv'
  <2>1. ASSUME NEW v \in Viewers, stream'[v].pc \in {"none", "ticket", "accepted"}
        PROVE  stream'[v].got = <<>>
    BY <1>2, <1>5, <2>1 DEF CutInv
  <2>2. ASSUME NEW v \in Viewers, stream'[v].got # <<>>,
               ~Allowed(v, acc) \/ stream'[v].pc = "closed"
        PROVE  stream'[v].from + Len(stream'[v].got) <= stream'[v].cut
    <3>1. CASE Loses(v)
      <4>1. Streaming(v)
        <5>1. stream[v].got # <<>> /\ stream[v].pc # "closed"
          BY <1>5, <2>2, <3>1
        <5> QED  BY <1>2, <1>3, <5>1 DEF CutInv, Streaming, Streams
      <4>2. Follows(stream[v], log[stream[v].run])
        BY <1>2, <4>1 DEF ViewerSeesTheLog
      <4>3. end(v) = stream[v].from + Len(stream[v].got) + Cardinality(Waiting(stream[v]))
        BY <4>2 DEF Follows
      <4>4. /\ Len(stream[v].got) \in Nat /\ stream[v].from \in Nat
            /\ Cardinality(Waiting(stream[v])) \in Nat
        BY <1>3, WaitingIs
      <4>5. /\ stream'[v].cut = end(v) /\ stream'[v].from = stream[v].from
            /\ stream'[v].got = stream[v].got
        BY <1>5, <3>1
      <4> HIDE DEF end, Loses
      <4> QED  BY <4>3, <4>4, <4>5
    <3>2. CASE ~Loses(v)
      <4>1. stream'[v] = stream[v]
        BY <1>4, <3>2
      <4>2. ~Allowed(v, account) \/ stream[v].pc = "closed"
        BY <2>2, <3>2, <4>1
      <4> QED  BY <1>2, <2>2, <4>1, <4>2 DEF CutInv
    <3> QED  BY <3>1, <3>2
  <2>3. \A v \in Viewers : (~Allowed(v, account))' => ~Allowed(v, acc)
    BY <1>1, <1>5 DEF Allowed
  <2> QED  BY <2>1, <2>2, <2>3 DEF CutInv
<1>11. PaidInv' /\ CommitInv'
  BY <1>1, <1>2 DEF PaidInv, CommitInv
<1> QED  BY <1>6, <1>7, <1>8, <1>9, <1>10, <1>11 DEF StreamInv

LEMMA AccountStep ==
    ASSUME StreamInv, ResetPassword \/ ToggleOrg \/ RevokeLink
    PROVE  StreamInv'
<1> DEFINE Account == [stamp : Nat, active : BOOLEAN, link : BOOLEAN]
<1>1. account \in Account
  BY StreamTypes DEF StreamInv
<1>2. /\ [account EXCEPT !.stamp = @ + 1] \in Account
      /\ [account EXCEPT !.active = ~@] \in Account /\ [account EXCEPT !.link = FALSE] \in Account
  <2>1. account.stamp + 1 \in Nat
    BY <1>1
  <2>2. [account EXCEPT !.stamp = @ + 1] \in Account
    BY <1>1, <2>1
  <2>3. (~account.active) \in BOOLEAN
    OBVIOUS
  <2>4. [account EXCEPT !.active = ~@] \in Account
    BY <1>1, <2>3, Zenon
  <2> QED  BY <1>1, <2>2, <2>4
<1>3. CASE ResetPassword
  BY <1>2, <1>3, ChangeAccountStep DEF ResetPassword
<1>4. CASE ToggleOrg
  BY <1>2, <1>4, ChangeAccountStep DEF ToggleOrg
<1>5. CASE RevokeLink
  BY <1>2, <1>5, ChangeAccountStep DEF RevokeLink
<1> QED  BY <1>3, <1>4, <1>5

LEMMA PersistRowStep ==
    ASSUME StreamInv, NEW r \in Runs, PersistRow(r)
    PROVE  StreamInv'
<1>1. StreamTypeOK /\ PaidInv /\ CommitInv /\ driver \in [Runs -> Drivers]
  BY StreamTypes DEF StreamInv
<1>2. PICK event \in {Event("queued", 0), Event("failed", 0)}, pc \in {"publish", "salvage"} :
        driver' = [driver EXCEPT ![r].pc = pc, ![r].event = event]
  BY DEF PersistRow
<1>a. event \in Events /\ event.type \in {"queued", "failed"}
  BY EventTyped DEF EventTypes
<1>3. /\ driver[r].pc = "persistRow"
      /\ UNCHANGED <<entry, order, subscribed, trace, stream, account, log, scrubbed, unmetered>>
      /\ row' = row \/ row' = [row EXCEPT ![r].status = "running"]
      /\ UNCHANGED upsets \/ Upset
  BY DEF PersistRow, registryVars, historyVars
<1>4. /\ driver' \in [Runs -> Drivers] /\ driver'[r].pc \in {"publish", "salvage"}
      /\ driver'[r].event = event /\ \A q \in Runs \ {r} : driver'[q] = driver[q]
      /\ \A q \in Runs : driver'[q].pc = "none" => driver[q].pc = "none"
  <2> DEFINE next == [driver[r] EXCEPT !.pc = pc, !.event = event]
  <2>1. driver[r] \in Drivers /\ event \in Events
    BY <1>1, <1>a
  <2>2. next \in Drivers /\ next.pc = pc /\ next.event = event
    <3>1. next.pc = pc /\ next.event = event
      BY <2>1 DEF Drivers
    <3> QED  BY <2>1, <3>1, DriversTyped
  <2>3. driver' = [driver EXCEPT ![r] = next]
    BY <1>2
  <2> HIDE DEF next
  <2> QED  BY <1>1, <2>2, <2>3
<1>5. StreamTypeOK'
  <2>1. upsets' \in 0..MaxUpsets
    BY <1>1, <1>3, StreamTypes, StreamAssumption DEF Upset
  <2>2. row' \in [Runs -> [status : Outcomes \cup {"none", "running"}, purged : BOOLEAN]]
    BY <1>1, <1>3, StreamTypes
  <2> QED  BY <1>1, <1>3, <1>4, <2>1, <2>2 DEF StreamTypeOK
<1>6. PaidInv' /\ CommitInv'
  <2>1. ASSUME NEW q \in Runs
        PROVE  /\ Paid(q, driver'[q], row'[q].status, unmetered[q])
               /\ driver'[q].pc = "commit" => Terminal(driver'[q].event)
    <3>1. CASE q = r
      <4>1. Paid(r, driver[r], row[r].status, unmetered[r])
        BY <1>1 DEF PaidInv
      <4>2. row'[r].status \in {row[r].status, "running"}
        BY <1>1, <1>3, StreamTypes
      <4>3. unmetered[r] = {} /\ row[r].status \notin {"completed", "cancelled"}
        BY <1>3, <4>1 DEF Paid, Afterwards
      <4>4. Paid(r, driver'[r], row'[r].status, unmetered[r])
        BY <1>4, <1>a, <4>2, <4>3 DEF Paid
      <4> QED  BY <1>4, <3>1, <4>4
    <3>2. CASE q # r
      <4>1. driver'[q] = driver[q] /\ row'[q] = row[q]
        BY <1>1, <1>3, <1>4, <3>2, StreamTypes
      <4> QED  BY <1>1, <4>1 DEF PaidInv, CommitInv
    <3> QED  BY <3>1, <3>2
  <2> QED  BY <1>3, <2>1 DEF PaidInv, CommitInv
<1> QED  BY <1>3, <1>4, <1>5, <1>6, StreamsStand DEF StreamInv

LEMMA PullStep ==
    ASSUME StreamInv, NEW r \in Runs, Pull(r)
    PROVE  StreamInv'
<1> DEFINE d == driver[r]
           was == row[r].status
           paid == unmetered[r]
<1>1. /\ StreamTypeOK /\ PaidInv /\ CommitInv /\ driver \in [Runs -> Drivers] /\ d \in Drivers
      /\ d.event \in Events /\ unmetered \in [Runs -> SUBSET Events]
  BY StreamTypes DEF StreamInv, Drivers
<1>2. /\ d.pc = "pull"
      /\ UNCHANGED <<entry, order, subscribed, row, trace, stream, account, log, scrubbed, upsets>>
  BY DEF Pull, registryVars
<1>3. Paid(r, d, was, paid)
  BY <1>1 DEF PaidInv
\* In each case a record of the worker's and what may then be unmetered.
<1>5. \E next \in Drivers, owed \in SUBSET Events :
        /\ driver' = [driver EXCEPT ![r] = next] /\ unmetered' = [unmetered EXCEPT ![r] = owed]
        /\ next.pc # "none" /\ Paid(r, next, was, owed)
        /\ next.pc = "commit" => Terminal(next.event)
  <2>1. CASE \E event \in Yields(d.event, r) :
                /\ driver' = [driver EXCEPT ![r].pc = NextStop(event), ![r].event = event]
                /\ unmetered' = [unmetered EXCEPT ![r] = @ \cup Pays(event, r)]
    <3>1. PICK event \in Yields(d.event, r) :
                /\ driver' = [driver EXCEPT ![r].pc = NextStop(event), ![r].event = event]
                /\ unmetered' = [unmetered EXCEPT ![r] = @ \cup Pays(event, r)]
      BY <2>1
    <3> DEFINE next == [d EXCEPT !.pc = NextStop(event), !.event = event]
               owed == paid \cup Pays(event, r)
    <3>2. event \in Events /\ NextStop(event) \in {"commit", "publish"}
      BY <1>1, YieldsTyped DEF NextStop
    <3>3. next \in Drivers /\ next.pc = NextStop(event) /\ next.event = event
      BY <1>1, <3>2 DEF Drivers
    <3>4. owed \in SUBSET Events
      BY <1>1, <3>2, PaysTyped
    <3>6. driver' = [driver EXCEPT ![r] = next] /\ unmetered' = [unmetered EXCEPT ![r] = owed]
      BY <3>1
    <3>7. next.pc # "none" /\ (next.pc = "commit" => Terminal(next.event))
      BY <3>2, <3>3 DEF NextStop
    <3> HIDE DEF next, d, was, paid
    <3>5. Paid(r, next, was, owed)
      BY <1>1, <1>2, <1>3, <3>3, PullPaid DEF d
    <3> HIDE DEF owed
    <3> QED  BY <3>3, <3>4, <3>5, <3>6, <3>7
  <2>2. CASE /\ d.event.type = "queued" /\ UNCHANGED unmetered
             /\ driver' = [driver EXCEPT ![r].pc = "salvage", ![r].event = Event("failed", 0)]
    <3> DEFINE next == [d EXCEPT !.pc = "salvage", !.event = Event("failed", 0)]
    <3>1. next \in Drivers /\ next.pc = "salvage" /\ next.event.type = "failed"
      BY <1>1, EventTyped DEF Drivers, EventTypes
    <3>3. driver' = [driver EXCEPT ![r] = next]
      BY <2>2
    <3>4. unmetered' = [unmetered EXCEPT ![r] = paid] /\ paid \in SUBSET Events
      BY <1>1, <2>2
    <3> HIDE DEF next, d, was, paid
    <3>5. Paid(r, next, was, paid)
      BY <1>1, <1>2, <1>3, <2>2, <3>1, PullEndsPaid
    <3> QED  BY <3>1, <3>3, <3>4, <3>5
  <2>3. CASE /\ Yields(d.event, r) = {} /\ UNCHANGED unmetered
             /\ driver' = [driver EXCEPT ![r] = Over]
    <3>1. Over \in Drivers /\ Over.pc = "over"
      BY StreamAssumption, EventTyped DEF Drivers, EventTypes, Over, Idle
    <3>3. unmetered' = [unmetered EXCEPT ![r] = paid] /\ paid \in SUBSET Events
      BY <1>1, <2>3
    <3> HIDE DEF d, was, paid
    <3>2. Paid(r, Over, was, paid)
      BY <1>1, <1>2, <1>3, <2>3, <3>1, PullEndsPaid
    <3> QED  BY <2>3, <3>1, <3>2, <3>3
  <2> QED  BY <2>1, <2>2, <2>3 DEF Pull
<1> HIDE DEF d
<1>6. PICK next \in Drivers, owed \in SUBSET Events :
        /\ driver' = [driver EXCEPT ![r] = next] /\ unmetered' = [unmetered EXCEPT ![r] = owed]
        /\ next.pc # "none" /\ Paid(r, next, was, owed)
        /\ next.pc = "commit" => Terminal(next.event)
  BY <1>5
<1>7. StreamTypeOK'
  <2>1. driver' \in [Runs -> Drivers] /\ unmetered' \in [Runs -> SUBSET Events]
    BY <1>1, <1>6
  <2> QED  BY <1>1, <1>2, <2>1 DEF StreamTypeOK
<1>8. \A q \in Runs : driver'[q].pc = "none" => driver[q].pc = "none"
  BY <1>1, <1>6
<1>9. PaidInv' /\ CommitInv'
  <2>1. ASSUME NEW q \in Runs
        PROVE  /\ Paid(q, driver'[q], row[q].status, unmetered'[q])
               /\ driver'[q].pc = "commit" => Terminal(driver'[q].event)
    <3>1. CASE q = r
      BY <1>1, <1>6, <3>1
    <3>2. CASE q # r
      BY <1>1, <1>6, <3>2 DEF PaidInv, CommitInv
    <3> QED  BY <3>1, <3>2
  <2> QED  BY <1>2, <2>1 DEF PaidInv, CommitInv
<1> QED  BY <1>2, <1>7, <1>8, <1>9, StreamsStand DEF StreamInv

\* The terminal status and its event agree with what is unmetered.
LEMMA CommitStep ==
    ASSUME StreamInv, NEW r \in Runs, Commit(r) \/ Salvage(r)
    PROVE  StreamInv'
<1> DEFINE d == driver[r]
<1>1. /\ StreamTypeOK /\ PaidInv /\ CommitInv /\ driver \in [Runs -> Drivers] /\ d \in Drivers
  BY StreamTypes DEF StreamInv
<1>2. /\ d.pc \in {"commit", "salvage"}
      /\ UNCHANGED <<entry, order, subscribed, trace, stream, account, log, scrubbed, unmetered>>
      /\ UNCHANGED upsets \/ Upset
  BY DEF Commit, Salvage, registryVars, historyVars
<1>3. Paid(r, d, row[r].status, unmetered[r]) /\ (d.pc = "commit" => Terminal(d.event))
  BY <1>1 DEF PaidInv, CommitInv
<1>4. \E next \in Drivers :
        /\ driver' = [driver EXCEPT ![r] = next]
        /\ next.pc \in {"publish", "salvage"}
        /\ Paid(r, next, row'[r].status, unmetered[r])
  <2>a. row[r].status \notin {"completed", "cancelled"}
    BY <1>2, <1>3 DEF Paid, Afterwards
  <2>1. CASE driver' = [driver EXCEPT ![r].pc = "publish"] /\ Commit(r)
    <3> DEFINE next == [d EXCEPT !.pc = "publish"]
    <3>1. /\ next \in Drivers /\ next.pc = "publish" /\ next.event = d.event
          /\ driver' = [driver EXCEPT ![r] = next]
      BY <1>1, <2>1 DEF Drivers
    <3>2. d.pc = "commit" /\ row' = [row EXCEPT ![r].status = d.event.type]
      BY <1>1, <2>1 DEF Commit, Drivers
    <3>3. row'[r].status = d.event.type
      BY <1>1, <3>2, StreamTypes
    <3> HIDE DEF next
    <3>4. Owed(r, next) = Owed(r, d)
      BY <3>1, <3>2 DEF Owed
    <3>5. Paid(r, next, row'[r].status, unmetered[r])
      BY <1>3, <3>1, <3>2, <3>3, <3>4 DEF Paid, Afterwards
    <3> QED  BY <3>1, <3>5
  <2>2. CASE /\ driver' = [driver EXCEPT ![r].pc = "salvage", ![r].event = Event("failed", 0)]
             /\ UNCHANGED row
    <3> DEFINE next == [d EXCEPT !.pc = "salvage", !.event = Event("failed", 0)]
    <3>1. next \in Drivers /\ next.pc = "salvage" /\ next.event.type = "failed"
      BY <1>1, EventTyped DEF Drivers, EventTypes
    <3>2. driver' = [driver EXCEPT ![r] = next]
      BY <2>2
    <3> HIDE DEF next
    <3>3. Paid(r, next, row'[r].status, unmetered[r])
      BY <1>3, <2>2, <2>a, <3>1 DEF Paid
    <3> QED  BY <3>1, <3>2, <3>3
  <2>3. CASE driver' = [driver EXCEPT ![r].pc = "publish"] /\ Salvage(r)
    <3> DEFINE next == [d EXCEPT !.pc = "publish"]
    <3>1. /\ next \in Drivers /\ next.pc = "publish" /\ next.event = d.event
          /\ driver' = [driver EXCEPT ![r] = next]
      BY <1>1, <2>3 DEF Drivers
    <3>2. d.pc = "salvage" /\ row'[r].status \in {row[r].status, "failed"}
      BY <1>1, <2>3, StreamTypes DEF Salvage
    <3> HIDE DEF next
    <3>3. Owed(r, next) = Owed(r, d)
      BY <3>1, <3>2 DEF Owed
    <3>4. Paid(r, next, row'[r].status, unmetered[r])
      BY <1>3, <2>a, <3>1, <3>2, <3>3 DEF Paid
    <3> QED  BY <3>1, <3>4
  <2> QED  BY <2>1, <2>2, <2>3 DEF Commit, Salvage, Go
<1>5. PICK next \in Drivers :
        /\ driver' = [driver EXCEPT ![r] = next]
        /\ next.pc \in {"publish", "salvage"}
        /\ Paid(r, next, row'[r].status, unmetered[r])
  BY <1>4
<1>6. StreamTypeOK'
  <2>1. upsets' \in 0..MaxUpsets
    BY <1>1, <1>2, StreamTypes, StreamAssumption DEF Upset
  <2>2. driver' \in [Runs -> Drivers]
    BY <1>1, <1>5
  <2>3. row' \in [Runs -> [status : Outcomes \cup {"none", "running"}, purged : BOOLEAN]]
    <3> DEFINE Rows == [status : Outcomes \cup {"none", "running"}, purged : BOOLEAN]
    <3>1. row \in [Runs -> Rows]
      BY <1>1, StreamTypes
    <3>2. CASE row' = row
      BY <3>1, <3>2
    <3>3. CASE row' = [row EXCEPT ![r].status = "failed"]
      BY <3>1, <3>3 DEF Outcomes
    <3>4. CASE row' = [row EXCEPT ![r].status = d.event.type] /\ d.pc = "commit"
      BY <1>1, <3>1, <3>4 DEF CommitInv, Terminal
    <3> QED  BY <3>2, <3>3, <3>4 DEF Commit, Salvage
  <2> QED  BY <1>1, <1>2, <2>1, <2>2, <2>3 DEF StreamTypeOK
<1>7. \A q \in Runs : driver'[q].pc = "none" => driver[q].pc = "none"
  BY <1>1, <1>5
<1>8. PaidInv' /\ CommitInv'
  <2>1. ASSUME NEW q \in Runs
        PROVE  /\ Paid(q, driver'[q], row'[q].status, unmetered[q])
               /\ driver'[q].pc = "commit" => Terminal(driver'[q].event)
    <3>1. CASE q = r
      BY <1>1, <1>5, <3>1
    <3>2. CASE q # r
      <4>1. driver'[q] = driver[q] /\ row'[q] = row[q]
        BY <1>1, <1>5, <3>2, StreamTypes DEF Commit, Salvage
      <4> QED  BY <1>1, <4>1 DEF PaidInv, CommitInv
    <3> QED  BY <3>1, <3>2
  <2> QED  BY <1>2, <2>1 DEF PaidInv, CommitInv
<1> QED  BY <1>2, <1>6, <1>7, <1>8, StreamsStand DEF StreamInv

LEMMA PublishStep ==
    ASSUME StreamInv, NEW r \in Runs, Publish(r)
    PROVE  StreamInv'
<1> DEFINE d == driver[r]
           event == d.event
<1>1. /\ StreamTypeOK /\ LogInv /\ SubscribedInv /\ ViewerSeesTheLog /\ CutInv
      /\ PaidInv /\ CommitInv
  BY DEF StreamInv
<1>2. /\ d.pc = "publish" /\ driver' = [driver EXCEPT ![r].pc = "record"]
      /\ UNCHANGED <<order, subscribed, row, trace, account, scrubbed, unmetered, upsets>>
  BY DEF Publish, Go
<1>3. driver \in [Runs -> Drivers] /\ d \in Drivers /\ event \in Events
  BY <1>1, StreamTypes
<1>4. PICK next \in Drivers : /\ driver' = [driver EXCEPT ![r] = next]
                              /\ next.pc = "record" /\ next.event = event
  <2> DEFINE next == [d EXCEPT !.pc = "record"]
  <2>1. next \in Drivers /\ next.pc = "record" /\ next.event = event
    BY <1>3 DEF Drivers
  <2>2. driver' = [driver EXCEPT ![r] = next]
    BY <1>2
  <2> HIDE DEF next
  <2> QED  BY <2>1, <2>2
<1>5. driver' \in [Runs -> Drivers] /\ \A q \in Runs : driver'[q].pc = "none" => driver[q].pc = "none"
  BY <1>3, <1>4
\* A call whose event is published is still owed: the meter comes next.
<1>6. PaidInv' /\ CommitInv'
  <2>1. ASSUME NEW q \in Runs
        PROVE  /\ Paid(q, driver'[q], row[q].status, unmetered[q])
               /\ driver'[q].pc = "commit" => Terminal(driver'[q].event)
    <3>1. CASE q = r
      <4>1. Paid(r, d, row[r].status, unmetered[r])
        BY <1>1 DEF PaidInv
      <4>2. driver'[r] = next
        BY <1>3, <1>4
      <4> HIDE DEF d
      <4>3. Owed(r, next) = Owed(r, d)
        BY <1>2, <1>4 DEF Owed
      <4>4. Paid(r, next, row[r].status, unmetered[r])
        BY <1>2, <1>4, <4>1, <4>3 DEF Paid, Afterwards
      <4> QED  BY <1>4, <3>1, <4>2, <4>4
    <3>2. CASE q # r
      BY <1>1, <1>3, <1>4, <3>2 DEF PaidInv, CommitInv
    <3> QED  BY <3>1, <3>2
  <2> QED  BY <1>2, <2>1 DEF PaidInv, CommitInv
<1> HIDE DEF event
<1>7. CASE ~entry[r].kept
  <2>1. UNCHANGED <<entry, log, stream>>
    BY <1>7 DEF Publish
  <2>2. StreamTypeOK'
    BY <1>1, <1>2, <1>5, <2>1 DEF StreamTypeOK
  <2> QED  BY <1>2, <1>5, <1>6, <2>1, <2>2, StreamsStand DEF StreamInv
<1>8. CASE entry[r].kept
  <2> DEFINE e == entry[r]
             more == Published(e, event)
             item == EventItem(event)
  <2>1. /\ entry' = [entry EXCEPT ![r] = more] /\ log' = [log EXCEPT ![r] = Append(log[r], event)]
        /\ Notify(r, item)
    BY <1>8 DEF Publish, event
  <2>2. /\ entry \in [Runs -> Entries] /\ e \in Entries /\ log \in [Runs -> Seq(Events)]
        /\ log[r] \in Seq(Events) /\ e.events \in Seq(Events) /\ scrubbed[r] \in Nat
        /\ stream \in [Viewers -> Streams] /\ Len(log[r]) \in Nat /\ Len(e.events) \in Nat
        /\ \A v \in Viewers : stream[v] \in Streams /\ stream[v].run \in Runs
    BY <1>1, StreamTypes DEF Streams
  <2>3. /\ more \in Entries /\ more.events = Append(e.events, event) /\ more.kept
    BY <1>3, <1>8, <2>2, PublishedTyped DEF event
  <2>4. item \in Items
    BY <1>3, ItemsTyped DEF event
  <2> HIDE DEF more
  <2>5. /\ entry' \in [Runs -> Entries] /\ entry'[r] = more
        /\ \A q \in Runs \ {r} : entry'[q] = entry[q] /\ log'[q] = log[q]
        /\ log' \in [Runs -> Seq(Events)] /\ log'[r] = Append(log[r], event)
    <3>1. Append(log[r], event) \in Seq(Events)
      BY <1>3, <2>2, AppendProperties DEF event
    <3> QED  BY <2>1, <2>2, <2>3, <3>1
  <2>6. /\ stream' \in [Viewers -> Streams]
        /\ \A v \in Viewers :
             IF v \in subscribed[r]
             THEN stream'[v] = [stream[v] EXCEPT !.queue = Append(stream[v].queue, item)]
             ELSE stream'[v] = stream[v]
    <3> HIDE DEF item
    <3> QED  BY <2>1, <2>2, <2>4, NotifyIs
  <2>7. \A v \in Viewers :
            /\ stream'[v].pc = stream[v].pc /\ stream'[v].run = stream[v].run
            /\ stream'[v].stamp = stream[v].stamp /\ stream'[v].got = stream[v].got
            /\ stream'[v].from = stream[v].from /\ stream'[v].cut = stream[v].cut
    <3> HIDE DEF item
    <3> QED  BY <2>2, <2>6 DEF Streams
  <2>8. StreamTypeOK'
    BY <1>1, <1>2, <1>5, <2>5, <2>6 DEF StreamTypeOK
  <2>9. LogInv'
    <3>1. ASSUME NEW q \in Runs
          PROVE  /\ entry'[q].kept =>
                      /\ Len(log'[q]) = scrubbed[q] + Len(entry'[q].events)
                      /\ \A i \in 1..Len(entry'[q].events) :
                              entry'[q].events[i] = log'[q][scrubbed[q] + i]
                 /\ driver'[q].pc = "none" =>
                      ~entry'[q].kept /\ log'[q] = <<>> /\ scrubbed[q] = 0
      <4>1. CASE q = r
        <5> DEFINE old == e.events
                   all == log[r]
        <5>1. /\ Len(all) = scrubbed[r] + Len(old)
              /\ \A i \in 1..Len(old) : old[i] = all[scrubbed[r] + i]
          BY <1>1, <1>8 DEF LogInv
        <5>2. /\ Len(Append(old, event)) = Len(old) + 1 /\ Append(old, event)[Len(old) + 1] = event
              /\ \A i \in 1..Len(old) : Append(old, event)[i] = old[i]
          BY <1>3, <2>2, AppendProperties DEF event
        <5>3. /\ Len(Append(all, event)) = Len(all) + 1 /\ Append(all, event)[Len(all) + 1] = event
              /\ \A i \in 1..Len(all) : Append(all, event)[i] = all[i]
          BY <1>3, <2>2, AppendProperties DEF event
        <5> DEFINE olds == Append(old, event)
                   alls == Append(all, event)
                   n == Len(old)
                   k == scrubbed[r]
        <5>4. n \in Nat /\ k \in Nat
          BY <2>2
        <5>5. entry'[r].events = olds /\ log'[r] = alls
          BY <2>3, <2>5
        <5>6. driver'[r].pc = "record"
          BY <1>3, <1>4
        <5>7. Len(all) = k + n /\ Len(olds) = n + 1 /\ Len(alls) = k + n + 1
          BY <5>1, <5>2, <5>3
        <5> HIDE DEF old, all
        <5>8. ASSUME NEW i \in 1..n + 1
              PROVE  olds[i] = alls[k + i]
          <6>1. CASE i \in 1..n
            <7>1. k + i \in 1..Len(all)
              BY <5>4, <5>7, <6>1
            <7> QED  BY <5>1, <5>2, <5>3, <6>1, <7>1
          <6>2. CASE i = n + 1
            <7>1. k + i = Len(all) + 1
              BY <5>4, <5>7, <6>2
            <7> QED  BY <5>2, <5>3, <6>2, <7>1
          <6>3. i \in 1..n \/ i = n + 1
            <7> HIDE DEF n
            <7> QED  BY <5>4
          <6> QED  BY <6>1, <6>2, <6>3
        <5> HIDE DEF olds, alls, n, k
        <5>9. Len(alls) = k + Len(olds) /\ \A i \in 1..Len(olds) : olds[i] = alls[k + i]
          BY <5>4, <5>7, <5>8
        <5> QED  BY <4>1, <5>5, <5>6, <5>9 DEF k
      <4>2. CASE q # r
        BY <1>1, <1>5, <2>5, <4>2 DEF LogInv
      <4> QED  BY <4>1, <4>2
    <3> QED  BY <1>2, <3>1 DEF LogInv
  <2>10. SubscribedInv'
    BY <1>1, <1>2, <2>7 DEF SubscribedInv, Streaming
  <2>11. ViewerSeesTheLog'
    <3>1. ASSUME NEW v \in Viewers, Streaming(v)
          PROVE  entry'[stream[v].run].kept /\ Follows(stream'[v], log'[stream[v].run])
      <4>1. entry[stream[v].run].kept /\ Follows(stream[v], log[stream[v].run])
        BY <1>1, <3>1 DEF ViewerSeesTheLog
      <4>2. CASE stream[v].run = r
        <5>1. v \in subscribed[r]
          BY <1>1, <3>1, <4>2 DEF SubscribedInv
        <5>2. stream'[v] = [stream[v] EXCEPT !.queue = Append(stream[v].queue, EventItem(event))]
          BY <2>6, <5>1
        <5>3. Follows(stream'[v], Append(log[r], event))
          BY <1>3, <2>2, <4>1, <4>2, <5>2, FollowsAnEvent DEF event
        <5> QED  BY <2>3, <2>5, <4>2, <5>3
      <4>3. CASE stream[v].run # r
        <5>1. v \notin subscribed[r]
          BY <1>1, <4>3 DEF SubscribedInv
        <5> QED  BY <2>2, <2>5, <2>6, <4>1, <4>3, <5>1
      <4> QED  BY <4>2, <4>3
    <3> QED  BY <2>7, <3>1 DEF ViewerSeesTheLog, Streaming
  <2>12. CutInv'
    BY <1>1, <1>2, <2>7 DEF CutInv, Allowed
  <2> QED  BY <1>6, <2>8, <2>9, <2>10, <2>11, <2>12 DEF StreamInv
<1> QED  BY <1>7, <1>8

LEMMA RecordTraceStep ==
    ASSUME StreamInv, NEW r \in Runs, RecordTrace(r)
    PROVE  StreamInv'
<1> DEFINE d == driver[r]
           halts == entry[r].cancel /\ MayStop(d.event, r)
           next == IF halts THEN [d EXCEPT !.event = Event("cancelled", 0), !.pc = "commit"]
                   ELSE IF d.event.type \in {"failed", "cancelled"} THEN Over
                   ELSE [d EXCEPT !.pc = "pull"]
           left == unmetered[r] \ Carries(d.event)
<1>1. /\ StreamTypeOK /\ PaidInv /\ CommitInv /\ driver \in [Runs -> Drivers] /\ d \in Drivers
      /\ d.event \in Events /\ unmetered \in [Runs -> SUBSET Events]
  BY StreamTypes DEF StreamInv, Drivers
<1>2. /\ d.pc = "record" /\ driver' = [driver EXCEPT ![r] = next]
      /\ unmetered' = [unmetered EXCEPT ![r] = left]
      /\ UNCHANGED <<entry, order, subscribed, row, stream, account, log, scrubbed>>
      /\ UNCHANGED upsets \/ Upset
      /\ UNCHANGED trace \/ trace' = [trace EXCEPT ![r] = row[r].status # "none"]
  BY DEF RecordTrace, registryVars
<1>3. Paid(r, d, row[r].status, unmetered[r])
  BY <1>1 DEF PaidInv
<1>4. /\ next \in Drivers /\ next.pc # "none" /\ Paid(r, next, row[r].status, left)
      /\ next.pc = "commit" => Terminal(next.event)
  <2>a. /\ next \in Drivers /\ (next.pc = "commit" => next.event.type = "cancelled")
        /\ \/ MayStop(d.event, r) /\ next.pc = "commit" /\ next.event.type = "cancelled"
           \/ d.event.type \in {"failed", "cancelled"} /\ next.pc = "over"
           \/ /\ d.event.type \notin {"failed", "cancelled"}
              /\ next.pc = "pull" /\ next.event = d.event
    <3>1. CASE halts
      <4>1. Event("cancelled", 0) \in Events /\ Event("cancelled", 0).type = "cancelled"
        BY EventTyped DEF EventTypes
      <4>2. next = [d EXCEPT !.event = Event("cancelled", 0), !.pc = "commit"]
        BY <3>1
      <4>3. next \in Drivers /\ next.pc = "commit" /\ next.event = Event("cancelled", 0)
        BY <1>1, <4>1, <4>2 DEF Drivers
      <4> QED  BY <3>1, <4>1, <4>3
    <3>2. CASE ~halts /\ d.event.type \in {"failed", "cancelled"}
      <4>1. next = Over
        BY <3>2
      <4>2. Over \in Drivers /\ Over.pc = "over"
        BY StreamAssumption, EventTyped DEF Drivers, EventTypes, Over, Idle
      <4> HIDE DEF next
      <4> QED  BY <3>2, <4>1, <4>2
    <3>3. CASE ~halts /\ d.event.type \notin {"failed", "cancelled"}
      <4>1. next = [d EXCEPT !.pc = "pull"]
        BY <3>3
      <4>2. next \in Drivers /\ next.pc = "pull" /\ next.event = d.event
        BY <1>1, <4>1 DEF Drivers
      <4> HIDE DEF next
      <4> QED  BY <3>3, <4>2
    <3> QED  BY <3>1, <3>2, <3>3
  <2> HIDE DEF next, d
  <2>1. Paid(r, next, row[r].status, left)
    BY <1>1, <1>2, <1>3, <2>a, RecordPaid
  <2>2. next.pc # "none"
    BY <2>a
  <2> QED  BY <2>1, <2>2, <2>a DEF Terminal, Outcomes
<1> HIDE DEF next
<1>5. left \in SUBSET Events
  BY <1>1
<1> HIDE DEF left
<1>6. StreamTypeOK'
  <2>1. upsets' \in 0..MaxUpsets
    BY <1>1, <1>2, StreamTypes, StreamAssumption DEF Upset
  <2>2. driver' \in [Runs -> Drivers] /\ unmetered' \in [Runs -> SUBSET Events]
    BY <1>1, <1>2, <1>4, <1>5
  <2>3. trace' \in [Runs -> BOOLEAN]
    <3>1. trace \in [Runs -> BOOLEAN] /\ (row[r].status # "none") \in BOOLEAN
      BY <1>1 DEF StreamTypeOK
    <3> QED  BY <1>2, <3>1
  <2> QED  BY <1>1, <1>2, <2>1, <2>2, <2>3 DEF StreamTypeOK
<1>7. \A q \in Runs : driver'[q].pc = "none" => driver[q].pc = "none"
  BY <1>1, <1>2, <1>4
<1>8. PaidInv' /\ CommitInv'
  <2>1. ASSUME NEW q \in Runs
        PROVE  /\ Paid(q, driver'[q], row[q].status, unmetered'[q])
               /\ driver'[q].pc = "commit" => Terminal(driver'[q].event)
    <3>1. CASE q = r
      BY <1>1, <1>2, <1>4, <3>1
    <3>2. CASE q # r
      BY <1>1, <1>2, <3>2 DEF PaidInv, CommitInv
    <3> QED  BY <3>1, <3>2
  <2> QED  BY <1>2, <2>1 DEF PaidInv, CommitInv
<1> QED  BY <1>2, <1>6, <1>7, <1>8, StreamsStand DEF StreamInv

\* A preview reaches every subscriber's queue and no log.
LEMMA PreviewStep ==
    ASSUME StreamInv, NEW r \in Runs, NEW e \in Entries, NEW item \in Items,
           item.kind # "event", NEW sent \in 0..MaxDeltas,
           e.kept = entry[r].kept, e.events = entry[r].events,
           entry' = [entry EXCEPT ![r] = e], Notify(r, item),
           driver' = [driver EXCEPT ![r].sent = sent],
           UNCHANGED <<order, subscribed, row, trace, account, log, scrubbed, unmetered, upsets>>
    PROVE  StreamInv'
<1>1. /\ StreamTypeOK /\ LogInv /\ SubscribedInv /\ ViewerSeesTheLog /\ CutInv
      /\ PaidInv /\ CommitInv
  BY DEF StreamInv
<1>2. /\ entry \in [Runs -> Entries] /\ driver \in [Runs -> Drivers]
      /\ stream \in [Viewers -> Streams]
      /\ \A v \in Viewers : stream[v] \in Streams /\ stream[v].run \in Runs
  BY <1>1, StreamTypes DEF Streams
<1>3. /\ entry' \in [Runs -> Entries]
      /\ \A q \in Runs : entry'[q].kept = entry[q].kept /\ entry'[q].events = entry[q].events
  BY <1>2
<1>4. /\ driver' \in [Runs -> Drivers]
      /\ \A q \in Runs : driver'[q].pc = driver[q].pc /\ driver'[q].event = driver[q].event
  BY <1>2 DEF Drivers
<1>5. /\ stream' \in [Viewers -> Streams]
      /\ \A v \in Viewers :
           IF v \in subscribed[r]
           THEN stream'[v] = [stream[v] EXCEPT !.queue = Append(stream[v].queue, item)]
           ELSE stream'[v] = stream[v]
  BY <1>2, NotifyIs
<1>6. \A v \in Viewers :
          /\ stream'[v].pc = stream[v].pc /\ stream'[v].run = stream[v].run
          /\ stream'[v].stamp = stream[v].stamp /\ stream'[v].got = stream[v].got
          /\ stream'[v].from = stream[v].from /\ stream'[v].cut = stream[v].cut
  BY <1>2, <1>5 DEF Streams
<1>7. StreamTypeOK'
  BY <1>1, <1>3, <1>4, <1>5 DEF StreamTypeOK
<1>8. LogInv'
  BY <1>1, <1>3, <1>4 DEF LogInv
<1>9. SubscribedInv'
  BY <1>1, <1>6 DEF SubscribedInv, Streaming
<1>10. ViewerSeesTheLog'
  <2>1. ASSUME NEW v \in Viewers, Streaming(v)
        PROVE  entry'[stream[v].run].kept /\ Follows(stream'[v], log[stream[v].run])
    <3>1. entry[stream[v].run].kept /\ Follows(stream[v], log[stream[v].run])
      BY <1>1, <2>1 DEF ViewerSeesTheLog
    <3>2. CASE v \in subscribed[r]
      <4>1. stream'[v] = [stream[v] EXCEPT !.queue = Append(stream[v].queue, item)]
        BY <1>5, <3>2
      <4> QED  BY <1>2, <1>3, <3>1, <4>1, FollowsAPreview
    <3>3. CASE v \notin subscribed[r]
      BY <1>2, <1>3, <1>5, <3>1, <3>3
    <3> QED  BY <3>2, <3>3
  <2> QED  BY <1>6, <2>1 DEF ViewerSeesTheLog, Streaming
<1>11. CutInv'
  BY <1>1, <1>6 DEF CutInv, Allowed
<1>12. PaidInv' /\ CommitInv'
  <2>1. \A q \in Runs : Paid(q, driver'[q], row[q].status, unmetered[q])
    BY <1>1, <1>4, PaidStays DEF PaidInv
  <2> QED  BY <1>1, <1>4, <2>1 DEF PaidInv, CommitInv
<1> QED  BY <1>7, <1>8, <1>9, <1>10, <1>11, <1>12 DEF StreamInv

LEMMA PublishTransientStep ==
    ASSUME StreamInv, NEW r \in Runs, PublishTransient(r)
    PROVE  StreamInv'
<1> DEFINE e == entry[r]
<1>1. /\ entry \in [Runs -> Entries] /\ e \in Entries /\ driver \in [Runs -> Drivers]
      /\ driver[r] \in Drivers /\ driver[r].sent \in 0..MaxDeltas
      /\ e.text \in Seq(Nat) /\ e.working \subseteq 1..Nodes
  BY StreamTypes DEF StreamInv, Entries, Drivers
<1>2. UNCHANGED <<order, subscribed, row, trace, account, log, scrubbed, unmetered, upsets>>
  BY DEF PublishTransient, historyVars
<1>3. PICK n \in NodesAtWork(r) :
        \/ /\ entry' = [entry EXCEPT ![r].working = @ \cup {n}]
           /\ Notify(r, WorkingItem(n))
           /\ UNCHANGED driver
        \/ /\ driver[r].sent < MaxDeltas
           /\ LET piece == <<driver[r].sent + 1>> IN
                /\ entry' = [entry EXCEPT ![r].text = @ \o piece]
                /\ Notify(r, DeltaItem(piece))
                /\ driver' = [driver EXCEPT ![r].sent = @ + 1]
        \/ /\ entry' = [entry EXCEPT ![r].text = <<>>]
           /\ Notify(r, ResetItem)
           /\ UNCHANGED driver
  BY DEF PublishTransient
<1>4. n \in 1..Nodes
  <2>1. driver[r].event \in Events
    BY <1>1 DEF Drivers
  <2> QED  BY <2>1, NodesAtWorkTyped
<1>5. UNCHANGED driver => driver' = [driver EXCEPT ![r].sent = driver[r].sent]
  <2>1. [driver[r] EXCEPT !.sent = driver[r].sent] = driver[r]
    BY <1>1 DEF Drivers
  <2> QED  BY <1>1, <2>1
<1>6. CASE /\ entry' = [entry EXCEPT ![r].working = @ \cup {n}]
           /\ Notify(r, WorkingItem(n)) /\ UNCHANGED driver
  <2> DEFINE more == e.working \cup {n}
             next == [e EXCEPT !.working = more]
  <2>1. more \in SUBSET (1..Nodes)
    BY <1>1, <1>4
  <2>2. entry' = [entry EXCEPT ![r] = next]
    BY <1>6
  <2> HIDE DEF more
  <2>3. next \in Entries /\ next.kept = e.kept /\ next.events = e.events
    BY <1>1, <2>1 DEF Entries
  <2>4. WorkingItem(n) \in Items /\ WorkingItem(n).kind # "event"
    BY <1>4, ItemsTyped
  <2> HIDE DEF next
  <2> QED  BY <1>1, <1>2, <1>5, <1>6, <2>2, <2>3, <2>4, PreviewStep
<1>7. CASE /\ driver[r].sent < MaxDeltas
           /\ LET piece == <<driver[r].sent + 1>> IN
                /\ entry' = [entry EXCEPT ![r].text = @ \o piece]
                /\ Notify(r, DeltaItem(piece))
                /\ driver' = [driver EXCEPT ![r].sent = @ + 1]
  <2> DEFINE sent == driver[r].sent + 1
             piece == <<sent>>
             more == e.text \o piece
             next == [e EXCEPT !.text = more]
  <2>1. sent \in 0..MaxDeltas /\ sent \in Nat
    BY <1>1, <1>7, StreamAssumption
  <2>2. /\ entry' = [entry EXCEPT ![r] = next] /\ Notify(r, DeltaItem(piece))
        /\ driver' = [driver EXCEPT ![r].sent = sent]
    BY <1>7
  <2> HIDE DEF sent
  <2>3. piece \in Seq(Nat)
    BY <2>1
  <2> HIDE DEF piece
  <2>4. more \in Seq(Nat)
    BY <1>1, <2>3, ConcatProperties
  <2> HIDE DEF more
  <2>5. next \in Entries /\ next.kept = e.kept /\ next.events = e.events
    BY <1>1, <2>4 DEF Entries
  <2>6. DeltaItem(piece) \in Items /\ DeltaItem(piece).kind # "event"
    BY <2>3, ItemsTyped
  <2> HIDE DEF next
  <2> QED  BY <1>2, <2>1, <2>2, <2>5, <2>6, PreviewStep
<1>8. CASE /\ entry' = [entry EXCEPT ![r].text = <<>>]
           /\ Notify(r, ResetItem) /\ UNCHANGED driver
  <2> DEFINE next == [e EXCEPT !.text = <<>>]
  <2>1. <<>> \in Seq(Nat)
    OBVIOUS
  <2>2. entry' = [entry EXCEPT ![r] = next]
    BY <1>8
  <2>3. next \in Entries /\ next.kept = e.kept /\ next.events = e.events
    BY <1>1, <2>1 DEF Entries
  <2>4. ResetItem \in Items /\ ResetItem.kind # "event"
    BY ItemsTyped
  <2> HIDE DEF next
  <2> QED  BY <1>1, <1>2, <1>5, <1>8, <2>2, <2>3, <2>4, PreviewStep
<1> QED  BY <1>3, <1>6, <1>7, <1>8

----------------------------------------------------------------------------
\* Every step keeps the invariant: the streams.

\* One stream takes another record while the registry and the log stay.
LEMMA OneStreamStep ==
    ASSUME StreamInv, NEW v \in Viewers, NEW s \in Streams,
           stream' = [stream EXCEPT ![v] = s],
           UNCHANGED <<entry, order, row, trace, driver, account, log, scrubbed, unmetered, upsets>>,
           subscribed' \in [Runs -> SUBSET Viewers],
           \A u \in Viewers \ {v}, r \in Runs : u \in subscribed'[r] <=> u \in subscribed[r],
           \A r \in Runs : v \in subscribed'[r] <=> s.pc = "streaming" /\ s.run = r,
           s.pc = "streaming" => entry[s.run].kept /\ Follows(s, log[s.run]),
           s.pc \in {"none", "ticket", "accepted"} => s.got = <<>>,
           /\ s.pc = "closed" \/ ~(account.active /\ IF v \in Members THEN s.stamp = account.stamp
                                                    ELSE account.link)
           /\ s.got # <<>>
           => s.from + Len(s.got) <= s.cut
    PROVE  StreamInv'
<1>1. /\ StreamTypeOK /\ LogInv /\ SubscribedInv /\ ViewerSeesTheLog /\ CutInv
      /\ PaidInv /\ CommitInv
  BY DEF StreamInv
<1>2. stream \in [Viewers -> Streams]
  BY <1>1, StreamTypes
<1>3. /\ stream' \in [Viewers -> Streams] /\ stream'[v] = s
      /\ \A u \in Viewers \ {v} : stream'[u] = stream[u]
  BY <1>2
<1>4. StreamTypeOK'
  BY <1>1, <1>3 DEF StreamTypeOK
<1>5. LogInv'
  BY <1>1 DEF LogInv
<1>6. SubscribedInv'
  BY <1>1, <1>3 DEF SubscribedInv, Streaming
<1>7. ViewerSeesTheLog'
  BY <1>1, <1>3 DEF ViewerSeesTheLog, Streaming
<1>8. CutInv'
  BY <1>1, <1>3 DEF CutInv, Allowed
<1>9. PaidInv' /\ CommitInv'
  BY <1>1 DEF PaidInv, CommitInv
<1> QED  BY <1>4, <1>5, <1>6, <1>7, <1>8, <1>9 DEF StreamInv

LEMMA IssueTicketStep ==
    ASSUME StreamInv, NEW v \in Viewers, IssueTicket(v)
    PROVE  StreamInv'
<1> DEFINE s == [stream[v] EXCEPT !.pc = "ticket", !.stamp = account.stamp]
<1>1. /\ stream \in [Viewers -> Streams] /\ stream[v] \in Streams /\ account.stamp \in Nat
      /\ subscribed \in [Runs -> SUBSET Viewers] /\ SubscribedInv /\ CutInv
  BY StreamTypes DEF StreamInv
<1>2. /\ stream[v].pc = "none"
      /\ stream' = [stream EXCEPT ![v].pc = "ticket", ![v].stamp = account.stamp]
      /\ UNCHANGED <<entry, order, row, trace, driver, account, log, scrubbed, unmetered, upsets>>
      /\ UNCHANGED subscribed
  BY DEF IssueTicket, registryVars, Unchanging, historyVars
<1>3. s \in Streams /\ s.pc = "ticket" /\ s.got = stream[v].got
  BY <1>1 DEF Streams
<1>4. stream' = [stream EXCEPT ![v] = s]
  BY <1>2
<1>5. s.got = <<>>
  BY <1>1, <1>2, <1>3 DEF CutInv
<1>6. \A r \in Runs : v \notin subscribed[r]
  BY <1>1, <1>2 DEF SubscribedInv, Streaming
<1> HIDE DEF s
<1> QED  BY <1>1, <1>2, <1>3, <1>4, <1>5, <1>6, OneStreamStep

LEMMA ConnectStep ==
    ASSUME StreamInv, NEW v \in Viewers, NEW q \in Runs, Connect(v, q)
    PROVE  StreamInv'
<1>1. /\ stream \in [Viewers -> Streams] /\ stream[v] \in Streams
      /\ subscribed \in [Runs -> SUBSET Viewers] /\ SubscribedInv /\ CutInv
  BY StreamTypes DEF StreamInv
<1>2. /\ stream[v].pc \in {"none", "ticket"}
      /\ UNCHANGED <<entry, order, row, trace, driver, account, log, scrubbed, unmetered, upsets>>
      /\ UNCHANGED subscribed
  BY DEF Connect, registryVars, Unchanging, historyVars
<1>3. PICK s \in Streams : /\ stream' = [stream EXCEPT ![v] = s] /\ s.got = <<>>
                           /\ s.pc # "streaming"
  <2>1. CASE stream' = [stream EXCEPT ![v].pc = "accepted", ![v].run = q]
    <3> DEFINE s == [stream[v] EXCEPT !.pc = "accepted", !.run = q]
    <3>1. s \in Streams /\ s.pc = "accepted" /\ s.got = stream[v].got
      BY <1>1 DEF Streams
    <3>2. stream' = [stream EXCEPT ![v] = s]
      BY <2>1
    <3>3. s.got = <<>>
      BY <1>1, <1>2, <3>1 DEF CutInv
    <3> HIDE DEF s
    <3> QED  BY <3>1, <3>2, <3>3
  <2>2. CASE stream' = [stream EXCEPT ![v] = [Closed EXCEPT !.pc = "closed"]]
    <3>1. [Closed EXCEPT !.pc = "closed"].pc # "streaming"
      BY StreamsTyped
    <3> QED  BY <2>2, <3>1, StreamsTyped
  <2> QED  BY <2>1, <2>2 DEF Connect
<1>4. \A r \in Runs : v \notin subscribed[r]
  BY <1>1, <1>2 DEF SubscribedInv, Streaming
<1> QED  BY <1>1, <1>2, <1>3, <1>4, OneStreamStep

LEMMA SubscribeStep ==
    ASSUME StreamInv, NEW v \in Viewers, Subscribe(v)
    PROVE  StreamInv'
<1> DEFINE q == stream[v].run
           e == entry[q]
<1>1. /\ stream \in [Viewers -> Streams] /\ stream[v] \in Streams /\ q \in Runs /\ e \in Entries
      /\ subscribed \in [Runs -> SUBSET Viewers] /\ SubscribedInv /\ CutInv /\ LogInv
      /\ scrubbed[q] \in Nat
  BY StreamTypes DEF StreamInv, Streams
<1>2. /\ stream[v].pc = "accepted"
      /\ UNCHANGED <<entry, order, row, trace, driver, account, log, scrubbed, unmetered, upsets>>
  BY DEF Subscribe, Unchanging, historyVars
<1>3. stream[v].got = <<>> /\ \A r \in Runs : v \notin subscribed[r]
  BY <1>1, <1>2 DEF CutInv, SubscribedInv, Streaming
<1>4. CASE e.kept
  <2> DEFINE s == [stream[v] EXCEPT !.pc = "streaming", !.queue = Replay(e), !.from = scrubbed[q]]
  <2>1. /\ subscribed' = [subscribed EXCEPT ![q] = @ \cup {v}]
        /\ stream' = [stream EXCEPT ![v].pc = "streaming", ![v].queue = Replay(e),
                                    ![v].from = scrubbed[q]]
    BY <1>4 DEF Subscribe
  <2>2. stream' = [stream EXCEPT ![v] = s]
    BY <2>1
  <2>3. Replay(e) \in Seq(Items)
    BY <1>1, ReplayIs
  <2>4. /\ s \in Streams /\ s.pc = "streaming" /\ s.queue = Replay(e) /\ s.from = scrubbed[q]
        /\ s.got = <<>> /\ s.run = q
    BY <1>1, <1>3, <2>3 DEF Streams
  <2> HIDE DEF s
  <2>5. Follows(s, log[q])
    <3>1. /\ Len(log[q]) = scrubbed[q] + Len(e.events)
          /\ \A i \in 1..Len(e.events) : e.events[i] = log[q][scrubbed[q] + i]
      BY <1>1, <1>4 DEF LogInv
    <3> QED  BY <1>1, <2>4, <3>1, FollowsAReplay
  <2>6. /\ subscribed' \in [Runs -> SUBSET Viewers]
        /\ \A u \in Viewers \ {v}, r \in Runs : u \in subscribed'[r] <=> u \in subscribed[r]
        /\ \A r \in Runs : v \in subscribed'[r] <=> s.pc = "streaming" /\ s.run = r
    BY <1>1, <1>3, <2>1, <2>4
  <2> QED  BY <1>2, <1>4, <2>2, <2>4, <2>5, <2>6, OneStreamStep
<1>5. CASE ~e.kept
  <2> DEFINE s == [Closed EXCEPT !.pc = "closed"]
  <2>1. UNCHANGED subscribed /\ stream' = [stream EXCEPT ![v] = s]
    BY <1>5 DEF Subscribe
  <2>2. s \in Streams /\ s.pc = "closed" /\ s.got = <<>>
    BY StreamsTyped
  <2> HIDE DEF s
  <2> QED  BY <1>1, <1>2, <1>3, <2>1, <2>2, OneStreamStep
<1> QED  BY <1>4, <1>5

LEMMA DeliverStep ==
    ASSUME StreamInv, NEW v \in Viewers, Deliver(v)
    PROVE  StreamInv'
<1> DEFINE s == stream[v]
           q == s.run
           item == Head(s.queue)
           rest == [s EXCEPT !.queue = Tail(s.queue)]
           shown == Shown(rest, item)
           last == item.kind = "event" /\ Terminal(item.event)
           over == IF Allowed(v, account) THEN [Closed EXCEPT !.pc = "closed"]
                   ELSE [s EXCEPT !.pc = "closed", !.queue = <<>>, !.screen = <<>>, !.strip = {}]
           final == [over EXCEPT !.got = IF Allowed(v, account) THEN @ ELSE shown.got]
<1>1. /\ stream \in [Viewers -> Streams] /\ s \in Streams /\ q \in Runs
      /\ subscribed \in [Runs -> SUBSET Viewers] /\ SubscribedInv /\ CutInv /\ ViewerSeesTheLog
      /\ log[q] \in Seq(Events)
  BY StreamTypes DEF StreamInv, Streams
<1>2. /\ s.pc = "streaming" /\ s.queue # <<>>
      /\ UNCHANGED <<entry, order, row, trace, driver, account, log, scrubbed, unmetered, upsets>>
  BY DEF Deliver, Unchanging, historyVars
<1>3. entry[q].kept /\ Follows(s, log[q])
  BY <1>1, <1>2 DEF ViewerSeesTheLog, Streaming
<1>4. /\ shown \in Streams /\ shown.pc = "streaming" /\ shown.run = q /\ shown.stamp = s.stamp
      /\ Follows(shown, log[q])
  BY <1>1, <1>2, <1>3, FollowsADelivery
<1>5. \/ /\ MaySend(v) /\ stream' = [stream EXCEPT ![v] = shown] /\ UNCHANGED subscribed
      \/ /\ MaySend(v) /\ stream' = [stream EXCEPT ![v] = final]
         /\ subscribed' = [subscribed EXCEPT ![q] = @ \ {v}]
      \/ /\ stream' = [stream EXCEPT ![v] = over]
         /\ subscribed' = [subscribed EXCEPT ![q] = @ \ {v}]
  BY DEF Deliver
<1> HIDE DEF shown
<1>6. \A r \in Runs : v \in subscribed[r] <=> r = q
  BY <1>1, <1>2 DEF SubscribedInv, Streaming
<1>7. CASE MaySend(v) /\ stream' = [stream EXCEPT ![v] = shown] /\ UNCHANGED subscribed
  <2>1. account.active /\ IF v \in Members THEN shown.stamp = account.stamp ELSE account.link
    BY <1>4, <1>7 DEF MaySend, Allowed
  <2> QED  BY <1>1, <1>2, <1>3, <1>4, <1>6, <1>7, <2>1, OneStreamStep
\* A stream that ends keeps what it was sent when it had lost its access before.
<1>8. ASSUME NEW t \in Streams, t.pc = "closed",
             t.got # <<>> => t.from + Len(t.got) <= t.cut,
             stream' = [stream EXCEPT ![v] = t], subscribed' = [subscribed EXCEPT ![q] = @ \ {v}]
      PROVE  StreamInv'
  <2>1. /\ subscribed' \in [Runs -> SUBSET Viewers]
        /\ \A u \in Viewers \ {v}, r \in Runs : u \in subscribed'[r] <=> u \in subscribed[r]
        /\ \A r \in Runs : v \notin subscribed'[r]
    BY <1>1, <1>6, <1>8
  <2> QED  BY <1>2, <1>8, <2>1, OneStreamStep
<1>9. /\ over \in Streams /\ over.pc = "closed"
      /\ over.got # <<>> => over.from + Len(over.got) <= over.cut
      /\ Allowed(v, account) => over.got = <<>>
  <2>1. CASE Allowed(v, account)
    <3>1. over = [Closed EXCEPT !.pc = "closed"]
      BY <2>1
    <3> HIDE DEF over
    <3> QED  BY <2>1, <3>1, StreamsTyped
  <2>2. CASE ~Allowed(v, account)
    <3>1. over = [s EXCEPT !.pc = "closed", !.queue = <<>>, !.screen = <<>>, !.strip = {}]
      BY <2>2
    <3>2. <<>> \in Seq(Items) /\ <<>> \in Seq(Nat)
      OBVIOUS
    <3>3. s.got # <<>> => s.from + Len(s.got) <= s.cut
      BY <1>1, <2>2 DEF CutInv
    <3> HIDE DEF over
    <3>4. /\ over \in Streams /\ over.pc = "closed" /\ over.got = s.got /\ over.from = s.from
          /\ over.cut = s.cut
      BY <1>1, <3>1, <3>2 DEF Streams
    <3> QED  BY <2>2, <3>3, <3>4
  <2> QED  BY <2>1, <2>2
<1>10. CASE /\ MaySend(v) /\ stream' = [stream EXCEPT ![v] = final]
            /\ subscribed' = [subscribed EXCEPT ![q] = @ \ {v}]
  <2>1. final = [over EXCEPT !.got = over.got]
    BY <1>10 DEF MaySend
  <2> HIDE DEF over, final
  <2>2. final = over
    BY <1>9, <2>1 DEF Streams
  <2> QED  BY <1>8, <1>9, <1>10, <2>2
<1>11. CASE /\ stream' = [stream EXCEPT ![v] = over]
            /\ subscribed' = [subscribed EXCEPT ![q] = @ \ {v}]
  <2> HIDE DEF over
  <2> QED  BY <1>8, <1>9, <1>11
<1> QED  BY <1>5, <1>7, <1>10, <1>11

LEMMA StreamInitInv == StreamInit => StreamInv
<1> SUFFICES ASSUME StreamInit PROVE StreamInv
  OBVIOUS
<1>1. <<>> \in Seq(Events) /\ Len(<<>>) = 0
  BY EmptySeq
<1>2. /\ \A r \in Runs : /\ entry[r] = NoEntry /\ driver[r] = Idle /\ subscribed[r] = {}
                         /\ log[r] = <<>> /\ scrubbed[r] = 0 /\ unmetered[r] = {}
      /\ \A v \in Viewers : stream[v] = Closed
  BY DEF StreamInit
<1>3. StreamTypeOK
  <2>1. Idle \in Drivers
    BY StreamAssumption, EventTyped DEF Idle, Drivers, EventTypes
  <2>2. entry \in [Runs -> Entries] /\ stream \in [Viewers -> Streams]
    BY EntriesTyped, StreamsTyped DEF StreamInit
  <2> QED  BY <1>1, <2>1, <2>2, StreamAssumption DEF StreamTypeOK, StreamInit, Outcomes
<1>4. LogInv
  BY <1>2, EntriesTyped DEF LogInv
<1>5. \A v \in Viewers : ~Streaming(v) /\ stream[v].got = <<>> /\ stream[v].pc = "none"
  BY <1>2, StreamsTyped DEF Streaming
<1>6. SubscribedInv /\ ViewerSeesTheLog /\ CutInv
  BY <1>2, <1>5 DEF SubscribedInv, ViewerSeesTheLog, CutInv
<1>7. PaidInv /\ CommitInv
  <2>1. ASSUME NEW r \in Runs
        PROVE  Paid(r, driver[r], row[r].status, unmetered[r]) /\ driver[r].pc # "commit"
    <3>1. /\ driver[r].pc = "none" /\ driver[r].event.type = "queued" /\ unmetered[r] = {}
          /\ row[r].status = "none"
      BY DEF StreamInit, Idle, Event
    <3> QED  BY <3>1 DEF Paid
  <2> QED  BY <2>1 DEF PaidInv, CommitInv
<1> QED  BY <1>3, <1>4, <1>6, <1>7 DEF StreamInv

LEMMA RestartStep ==
    ASSUME StreamInv, Restart
    PROVE  StreamInv'
<1>1. StreamTypeOK
  BY DEF StreamInv
<1>2. /\ \A r \in Runs : /\ entry'[r] = NoEntry /\ subscribed'[r] = {}
                         /\ driver'[r] \in {Idle, Over}
                         /\ log'[r] = <<>> /\ scrubbed'[r] = 0 /\ unmetered'[r] = {}
      /\ \A v \in Viewers : stream'[v] = Closed
      /\ UNCHANGED <<trace, account>> /\ Upset
  BY DEF Restart
<1>3. StreamTypeOK'
  <2>1. Idle \in Drivers /\ Over \in Drivers /\ <<>> \in Seq(Events)
    BY StreamAssumption, EventTyped DEF Idle, Over, Drivers, EventTypes
  <2>2. /\ entry' \in [Runs -> Entries] /\ stream' \in [Viewers -> Streams]
        /\ driver' \in [Runs -> Drivers] /\ log' \in [Runs -> Seq(Events)]
        /\ scrubbed' \in [Runs -> Nat] /\ unmetered' \in [Runs -> SUBSET Events]
        /\ subscribed' \in [Runs -> SUBSET Viewers]
    BY <2>1, EntriesTyped, StreamsTyped DEF Restart
  <2>3. upsets' \in 0..MaxUpsets
    BY <1>1, <1>2, StreamTypes, StreamAssumption DEF Upset
  <2>4. row' \in [Runs -> [status : Outcomes \cup {"none", "running"}, purged : BOOLEAN]]
    <3> DEFINE Rows == [status : Outcomes \cup {"none", "running"}, purged : BOOLEAN]
    <3>1. \A x \in Rows : [x EXCEPT !.status = "failed"] \in Rows
      BY DEF Outcomes
    <3>2. row \in [Runs -> Rows]
      BY <1>1, StreamTypes
    <3> HIDE DEF Rows
    <3>3. row' \in [Runs -> Rows]
      BY <3>1, <3>2 DEF Restart
    <3> QED  BY <3>3 DEF Rows
  <2> QED  BY <1>1, <1>2, <2>2, <2>3, <2>4 DEF StreamTypeOK
<1>4. LogInv'
  BY <1>2, EntriesTyped DEF LogInv
<1>5. \A v \in Viewers : stream'[v].got = <<>> /\ stream'[v].pc = "none"
  BY <1>2, StreamsTyped
<1>6. SubscribedInv' /\ ViewerSeesTheLog' /\ CutInv'
  BY <1>2, <1>5 DEF SubscribedInv, ViewerSeesTheLog, CutInv, Streaming
<1>7. PaidInv' /\ CommitInv'
  <2>1. ASSUME NEW r \in Runs
        PROVE  /\ Paid(r, driver'[r], row'[r].status, unmetered'[r])
               /\ driver'[r].pc # "commit"
    <3>1. driver'[r] = IF driver[r].pc = "none" THEN Idle ELSE Over
      BY DEF Restart
    <3>2. /\ unmetered'[r] = {} /\ Idle.pc = "none" /\ Idle.event.type = "queued"
          /\ Over.pc = "over"
      BY <1>2 DEF Idle, Over, Event
    <3>3. CASE driver[r].pc = "none"
      <4>1. Paid(r, driver[r], row[r].status, unmetered[r])
        BY DEF StreamInv, PaidInv
      <4>2. row[r].status \notin {"completed", "cancelled"}
        BY <3>3, <4>1 DEF Paid, Afterwards
      <4>3. row[r] \in [status : Outcomes \cup {"none", "running"}, purged : BOOLEAN]
        BY StreamTypes DEF StreamInv
      <4>4. row'[r].status \notin {"completed", "cancelled"}
        BY <4>2, <4>3 DEF Restart
      <4>5. driver'[r].pc = "none" /\ driver'[r].event.type = "queued"
        BY <3>1, <3>2, <3>3
      <4>6. Paid(r, driver'[r], row'[r].status, unmetered'[r])
        BY <3>2, <4>4, <4>5 DEF Paid
      <4> QED  BY <4>5, <4>6
    <3>4. CASE driver[r].pc # "none"
      <4>1. driver'[r].pc = "over"
        BY <3>1, <3>2, <3>4
      <4> QED  BY <3>2, <4>1 DEF Paid
    <3> QED  BY <3>3, <3>4
  <2> QED  BY <2>1 DEF PaidInv, CommitInv
<1> QED  BY <1>3, <1>4, <1>6, <1>7 DEF StreamInv

----------------------------------------------------------------------------
\* The theorems of a run's streams.

LEMMA StreamStutter == StreamInv /\ UNCHANGED streamVars => StreamInv'
<1> SUFFICES ASSUME StreamInv, UNCHANGED streamVars PROVE StreamInv'
  OBVIOUS
<1>1. UNCHANGED <<entry, order, subscribed, row, trace, driver, stream, account, log, scrubbed,
                  unmetered, upsets>>
  BY DEF streamVars
<1>2. StreamTypeOK'
  BY <1>1 DEF StreamInv, StreamTypeOK
<1>3. PaidInv' /\ CommitInv'
  BY <1>1 DEF StreamInv, PaidInv, CommitInv
<1> QED  BY <1>1, <1>2, <1>3, StreamsStand DEF StreamInv

LEMMA StreamStep == StreamInv /\ [StreamNext]_streamVars => StreamInv'
<1> SUFFICES ASSUME StreamInv, StreamNext PROVE StreamInv'
  BY StreamStutter
<1>1. CASE \E r \in Runs : CreateRun(r)
  BY <1>1, CreateRunStep
<1>2. CASE \E r \in Runs : CancelRun(r)
  BY <1>2, CancelRunStep
<1>3. CASE \E r \in Runs : PurgeRun(r)
  BY <1>3, PurgeRunStep
<1>4. CASE \E r \in Runs : Worker(r)
  BY <1>4, PersistRowStep, PullStep, CommitStep, PublishStep, RecordTraceStep DEF Worker
<1>5. CASE \E r \in Runs : PublishTransient(r)
  BY <1>5, PublishTransientStep
<1>6. CASE \E v \in Viewers : IssueTicket(v)
  BY <1>6, IssueTicketStep
<1>7. CASE \E v \in Viewers, r \in Runs : Connect(v, r)
  BY <1>7, ConnectStep
<1>8. CASE \E v \in Viewers : Subscribe(v)
  BY <1>8, SubscribeStep
<1>9. CASE \E v \in Viewers : Deliver(v)
  BY <1>9, DeliverStep
<1>10. CASE ResetPassword \/ ToggleOrg \/ RevokeLink
  BY <1>10, AccountStep
<1>11. CASE Restart
  BY <1>11, RestartStep
<1> QED  BY <1>1, <1>2, <1>3, <1>4, <1>5, <1>6, <1>7, <1>8, <1>9, <1>10, <1>11 DEF StreamNext

\* The inductive invariant holds in every reachable state.
THEOREM StreamInvariance == StreamSpec => []StreamInv
<1> QED  BY StreamInitInv, StreamStep, PTL DEF StreamSpec

\* Every variable of the registry, the workers and the streams keeps its type
\* (runtime.py, registry.py, main.py's WebSocket handlers).
THEOREM StreamTypeCorrect == StreamSpec => []StreamTypeOK
<1>1. StreamInv => StreamTypeOK
  BY DEF StreamInv
<1> QED  BY <1>1, StreamInvariance, PTL

\* A subscriber loses no recorded event, gets none twice or out of order, and the
\* run it watches is not evicted, whatever is published, purged, cancelled or
\* restarted meanwhile (registry.py: append, replay and registration under one lock).
THEOREM ViewerSeesTheLogHolds == StreamSpec => []ViewerSeesTheLog
<1>1. StreamInv => ViewerSeesTheLog
  BY DEF StreamInv
<1> QED  BY <1>1, StreamInvariance, PTL

\* A stream whose account or link lost its access received nothing published after
\* that (main.py _stream_access, share_chat.py _link_and_org_active).
THEOREM NothingAfterRevocationHolds == StreamSpec => []NothingAfterRevocation
<1>1. StreamInv => NothingAfterRevocation
  BY DEF StreamInv, CutInv, NothingAfterRevocation
<1> QED  BY <1>1, StreamInvariance, PTL

\* Whatever the pipelines' shapes: a run that completed has every model call it paid for
\* metered, one that was stopped too unless its nodes are siblings or it is diagnostic,
\* and without siblings at most one node's calls are ever unmetered (runtime.py: the look
\* at the cancel flag after an event).
THEOREM PaidWorkIsMeteredHolds == StreamSpec => []PaidWorkIsMetered
<1>1. StreamInv => PaidWorkIsMetered
  <2>1. ASSUME PaidInv, NEW r \in Runs, driver[r].pc = "over"
        PROVE  /\ row[r].status = "completed" => unmetered[r] = {}
               /\ row[r].status = "cancelled" /\ r \notin Parallel \cup Diagnostic => unmetered[r] = {}
               /\ r \notin Parallel => \A call, other \in unmetered[r] : call = other
    <3>1. Paid(r, driver[r], row[r].status, unmetered[r])
      BY <2>1 DEF PaidInv
    <3> QED  BY <2>1, <3>1 DEF Paid, Exempt
  <2> QED  BY <2>1 DEF StreamInv, PaidWorkIsMetered
<1> QED  BY <1>1, StreamInvariance, PTL

----------------------------------------------------------------------------
\* What a page ends up showing of the items that wait for it.

\* The text and the agents at work that an item leaves on the page.
ScreenAfter(screen, item) ==
    IF item.kind = "delta" THEN screen \o item.text
    ELSE IF item.kind = "reset" \/ (item.kind = "event" /\ Terminal(item.event)) THEN <<>>
    ELSE screen

StripAfter(strip, item) ==
    IF item.kind = "working" THEN strip \cup {item.event.node}
    ELSE IF item.kind = "event" /\ Terminal(item.event) THEN {}
    ELSE IF item.kind = "event" /\ item.event.type = "done" THEN strip \ {item.event.node}
    ELSE strip

LEMMA ShownPreview ==
    ASSUME NEW s \in Streams, NEW item \in Items
    PROVE  /\ Shown(s, item).screen = ScreenAfter(s.screen, item)
           /\ Shown(s, item).strip = StripAfter(s.strip, item)
<1>1. CASE item.kind = "delta"
  BY <1>1 DEF Shown, Streams, ScreenAfter, StripAfter
<1>2. CASE item.kind = "reset"
  BY <1>2 DEF Shown, Streams, ScreenAfter, StripAfter
<1>3. CASE item.kind = "working"
  BY <1>3 DEF Shown, Streams, ScreenAfter, StripAfter
<1>4. CASE item.kind = "event"
  BY <1>4 DEF Shown, Streams, ScreenAfter, StripAfter
<1> QED  BY <1>1, <1>2, <1>3, <1>4 DEF Items

\* Pages that show the same show the same after the same item.
LEMMA ShowsAlike ==
    ASSUME NEW s \in Streams, NEW u \in Streams, NEW item \in Items,
           s.screen = u.screen, s.strip = u.strip
    PROVE  /\ Shown(s, item).screen = Shown(u, item).screen
           /\ Shown(s, item).strip = Shown(u, item).strip
  BY ShownPreview

\* A page that shows s shows t once it has been given the items of q.
Pieced(s, q, t) ==
    \E h \in [0..Len(q) -> Streams] :
        /\ h[0] = s /\ h[Len(q)] = t
        /\ \A i \in 1..Len(q) : h[i] = Shown(h[i - 1], q[i])

\* The fold of PreviewIsWhole is what the page comes to show.
LEMMA ShownPieces ==
    ASSUME NEW s \in Streams, NEW q \in Seq(Items)
    PROVE  Pieced(s, q, Drawn(s, q)) /\ Drawn(s, q) \in Streams
<1> DEFINE step == [x \in Streams \X Items |-> Shown(x[1], x[2])]
           n == Len(q)
<1>1. n \in Nat /\ DOMAIN q = 1..n /\ \A i \in 1..n : q[i] \in Items
  BY LenProperties, ElementOfSeq
<1>2. step \in [Streams \X Items -> Streams]
  BY ShownIs
<1>3. \A a \in Streams, b \in Items : step[<<a, b>>] = Shown(a, b)
  OBVIOUS
<1> HIDE DEF step
<1>4. PICK g \in [SUBSET (1..n) -> Streams] : Iterates(g, n, step, s, q)
  BY <1>2, FoldExists
<1> HIDE DEF n
<1>5. \A t \in SUBSET (1..n) : t # {} => Max(t) \in 1..n /\ t \ {Max(t)} \in SUBSET (1..n)
  BY <1>1, MaxInside
<1>6. \A t \in SUBSET (1..n) :
         g[t] = IF t = {} THEN s ELSE Shown(g[t \ {Max(t)}], q[Max(t)])
  BY <1>1, <1>3, <1>4, <1>5 DEF Iterates
<1> DEFINE Solved(f) == f = [t \in SUBSET (1..n) |->
                               IF t = {} THEN s ELSE Shown(f[t \ {Max(t)}], q[Max(t)])]
           iter == CHOOSE f : Solved(f)
<1>7. Solved(g)
  BY <1>4, <1>6
<1>8. Solved(iter)
  <2> HIDE DEF Solved
  <2> QED  BY <1>7
<1>9. Drawn(s, q) = iter[1..n]
  BY <1>1 DEF Drawn, FoldLeft, MapThenFoldSet
<1>10. /\ iter = [t \in SUBSET (1..n) |-> iter[t]]
       /\ \A t \in SUBSET (1..n) :
             iter[t] = IF t = {} THEN s ELSE Shown(iter[t \ {Max(t)}], q[Max(t)])
  <2> HIDE DEF iter
  <2> QED  BY <1>8
<1> HIDE DEF iter
<1>11. \A t \in SUBSET (1..n) : iter[t] \in Streams
  <2>1. iter[{}] = s
    BY <1>10
  <2>2. \A t \in SUBSET (1..n) : t # {} /\ iter[t \ {Max(t)}] \in Streams => iter[t] \in Streams
    BY <1>1, <1>5, <1>10, ShownIs
  <2> QED  BY <1>1, <2>1, <2>2, FoldStays
<1>12. iter \in [SUBSET (1..n) -> Streams]
  BY <1>10, <1>11
<1>13. Iterates(iter, n, step, s, q)
  <2>1. \A t \in SUBSET (1..n) : t # {} =>
            Shown(iter[t \ {Max(t)}], q[Max(t)]) = step[<<iter[t \ {Max(t)}], q[Max(t)]>>]
    BY <1>1, <1>3, <1>5, <1>11
  <2> QED  BY <1>10, <2>1 DEF Iterates
<1>14. Reaches(Streams, step, s, q, iter[1..n])
  BY <1>2, <1>12, <1>13, FoldGoes DEF n
<1>15. PICK h \in [0..n -> Streams] : /\ h[0] = s /\ h[n] = iter[1..n]
                                      /\ \A i \in 1..n : h[i] = step[<<h[i - 1], q[i]>>]
  BY <1>14 DEF Reaches, n
<1>16. \A i \in 1..n : h[i] = Shown(h[i - 1], q[i])
  <2>1. \A i \in 1..n : i - 1 \in 0..n
    BY <1>1
  <2> QED  BY <1>1, <1>3, <1>15, <2>1
<1>17. Pieced(s, q, iter[1..n])
  BY <1>15, <1>16 DEF Pieced, n
<1>18. iter[1..n] \in Streams
  BY <1>11
<1> QED  BY <1>9, <1>17, <1>18

\* It depends on what the page shows to begin with only.
LEMMA PiecedAgree ==
    ASSUME NEW s \in Streams, NEW u \in Streams, NEW q \in Seq(Items), NEW t, NEW w,
           s.screen = u.screen, s.strip = u.strip, Pieced(s, q, t), Pieced(u, q, w)
    PROVE  t.screen = w.screen /\ t.strip = w.strip
<1> DEFINE n == Len(q)
<1>1. n \in Nat /\ \A i \in 1..n : q[i] \in Items
  BY LenProperties, ElementOfSeq
<1>2. PICK f \in [0..n -> Streams] : /\ f[0] = s /\ f[n] = t
                                     /\ \A i \in 1..n : f[i] = Shown(f[i - 1], q[i])
  BY DEF Pieced
<1>3. PICK g \in [0..n -> Streams] : /\ g[0] = u /\ g[n] = w
                                     /\ \A i \in 1..n : g[i] = Shown(g[i - 1], q[i])
  BY DEF Pieced
<1> DEFINE S == {k \in Nat : k <= n => f[k].screen = g[k].screen /\ f[k].strip = g[k].strip}
<1> HIDE DEF n
<1>4. 0 \in S
  BY <1>2, <1>3
<1>5. ASSUME NEW k \in S
      PROVE  k + 1 \in S
  <2>1. k \in Nat
    OBVIOUS
  <2> SUFFICES ASSUME k + 1 <= n
               PROVE  f[k + 1].screen = g[k + 1].screen /\ f[k + 1].strip = g[k + 1].strip
    BY <2>1
  <2>2. /\ k + 1 \in 1..n /\ k \in 0..n /\ (k + 1) - 1 = k
        /\ f[k].screen = g[k].screen /\ f[k].strip = g[k].strip
    BY <1>1, <2>1
  <2>3. f[k + 1] = Shown(f[k], q[k + 1]) /\ g[k + 1] = Shown(g[k], q[k + 1])
    BY <1>2, <1>3, <2>2
  <2>4. f[k] \in Streams /\ g[k] \in Streams /\ q[k + 1] \in Items
    BY <1>1, <2>2
  <2> QED  BY <2>2, <2>3, <2>4, ShowsAlike
<1> HIDE DEF S
<1>6. S = Nat
  <2>1. S \in SUBSET Nat
    BY DEF S
  <2> QED  BY <1>4, <1>5, <2>1, Induction
<1>7. f[n].screen = g[n].screen /\ f[n].strip = g[n].strip
  BY <1>1, <1>6 DEF S
<1> QED  BY <1>2, <1>3, <1>7

\* What a page shows in the end is what any page shows that started from the same.
LEMMA WholeIs ==
    ASSUME NEW s \in Streams, NEW u \in Streams, NEW q \in Seq(Items), NEW t,
           s.screen = u.screen, s.strip = u.strip, Pieced(u, q, t)
    PROVE  /\ Drawn(s, q).screen = t.screen
           /\ Drawn(s, q).strip = t.strip
<1>1. Pieced(s, q, Drawn(s, q))
  BY ShownPieces
<1> QED  BY <1>1, PiecedAgree

\* One more item comes after those that wait.
LEMMA PiecedMore ==
    ASSUME NEW s \in Streams, NEW q \in Seq(Items), NEW item \in Items, NEW t, Pieced(s, q, t)
    PROVE  Pieced(s, Append(q, item), Shown(t, item))
<1> DEFINE n == Len(q)
           more == Append(q, item)
<1>1. n \in Nat /\ Len(more) = n + 1 /\ more[n + 1] = item /\ \A i \in 1..n : more[i] = q[i]
  BY LenProperties, AppendProperties
<1>2. PICK h \in [0..n -> Streams] : /\ h[0] = s /\ h[n] = t
                                     /\ \A i \in 1..n : h[i] = Shown(h[i - 1], q[i])
  BY DEF Pieced
<1> DEFINE g == [i \in 0..n + 1 |-> IF i <= n THEN h[i] ELSE Shown(t, item)]
<1> HIDE DEF n, more
<1>3. t \in Streams /\ Shown(t, item) \in Streams
  <2>1. t \in Streams
    BY <1>1, <1>2
  <2> QED  BY <2>1, ShownIs
<1>4. g \in [0..n + 1 -> Streams]
  BY <1>1, <1>3
<1>5. /\ g[0] = h[0] /\ g[n + 1] = Shown(t, item) /\ \A i \in 0..n : g[i] = h[i]
  BY <1>1
<1> HIDE DEF g
<1>6. \A i \in 1..n + 1 : g[i] = Shown(g[i - 1], more[i])
  <2> SUFFICES ASSUME NEW i \in 1..n + 1
               PROVE  g[i] = Shown(g[i - 1], more[i])
    OBVIOUS
  <2>1. CASE i \in 1..n
    <3>1. i - 1 \in 0..n /\ i \in 0..n
      BY <1>1, <2>1
    <3> QED  BY <1>1, <1>2, <1>5, <2>1, <3>1
  <2>2. CASE i = n + 1
    <3>1. i - 1 = n /\ n \in 0..n
      BY <1>1, <2>2
    <3> QED  BY <1>1, <1>2, <1>5, <2>2, <3>1
  <2> QED  BY <1>1, <2>1, <2>2
<1>7. Len(more) = n + 1
  BY <1>1
<1> QED  BY <1>2, <1>4, <1>5, <1>6, <1>7 DEF Pieced, more

\* The first of those that wait is shown.
LEMMA PiecedNext ==
    ASSUME NEW s \in Streams, NEW q \in Seq(Items), q # <<>>, NEW t, Pieced(s, q, t)
    PROVE  Pieced(Shown(s, Head(q)), Tail(q), t)
<1> DEFINE n == Len(q)
           rest == Tail(q)
<1>1. /\ n \in Nat /\ n > 0 /\ Len(rest) = n - 1 /\ Head(q) = q[1]
      /\ \A i \in 1..n - 1 : rest[i] = q[i + 1]
  BY LenProperties, HeadTailProperties, EmptySeq
<1>2. PICK h \in [0..n -> Streams] : /\ h[0] = s /\ h[n] = t
                                     /\ \A i \in 1..n : h[i] = Shown(h[i - 1], q[i])
  BY DEF Pieced
<1> DEFINE g == [i \in 0..n - 1 |-> h[i + 1]]
<1> HIDE DEF n, rest
<1>3. g \in [0..n - 1 -> Streams]
  BY <1>1
<1>4. /\ g[0] = h[1] /\ g[n - 1] = h[n] /\ \A i \in 0..n - 1 : g[i] = h[i + 1]
  BY <1>1
<1> HIDE DEF g
<1>5. h[1] = Shown(s, Head(q))
  <2>1. 1 \in 1..n /\ 1 - 1 = 0
    BY <1>1
  <2> QED  BY <1>1, <1>2, <2>1
<1>6. \A i \in 1..n - 1 : g[i] = Shown(g[i - 1], rest[i])
  <2> SUFFICES ASSUME NEW i \in 1..n - 1
               PROVE  g[i] = Shown(g[i - 1], rest[i])
    OBVIOUS
  <2>1. /\ i + 1 \in 1..n /\ (i + 1) - 1 = i /\ i - 1 \in 0..n - 1 /\ i \in 0..n - 1
        /\ (i - 1) + 1 = i
    BY <1>1
  <2> QED  BY <1>1, <1>2, <1>4, <2>1
<1> QED  BY <1>1, <1>2, <1>3, <1>4, <1>5, <1>6 DEF Pieced, rest

\* The items of a replay: the events, the text so far, the agents at work.
LEMMA ListedOnce ==
    ASSUME NEW S, IsFiniteSet(S)
    PROVE  \A x \in S : \E i \in 1..Cardinality(S) : SetToSeq(S)[i] = x
<1> DEFINE f == SetToSeq(S)
           m == Cardinality(S)
<1>1. m \in Nat /\ ExistsBijection(1..m, S)
  BY FS_CardinalityType
<1>2. \E g \in [1..m -> S] : IsInjective(g)
  BY <1>1 DEF ExistsBijection, Bijection, Injection, IsInjective
<1>3. f \in [1..m -> S] /\ IsInjective(f)
  BY <1>2 DEF SetToSeq
<1> HIDE DEF f, m
<1>4. f \in Injection(1..m, S)
  BY <1>3 DEF Injection, IsInjective
<1>5. Cardinality(1..m) = m
  <2>1. Cardinality(1..m) = IF 1 > m THEN 0 ELSE m - 1 + 1
    BY <1>1, FS_Interval
  <2> QED  BY <1>1, <2>1
<1>6. f \in Surjection(1..m, S)
  BY <1>4, <1>5, FS_Injection DEF m
<1> QED  BY <1>6 DEF Surjection, f, m

LEMMA ReplayHolds ==
    ASSUME NEW e \in Entries
    PROVE  LET n == Len(e.events)
               k == n + IF e.text = <<>> THEN 0 ELSE 1
               m == Cardinality(e.working)
           IN  /\ n \in Nat /\ m \in Nat /\ Len(Replay(e)) = k + m
               /\ \A i \in 1..n : Replay(e)[i].kind = "event"
               /\ \A i \in n + 1..k : Replay(e)[i] = DeltaItem(e.text)
               /\ \A i \in 1..m : Replay(e)[k + i] = WorkingItem(SetToSeq(e.working)[i])
<1> DEFINE n == Len(e.events)
           first == [i \in 1..n |-> EventItem(e.events[i])]
           middle == IF e.text = <<>> THEN <<>> ELSE <<DeltaItem(e.text)>>
           l == IF e.text = <<>> THEN 0 ELSE 1
           m == Cardinality(e.working)
           last == [i \in 1..m |-> WorkingItem(SetToSeq(e.working)[i])]
<1>1. e.events \in Seq(Events) /\ e.text \in Seq(Nat) /\ e.working \subseteq 1..Nodes
  BY DEF Entries
<1>2. n \in Nat /\ \A i \in 1..n : e.events[i] \in Events
  BY <1>1, LenProperties, ElementOfSeq
<1>3. IsFiniteSet(e.working)
  <2>1. IsFiniteSet(1..Nodes)
    BY FS_Interval, StreamAssumption
  <2> QED  BY <1>1, <2>1, FS_Subset
<1>4. m \in Nat /\ \A i \in 1..m : SetToSeq(e.working)[i] \in 1..Nodes
  BY <1>1, <1>3, WorkingListed
<1>5. Replay(e) = first \o middle \o last
  BY DEF Replay
<1>6. \A i \in 1..n : first[i] \in Items /\ first[i].kind = "event"
  BY <1>2, ItemsTyped
<1>7. \A i \in 1..m : last[i] \in Items /\ last[i] = WorkingItem(SetToSeq(e.working)[i])
  BY <1>4, ItemsTyped
<1>8. /\ middle \in Seq(Items) /\ Len(middle) = l /\ l \in {0, 1}
      /\ \A i \in 1..l : middle[i] = DeltaItem(e.text)
  <2>1. CASE e.text = <<>>
    BY <2>1, EmptySeq
  <2>2. CASE e.text # <<>>
    <3>1. middle = <<DeltaItem(e.text)>> /\ DeltaItem(e.text) \in Items /\ l = 1
      BY <1>1, <2>2, ItemsTyped
    <3> QED  BY <3>1
  <2> QED  BY <2>1, <2>2
<1>9. first \in Seq(Items) /\ Len(first) = n
  <2>1. first \in [1..n -> Items]
    BY <1>6
  <2>2. DOMAIN first = 1..n
    OBVIOUS
  <2> HIDE DEF first, n
  <2> QED  BY <1>2, <2>1, <2>2
<1>10. last \in Seq(Items) /\ Len(last) = m
  <2>1. last \in [1..m -> Items]
    BY <1>7
  <2>2. DOMAIN last = 1..m
    OBVIOUS
  <2> HIDE DEF last, m
  <2> QED  BY <1>4, <2>1, <2>2
<1> HIDE DEF first, middle, last, n, m, l
<1>11. /\ first \o middle \in Seq(Items) /\ Len(first \o middle) = n + l
       /\ \A i \in 1..n + l :
            (first \o middle)[i] = IF i <= n THEN first[i] ELSE middle[i - n]
  BY <1>8, <1>9, ConcatProperties
<1> DEFINE front == first \o middle
           k == n + l
<1>12. k \in Nat /\ n <= k
  BY <1>2, <1>8
<1>13. /\ \A i \in 1..n : front[i].kind = "event"
       /\ \A i \in n + 1..k : front[i] = DeltaItem(e.text)
  <2>1. ASSUME NEW i \in 1..n
        PROVE  front[i].kind = "event"
    <3>1. i \in 1..n + l /\ i <= n
      BY <1>2, <1>8
    <3> QED  BY <1>6, <1>11, <3>1
  <2>2. ASSUME NEW i \in n + 1..k
        PROVE  front[i] = DeltaItem(e.text)
    <3>1. i \in 1..n + l /\ ~(i <= n) /\ i - n \in 1..l
      BY <1>2, <1>8
    <3> QED  BY <1>8, <1>11, <3>1
  <2> QED  BY <2>1, <2>2
<1> HIDE DEF front, k
<1>14. front \in Seq(Items) /\ Len(front) = k
  BY <1>11 DEF front, k
<1>15. /\ Len(front \o last) = k + m
       /\ \A i \in 1..k + m : (front \o last)[i] = IF i <= k THEN front[i] ELSE last[i - k]
  BY <1>10, <1>14, ConcatProperties
<1>16. ASSUME NEW i \in 1..k
       PROVE  (front \o last)[i] = front[i]
  <2>1. i \in 1..k + m /\ i <= k
    BY <1>4, <1>12
  <2> QED  BY <1>15, <2>1
<1>17. ASSUME NEW i \in 1..m
       PROVE  (front \o last)[k + i] = WorkingItem(SetToSeq(e.working)[i])
  <2>1. k + i \in 1..k + m /\ ~(k + i <= k) /\ (k + i) - k = i
    BY <1>4, <1>12
  <2> QED  BY <1>7, <1>15, <2>1
<1>18. \A i \in 1..n : i \in 1..k
  BY <1>2, <1>12
<1>19. \A i \in n + 1..k : i \in 1..k
  BY <1>2, <1>12
<1>20. Replay(e) = front \o last
  BY <1>5 DEF front
<1>21. /\ n \in Nat /\ m \in Nat /\ Len(Replay(e)) = k + m
       /\ \A i \in 1..n : Replay(e)[i].kind = "event"
       /\ \A i \in n + 1..k : Replay(e)[i] = DeltaItem(e.text)
       /\ \A i \in 1..m : Replay(e)[k + i] = WorkingItem(SetToSeq(e.working)[i])
  BY <1>2, <1>4, <1>13, <1>15, <1>16, <1>17, <1>18, <1>19, <1>20
<1> QED  BY <1>21 DEF n, m, k, l

\* A page that starts from nothing and is replayed a run shows its text and its agents
\* at work.
LEMMA ReplayIsWhole ==
    ASSUME NEW e \in Entries, NEW s \in Streams, s.screen = <<>>, s.strip = {}
    PROVE  /\ Drawn(s, Replay(e)).screen = e.text
           /\ Drawn(s, Replay(e)).strip = e.working
<1> DEFINE q == Replay(e)
           W == SetToSeq(e.working)
           n == Len(e.events)
           k == n + IF e.text = <<>> THEN 0 ELSE 1
           m == Cardinality(e.working)
           t == Drawn(s, q)
<1>1. /\ n \in Nat /\ m \in Nat /\ Len(q) = k + m
      /\ \A i \in 1..n : q[i].kind = "event"
      /\ \A i \in n + 1..k : q[i] = DeltaItem(e.text)
      /\ \A i \in 1..m : q[k + i] = WorkingItem(W[i])
  BY ReplayHolds
<1>2. /\ k \in Nat /\ n <= k /\ k <= n + 1
      /\ (k = n) <=> (e.text = <<>>)
  <2> HIDE DEF n
  <2> QED  BY <1>1
<1>3. q \in Seq(Items) /\ \A i \in 1..Len(q) : q[i] \in Items
  BY ReplayIs, ElementOfSeq
<1>4. Pieced(s, q, t)
  BY <1>3, ShownPieces
<1>5. e.text \in Seq(Nat) /\ e.working \subseteq 1..Nodes
  BY DEF Entries
<1>6. IsFiniteSet(e.working)
  <2>1. IsFiniteSet(1..Nodes)
    BY FS_Interval, StreamAssumption
  <2> QED  BY <1>5, <2>1, FS_Subset
<1>7. /\ \A i \in 1..m : W[i] \in e.working
      /\ \A x \in e.working : \E i \in 1..m : W[i] = x
  <2>1. W \in [1..m -> e.working]
    BY <1>6, WorkingListed
  <2>2. \A x \in e.working : \E i \in 1..m : W[i] = x
    BY <1>6, ListedOnce
  <2> QED  BY <2>1, <2>2
<1> HIDE DEF n, k, m, W, q, t
<1>8. PICK h \in [0..k + m -> Streams] : /\ h[0] = s /\ h[k + m] = t
                                         /\ \A i \in 1..k + m : h[i] = Shown(h[i - 1], q[i])
  BY <1>1, <1>4 DEF Pieced
<1> DEFINE Listed(x) == {W[j] : j \in 1..x}
<1>a. \A x \in Int : x <= 0 => Listed(x) = {}
  OBVIOUS
<1>b. \A x \in Nat : Listed(x + 1) = Listed(x) \cup {W[x + 1]}
  OBVIOUS
<1>c. Listed(m) = e.working
  BY <1>7
<1> HIDE DEF Listed
<1> DEFINE Right(i) == /\ h[i].screen = IF i <= n THEN <<>> ELSE e.text
                       /\ h[i].strip = Listed(i - k)
           P(i) == i <= k + m => Right(i)
           S == {i \in Nat : P(i)}
<1>9. 0 \in S
  <2>1. 0 - k \in Int /\ 0 - k <= 0 /\ 0 <= n
    BY <1>1, <1>2
  <2>2. Listed(0 - k) = {}
    BY <1>a, <2>1
  <2> QED  BY <1>8, <2>1, <2>2
<1>10. ASSUME NEW i \in Nat, P(i)
       PROVE  P(i + 1)
  <2> SUFFICES ASSUME i + 1 <= k + m
               PROVE  Right(i + 1)
    OBVIOUS
  <2>1. Right(i)
    BY <1>1, <1>2, <1>10
  <2>2. /\ i \in 0..k + m /\ i + 1 \in 1..k + m /\ (i + 1) - 1 = i
        /\ h[i] \in Streams /\ q[i + 1] \in Items
    BY <1>1, <1>2, <1>3, <1>8
  <2> DEFINE item == q[i + 1]
  <2>3. h[i + 1] = Shown(h[i], item) /\ item \in Items
    BY <1>8, <2>2
  <2>a. /\ h[i + 1].screen = ScreenAfter(h[i].screen, item)
        /\ h[i + 1].strip = StripAfter(h[i].strip, item)
    <3> HIDE DEF item
    <3> QED  BY <2>2, <2>3, ShownPreview
  <2>4. CASE i + 1 <= n
    <3>1. item.kind = "event" /\ i <= n /\ Listed(i - k) = {} /\ Listed((i + 1) - k) = {}
      BY <1>1, <1>2, <1>a, <2>4
    <3>2. h[i].screen = <<>> /\ h[i].strip = {}
      BY <2>1, <3>1
    <3>3. h[i + 1].screen = <<>> /\ h[i + 1].strip = {}
      <4> HIDE DEF item
      <4> QED  BY <2>a, <3>1, <3>2 DEF ScreenAfter, StripAfter
    <3> QED  BY <2>4, <3>1, <3>3
  <2>5. CASE i + 1 = k /\ k = n + 1
    <3>1. item = DeltaItem(e.text) /\ i <= n /\ ~(i + 1 <= n)
          /\ Listed(i - k) = {} /\ Listed((i + 1) - k) = {}
      <4>1. i + 1 \in n + 1..k
        BY <1>1, <1>2, <2>5
      <4> QED  BY <1>1, <1>2, <1>a, <2>5, <4>1
    <3>2. h[i].screen = <<>> /\ h[i].strip = {}
      BY <2>1, <3>1
    <3>3. item.kind = "delta" /\ item.text = e.text
      BY <3>1 DEF DeltaItem
    <3>4. h[i + 1].screen = <<>> \o e.text /\ h[i + 1].strip = {}
      <4> HIDE DEF item
      <4> QED  BY <2>a, <3>2, <3>3 DEF ScreenAfter, StripAfter
    <3>5. <<>> \o e.text = e.text
      BY <1>5
    <3> QED  BY <3>1, <3>4, <3>5
  <2>6. CASE i >= k
    <3> DEFINE j == (i + 1) - k
    <3>1. j \in 1..m /\ k + j = i + 1 /\ i - k = j - 1 /\ j \in Nat
      <4>1. k \in Nat /\ m \in Nat
        BY <1>1, <1>2
      <4> QED  BY <2>6, <4>1
    <3>2. item = WorkingItem(W[j])
      BY <1>1, <3>1
    <3>3. item.kind = "working" /\ item.event.node = W[j]
      BY <3>2 DEF WorkingItem, Event
    <3>4. h[i + 1].screen = h[i].screen /\ h[i + 1].strip = h[i].strip \cup {W[j]}
      <4> HIDE DEF item, j
      <4> QED  BY <2>a, <3>3 DEF ScreenAfter, StripAfter
    <3>5. h[i].screen = e.text /\ ~(i + 1 <= n)
      BY <1>1, <1>2, <2>1, <2>6
    <3>6. h[i].strip = Listed(j - 1)
      BY <2>1, <3>1
    <3>7. Listed(j - 1) \cup {W[j]} = Listed(j)
      <4>1. j - 1 \in Nat /\ (j - 1) + 1 = j
        BY <3>1
      <4> HIDE DEF j
      <4> QED  BY <1>b, <4>1
    <3>8. h[i + 1].strip = Listed((i + 1) - k)
      <4>1. (i + 1) - k = j
        OBVIOUS
      <4> HIDE DEF j
      <4> QED  BY <3>4, <3>6, <3>7, <4>1
    <3> QED  BY <3>4, <3>5, <3>8
  <2> QED  BY <1>1, <1>2, <2>4, <2>5, <2>6
<1>11. S = Nat
  <2>1. S \in SUBSET Nat /\ \A i \in S : i + 1 \in S
    <3> HIDE DEF P
    <3> QED  BY <1>10
  <2> HIDE DEF S
  <2> QED  BY <1>9, <2>1, Induction
<1>12. Right(k + m)
  <2>1. k + m \in Nat /\ k + m <= k + m
    BY <1>1, <1>2
  <2> HIDE DEF Right
  <2> QED  BY <1>11, <2>1
<1>13. t.screen = e.text
  BY <1>1, <1>2, <1>8, <1>12
<1>14. t.strip = e.working
  <2>1. (k + m) - k = m
    BY <1>1, <1>2
  <2>2. t.strip = Listed((k + m) - k)
    BY <1>8, <1>12
  <2> QED  BY <1>c, <2>1, <2>2
<1> QED  BY <1>13, <1>14 DEF t, q

----------------------------------------------------------------------------
\* A page shows the whole reply: the inductive invariant.

\* A page shows nothing before its stream is replayed the run.
ScreenInv ==
    \A v \in Viewers : stream[v].pc \in {"none", "ticket", "accepted"} =>
        stream[v].screen = <<>> /\ stream[v].strip = {}

\* A worker whose run is over has only the recording of the run in memory ahead.
Ending(d) ==
    \/ d.pc = "over"
    \/ d.pc = "record" /\ Terminal(d.event)
    \/ d.pc = "pull" /\ d.event.type = "completed"
    \/ d.pc \in {"publish", "record", "pull"} /\ d.event.type = "recorded"

\* A run that is over has no previews, and the log of one that is not holds no end.
EndedInv ==
    \A r \in Runs :
        /\ entry[r].status # "running" =>
            entry[r].text = <<>> /\ entry[r].working = {} /\ Ending(driver[r])
        /\ \A i \in 1..Len(log[r]) : Terminal(log[r][i]) => entry[r].status # "running"

\* What waits for a page brings it to what the registry holds.
Whole(s, e) ==
    LET t == Drawn(s, s.queue) IN t.screen = e.text /\ t.strip = e.working

PageInv == ScreenInv /\ EndedInv /\ PreviewIsWhole

LEMMA PreviewIs ==
    PreviewIsWhole <=> \A v \in Viewers : Streaming(v) => Whole(stream[v], entry[stream[v].run])
  BY DEF PreviewIsWhole, Whole

LEMMA StreamRecord ==
    ASSUME NEW s \in Streams
    PROVE  /\ s.queue \in Seq(Items) /\ s.run \in Runs /\ s.screen \in Seq(Nat)
           /\ s.strip \in SUBSET (0..Nodes)
  BY DEF Streams

LEMMA WholeStays ==
    ASSUME NEW s \in Streams, NEW u \in Streams, NEW e, NEW f, Whole(s, e),
           u.screen = s.screen, u.strip = s.strip, u.queue = s.queue,
           f.text = e.text, f.working = e.working
    PROVE  Whole(u, f)
<1> DEFINE t == Drawn(s, s.queue)
<1>1. Pieced(s, s.queue, t) /\ s.queue \in Seq(Items)
  BY ShownPieces, StreamRecord
<1>2. t.screen = e.text /\ t.strip = e.working
  BY DEF Whole
<1> HIDE DEF t
<1>3. /\ Drawn(u, s.queue).screen = t.screen
      /\ Drawn(u, s.queue).strip = t.strip
  BY <1>1, WholeIs
<1> QED  BY <1>2, <1>3 DEF Whole

\* An item that is published changes a page as it changes the registry's copy.
LEMMA WholeMore ==
    ASSUME NEW s \in Streams, NEW u \in Streams, NEW e, NEW f, NEW item \in Items, Whole(s, e),
           u.screen = s.screen, u.strip = s.strip, u.queue = Append(s.queue, item),
           f.text = ScreenAfter(e.text, item), f.working = StripAfter(e.working, item)
    PROVE  Whole(u, f)
<1> DEFINE t == Drawn(s, s.queue)
           q == Append(s.queue, item)
<1>1. Pieced(s, s.queue, t) /\ s.queue \in Seq(Items) /\ t \in Streams
  BY ShownPieces, StreamRecord
<1>2. t.screen = e.text /\ t.strip = e.working
  BY DEF Whole
<1> HIDE DEF t
<1>3. Pieced(s, q, Shown(t, item)) /\ q \in Seq(Items)
  BY <1>1, PiecedMore, AppendProperties
<1>4. u.queue = q
  OBVIOUS
<1> DEFINE w == Shown(t, item)
<1> HIDE DEF q, w
<1>5. Drawn(u, q).screen = w.screen /\ Drawn(u, q).strip = w.strip
  <2>1. Pieced(s, q, w)
    BY <1>3 DEF w
  <2> QED  BY <1>3, <1>4, <2>1, WholeIs
<1>6. /\ Shown(t, item).screen = ScreenAfter(t.screen, item)
      /\ Shown(t, item).strip = StripAfter(t.strip, item)
  BY <1>1, ShownPreview
<1> QED  BY <1>2, <1>4, <1>5, <1>6 DEF Whole, w

\* A delivery moves an item from what waits to what is shown.
LEMMA WholeNext ==
    ASSUME NEW s \in Streams, NEW e, Whole(s, e), s.queue # <<>>
    PROVE  LET shown == Shown([s EXCEPT !.queue = Tail(s.queue)], Head(s.queue))
           IN  Whole(shown, e)
<1> DEFINE t == Drawn(s, s.queue)
           item == Head(s.queue)
           q == Tail(s.queue)
           rest == [s EXCEPT !.queue = q]
           shown == Shown(rest, item)
<1>1. Pieced(s, s.queue, t) /\ s.queue \in Seq(Items)
  BY ShownPieces, StreamRecord
<1>2. t.screen = e.text /\ t.strip = e.working
  BY DEF Whole
<1>3. item \in Items /\ q \in Seq(Items)
  BY <1>1, HeadTailProperties
<1> HIDE DEF t
<1>4. Pieced(Shown(s, item), q, t)
  BY <1>1, PiecedNext
<1> HIDE DEF item, q
<1>5. rest \in Streams /\ rest.screen = s.screen /\ rest.strip = s.strip /\ rest.queue = q
  BY <1>3 DEF Streams
<1> HIDE DEF rest
<1>6. /\ shown \in Streams /\ Shown(s, item) \in Streams /\ shown.queue = q
  BY <1>3, <1>5, ShownIs
<1>7. shown.screen = Shown(s, item).screen /\ shown.strip = Shown(s, item).strip
  BY <1>3, <1>5, ShowsAlike
<1> HIDE DEF shown
<1>8. /\ Drawn(shown, q).screen = t.screen
      /\ Drawn(shown, q).strip = t.strip
  BY <1>3, <1>4, <1>6, <1>7, WholeIs
<1>9. Whole(shown, e)
  BY <1>2, <1>6, <1>8 DEF Whole
<1> QED  BY <1>9 DEF shown, rest, item, q

\* A step that changes no page, and the copy of no run that is watched.
LEMMA PagesStand ==
    ASSUME StreamInv, StreamInv', ScreenInv, PreviewIsWhole,
           \A v \in Viewers :
              /\ stream'[v].pc = stream[v].pc /\ stream'[v].run = stream[v].run
              /\ stream'[v].queue = stream[v].queue /\ stream'[v].screen = stream[v].screen
              /\ stream'[v].strip = stream[v].strip,
           \A r \in Runs : subscribed[r] # {} =>
              entry'[r].text = entry[r].text /\ entry'[r].working = entry[r].working
    PROVE  ScreenInv' /\ PreviewIsWhole'
<1>1. /\ \A v \in Viewers : stream[v] \in Streams /\ stream'[v] \in Streams /\ stream[v].run \in Runs
      /\ SubscribedInv
  BY StreamTypes, StreamRecord DEF StreamInv, StreamTypeOK
<1>2. ScreenInv'
  BY DEF ScreenInv
<1>3. ASSUME NEW v \in Viewers, Streaming(v)'
      PROVE  Whole(stream'[v], entry'[stream'[v].run])
  <2>1. Streaming(v) /\ stream[v].run \in Runs /\ stream'[v].run = stream[v].run
    BY <1>1, <1>3 DEF Streaming
  <2>2. v \in subscribed[stream[v].run]
    BY <1>1, <2>1 DEF SubscribedInv
  <2>3. Whole(stream[v], entry[stream[v].run])
    BY <2>1, PreviewIs
  <2> DEFINE e == entry[stream[v].run]
             f == entry'[stream[v].run]
  <2>4. f.text = e.text /\ f.working = e.working
    BY <2>1, <2>2
  <2> HIDE DEF e, f
  <2>5. Whole(stream'[v], f)
    BY <1>1, <2>3, <2>4, WholeStays DEF e
  <2> QED  BY <2>1, <2>5 DEF f
<1>4. PreviewIsWhole'
  BY <1>3 DEF PreviewIsWhole, Whole
<1> QED  BY <1>2, <1>4

\* A step that publishes an item of a run to all who watch it.
LEMMA PagesTold ==
    ASSUME StreamInv, StreamInv', ScreenInv, PreviewIsWhole, NEW r \in Runs, NEW item \in Items,
           Notify(r, item),
           \A q \in Runs \ {r} : entry'[q] = entry[q],
           entry'[r].text = ScreenAfter(entry[r].text, item),
           entry'[r].working = StripAfter(entry[r].working, item)
    PROVE  ScreenInv' /\ PreviewIsWhole'
<1>1. /\ \A v \in Viewers : stream[v] \in Streams /\ stream'[v] \in Streams /\ stream[v].run \in Runs
      /\ SubscribedInv /\ stream \in [Viewers -> Streams]
  BY StreamTypes, StreamRecord DEF StreamInv, StreamTypeOK
<1>2. \A v \in Viewers :
         IF v \in subscribed[r]
         THEN stream'[v] = [stream[v] EXCEPT !.queue = Append(stream[v].queue, item)]
         ELSE stream'[v] = stream[v]
  BY <1>1, NotifyIs
<1>3. \A v \in Viewers :
         /\ stream'[v].pc = stream[v].pc /\ stream'[v].run = stream[v].run
         /\ stream'[v].screen = stream[v].screen /\ stream'[v].strip = stream[v].strip
  BY <1>1, <1>2 DEF Streams
<1>4. ScreenInv'
  BY <1>3 DEF ScreenInv
<1>5. ASSUME NEW v \in Viewers, Streaming(v)'
      PROVE  Whole(stream'[v], entry'[stream'[v].run])
  <2>1. Streaming(v) /\ stream[v].run \in Runs /\ stream'[v].run = stream[v].run
    BY <1>1, <1>3, <1>5 DEF Streaming
  <2>2. v \in subscribed[r] <=> stream[v].run = r
    BY <1>1, <2>1 DEF SubscribedInv
  <2>3. Whole(stream[v], entry[stream[v].run])
    BY <2>1, PreviewIs
  <2>4. CASE stream[v].run = r
    <3>1. stream'[v] = [stream[v] EXCEPT !.queue = Append(stream[v].queue, item)]
      BY <1>2, <2>2, <2>4
    <3> DEFINE s == stream[v]
               u == stream'[v]
               e == entry[r]
               f == entry'[r]
    <3>2. /\ s \in Streams /\ u \in Streams /\ Whole(s, e)
          /\ u.screen = s.screen /\ u.strip = s.strip /\ u.queue = Append(s.queue, item)
          /\ f.text = ScreenAfter(e.text, item) /\ f.working = StripAfter(e.working, item)
      BY <1>1, <2>3, <2>4, <3>1 DEF Streams
    <3> HIDE DEF s, u, e, f
    <3>3. Whole(u, f)
      BY <3>2, WholeMore
    <3> QED  BY <2>1, <2>4, <3>3 DEF u, f
  <2>5. CASE stream[v].run # r
    <3>1. stream'[v] = stream[v] /\ entry'[stream[v].run] = entry[stream[v].run]
      BY <1>2, <2>1, <2>2, <2>5
    <3> QED  BY <2>3, <3>1
  <2> QED  BY <2>4, <2>5
<1>6. PreviewIsWhole'
  BY <1>5 DEF PreviewIsWhole, Whole
<1> QED  BY <1>4, <1>6

\* A step of one stream.
LEMMA OnePage ==
    ASSUME StreamInv, ScreenInv, PreviewIsWhole, NEW v \in Viewers, NEW s \in Streams,
           stream' = [stream EXCEPT ![v] = s], UNCHANGED entry,
           s.pc \in {"none", "ticket", "accepted"} => s.screen = <<>> /\ s.strip = {},
           s.pc = "streaming" => Whole(s, entry[s.run])
    PROVE  ScreenInv' /\ PreviewIsWhole'
<1>1. stream'[v] = s /\ \A u \in Viewers \ {v} : stream'[u] = stream[u]
  BY StreamTypes DEF StreamInv
<1>2. ScreenInv'
  BY <1>1 DEF ScreenInv
<1>3. ASSUME NEW u \in Viewers, Streaming(u)'
      PROVE  Whole(stream'[u], entry'[stream'[u].run])
  <2>1. CASE u = v
    BY <1>1, <1>3, <2>1 DEF Streaming
  <2>2. CASE u # v
    <3>1. Streaming(u) /\ stream'[u] = stream[u]
      BY <1>1, <1>3, <2>2 DEF Streaming
    <3> QED  BY <3>1, PreviewIs
  <2> QED  BY <2>1, <2>2
<1> QED  BY <1>2, <1>3 DEF PreviewIsWhole, Whole

\* The item of a recorded event changes the page as the event changes the registry's copy.
LEMMA PublishedIs ==
    ASSUME NEW e \in Entries, NEW event \in Events
    PROVE  /\ Published(e, event).text = ScreenAfter(e.text, EventItem(event))
           /\ Published(e, event).working = StripAfter(e.working, EventItem(event))
           /\ Published(e, event).status = IF Terminal(event) THEN event.type ELSE e.status
<1>1. EventItem(event).kind = "event" /\ EventItem(event).event = event
  BY ItemsTyped
<1>2. /\ Published(e, event).text = IF Terminal(event) THEN <<>> ELSE e.text
      /\ Published(e, event).working =
            IF Terminal(event) THEN {}
            ELSE IF event.type = "done" THEN e.working \ {event.node} ELSE e.working
      /\ Published(e, event).status = IF Terminal(event) THEN event.type ELSE e.status
  BY DEF Published, Entries
<1> QED  BY <1>1, <1>2 DEF ScreenAfter, StripAfter

LEMMA NotYetOver ==
    ASSUME EndedInv, NEW r \in Runs,
           driver[r].pc \in {"none", "persistRow", "commit", "salvage"}
    PROVE  entry[r].status = "running"
  BY DEF EndedInv, Ending

\* Every step keeps what is known of the runs that are over: one worker moves.
LEMMA EndedMove ==
    ASSUME StreamInv, EndedInv, NEW r \in Runs, UNCHANGED log,
           \A q \in Runs : /\ entry'[q].status = entry[q].status
                           /\ entry[q].status # "running" =>
                                entry'[q].text = entry[q].text /\ entry'[q].working = entry[q].working,
           \A q \in Runs \ {r} : driver'[q] = driver[q],
           entry[r].status # "running" => Ending(driver'[r])
    PROVE  EndedInv'
<1> SUFFICES ASSUME NEW q \in Runs
             PROVE  /\ entry'[q].status # "running" =>
                        entry'[q].text = <<>> /\ entry'[q].working = {} /\ Ending(driver'[q])
                    /\ \A i \in 1..Len(log[q]) : Terminal(log[q][i]) => entry'[q].status # "running"
  BY DEF EndedInv, Ending
<1>1. /\ entry[q].status # "running" =>
            entry[q].text = <<>> /\ entry[q].working = {} /\ Ending(driver[q])
      /\ \A i \in 1..Len(log[q]) : Terminal(log[q][i]) => entry[q].status # "running"
  BY DEF EndedInv
<1> QED  BY <1>1

LEMMA CreateRunEnded ==
    ASSUME StreamInv, EndedInv, NEW r \in Runs, CreateRun(r)
    PROVE  EndedInv'
<1> DEFINE new == [NoEntry EXCEPT !.kept = TRUE]
           entries == [entry EXCEPT ![r] = new]
           gone == Evicted(entries, Append(order, r))
<1>1. /\ driver[r].pc = "none"
      /\ entry' = [q \in Runs |-> IF q \in gone THEN NoEntry ELSE entries[q]]
      /\ log' = [q \in Runs |-> IF q \in gone THEN <<>> ELSE log[q]]
      /\ driver' = [driver EXCEPT ![r] = [Idle EXCEPT !.pc = "persistRow"]]
  BY DEF CreateRun
<1>2. entry \in [Runs -> Entries] /\ driver \in [Runs -> Drivers] /\ LogInv
  BY StreamTypes DEF StreamInv
<1>3. new.status = "running" /\ NoEntry.status = "running"
  BY DEF NoEntry
<1> HIDE DEF new, gone
<1> SUFFICES ASSUME NEW q \in Runs
             PROVE  /\ entry'[q].status # "running" =>
                        entry'[q].text = <<>> /\ entry'[q].working = {} /\ Ending(driver'[q])
                    /\ \A i \in 1..Len(log'[q]) : Terminal(log'[q][i]) => entry'[q].status # "running"
  BY DEF EndedInv, Ending
<1>4. CASE q \in gone \/ q = r
  <2>1. entry'[q].status = "running"
    BY <1>1, <1>2, <1>3, <1>4
  <2>2. log'[q] = <<>>
    BY <1>1, <1>2, <1>4 DEF LogInv
  <2>3. Len(log'[q]) = 0
    BY <2>2, EmptySeq
  <2> QED  BY <2>1, <2>3
<1>5. CASE q \notin gone /\ q # r
  <2>1. entry'[q] = entry[q] /\ log'[q] = log[q] /\ driver'[q] = driver[q]
    BY <1>1, <1>2, <1>5
  <2> QED  BY <2>1 DEF EndedInv
<1> QED  BY <1>4, <1>5

LEMMA PublishEnded ==
    ASSUME StreamInv, EndedInv, NEW r \in Runs, Publish(r)
    PROVE  EndedInv'
<1> DEFINE event == driver[r].event
<1>1. /\ driver[r].pc = "publish" /\ driver' = [driver EXCEPT ![r].pc = "record"]
      /\ driver \in [Runs -> Drivers] /\ entry \in [Runs -> Entries] /\ log \in [Runs -> Seq(Events)]
      /\ event \in Events /\ entry[r] \in Entries /\ log[r] \in Seq(Events)
  BY StreamTypes DEF Publish, Go, StreamInv
<1>2. driver'[r].pc = "record" /\ driver'[r].event = event
      /\ \A q \in Runs \ {r} : driver'[q] = driver[q]
  BY <1>1 DEF Drivers
<1>3. entry[r].status # "running" => event.type = "recorded"
  BY <1>1 DEF EndedInv, Ending, Terminal, Outcomes
<1>4. entry[r].status # "running" => Ending(driver'[r]) /\ ~Terminal(event)
  BY <1>2, <1>3 DEF Ending, Terminal, Outcomes
<1>5. Terminal(event) => Ending(driver'[r])
  BY <1>2 DEF Ending
<1> HIDE DEF event
<1>6. CASE ~entry[r].kept
  <2>1. UNCHANGED <<entry, log>>
    BY <1>6 DEF Publish
  <2> QED  BY <1>2, <1>4, <2>1, EndedMove
<1>7. CASE entry[r].kept
  <2>1. /\ entry' = [entry EXCEPT ![r] = Published(entry[r], event)]
        /\ log' = [log EXCEPT ![r] = Append(log[r], event)]
    BY <1>7 DEF Publish, event
  <2> SUFFICES ASSUME NEW q \in Runs
               PROVE  /\ entry'[q].status # "running" =>
                          entry'[q].text = <<>> /\ entry'[q].working = {} /\ Ending(driver'[q])
                      /\ \A i \in 1..Len(log'[q]) :
                              Terminal(log'[q][i]) => entry'[q].status # "running"
    BY DEF EndedInv, Ending
  <2>2. CASE q = r
    <3> DEFINE e == entry[r]
               f == entry'[r]
               l == log[r]
    <3>1. f = Published(e, event) /\ log'[r] = Append(l, event)
      BY <1>1, <2>1
    <3>2. /\ f.text = IF Terminal(event) THEN <<>> ELSE e.text
          /\ f.working = IF Terminal(event) THEN {}
                         ELSE IF event.type = "done" THEN e.working \ {event.node} ELSE e.working
          /\ f.status = IF Terminal(event) THEN event.type ELSE e.status
      BY <1>1, <3>1 DEF Published, Entries
    <3>3. Terminal(event) => f.status # "running"
      BY <3>2 DEF Terminal, Outcomes
    <3>4. e.status # "running" => e.text = <<>> /\ e.working = {}
      BY DEF EndedInv
    <3>5. f.status # "running" => f.text = <<>> /\ f.working = {} /\ Ending(driver'[r])
      BY <1>4, <1>5, <3>2, <3>4
    <3>6. /\ Len(Append(l, event)) = Len(l) + 1 /\ Append(l, event)[Len(l) + 1] = event
          /\ \A i \in 1..Len(l) : Append(l, event)[i] = l[i]
          /\ Len(l) \in Nat
      BY <1>1, AppendProperties, LenProperties
    <3>7. \A i \in 1..Len(l) : Terminal(l[i]) => e.status # "running"
      BY DEF EndedInv
    <3> DEFINE n == Len(l)
               more == Append(l, event)
    <3>8. \A i \in 1..n : Terminal(l[i]) => f.status # "running"
      BY <3>2, <3>3, <3>7
    <3> HIDE DEF e, f, l, n, more
    <3>9. \A i \in 1..n + 1 : Terminal(more[i]) => f.status # "running"
      <4> SUFFICES ASSUME NEW i \in 1..n + 1, Terminal(more[i]) PROVE f.status # "running"
        OBVIOUS
      <4>1. CASE i \in 1..n
        BY <3>6, <3>8, <4>1 DEF n, more
      <4>2. CASE i = n + 1
        BY <3>3, <3>6, <4>2 DEF n, more
      <4>3. n \in Nat
        BY <3>6 DEF n
      <4> QED  BY <4>1, <4>2, <4>3
    <3>10. log'[r] = more /\ Len(more) = n + 1
      BY <3>1, <3>6 DEF n, more
    <3> QED  BY <2>2, <3>5, <3>9, <3>10 DEF f
  <2>3. CASE q # r
    <3>1. entry'[q] = entry[q] /\ log'[q] = log[q] /\ driver'[q] = driver[q]
      BY <1>1, <1>2, <2>1, <2>3
    <3> QED  BY <3>1 DEF EndedInv
  <2> QED  BY <2>2, <2>3
<1> QED  BY <1>6, <1>7

\* What the generator still yields when the run is over.
LEMMA YieldsOnceOver ==
    ASSUME NEW event, NEW r, event.type \in {"completed", "recorded"}
    PROVE  /\ Yields(event, r) \subseteq {Event("recorded", 0)}
           /\ event.type = "recorded" => Yields(event, r) = {}
  BY DEF Yields

LEMMA PullEnded ==
    ASSUME StreamInv, EndedInv, NEW r \in Runs, Pull(r)
    PROVE  EndedInv'
<1>1. /\ driver[r].pc = "pull" /\ UNCHANGED <<entry, log>> /\ driver \in [Runs -> Drivers]
  BY StreamTypes DEF Pull, StreamInv, registryVars
<1>2. \A q \in Runs \ {r} : driver'[q] = driver[q]
  BY <1>1 DEF Pull
<1>3. ASSUME entry[r].status # "running"
      PROVE  Ending(driver'[r])
  <2>1. driver[r].event.type \in {"completed", "recorded"}
    BY <1>1, <1>3 DEF EndedInv, Ending, Terminal, Outcomes
  <2>2. CASE \E event \in Yields(driver[r].event, r) :
                driver' = [driver EXCEPT ![r].pc = NextStop(event), ![r].event = event]
    <3>a. Yields(driver[r].event, r) \subseteq {Event("recorded", 0)}
      BY <2>1, YieldsOnceOver
    <3>1. PICK event \in {Event("recorded", 0)} :
                driver' = [driver EXCEPT ![r].pc = NextStop(event), ![r].event = event]
      BY <2>2, <3>a
    <3>2. event.type = "recorded" /\ NextStop(event) = "publish"
      BY DEF Event, NextStop, Terminal, Outcomes
    <3>3. driver'[r].pc = "publish" /\ driver'[r].event = event
      BY <1>1, <3>1, <3>2 DEF Drivers
    <3> QED  BY <3>2, <3>3 DEF Ending
  <2>3. CASE driver' = [driver EXCEPT ![r] = Over]
    <3>1. driver'[r].pc = "over"
      BY <1>1, <2>3 DEF Over, Idle
    <3> QED  BY <3>1 DEF Ending
  <2> QED  BY <2>1, <2>2, <2>3 DEF Pull
<1> QED  BY <1>1, <1>2, <1>3, EndedMove

LEMMA RecordTraceEnded ==
    ASSUME StreamInv, EndedInv, NEW r \in Runs, RecordTrace(r)
    PROVE  EndedInv'
<1> DEFINE d == driver[r]
<1>1. /\ d.pc = "record" /\ UNCHANGED <<entry, log>> /\ driver \in [Runs -> Drivers]
  BY StreamTypes DEF RecordTrace, StreamInv, registryVars
<1>2. driver' = [driver EXCEPT ![r] =
            IF entry[r].cancel /\ MayStop(d.event, r)
            THEN [d EXCEPT !.event = Event("cancelled", 0), !.pc = "commit"]
            ELSE IF d.event.type \in {"failed", "cancelled"} THEN Over
            ELSE [d EXCEPT !.pc = "pull"]]
  BY DEF RecordTrace
<1>3. ASSUME entry[r].status # "running"
      PROVE  Ending(driver'[r])
  <2>1. d.event.type \in {"completed", "failed", "cancelled", "recorded"}
    BY <1>1, <1>3 DEF EndedInv, Ending, Terminal, Outcomes
  <2>2. ~MayStop(d.event, r)
    BY <2>1 DEF MayStop, Terminal, Outcomes
  <2>3. driver'[r] = IF d.event.type \in {"failed", "cancelled"} THEN Over ELSE [d EXCEPT !.pc = "pull"]
    BY <1>1, <1>2, <2>2
  <2>4. CASE d.event.type \in {"failed", "cancelled"}
    BY <2>3, <2>4 DEF Over, Idle, Ending
  <2>5. CASE d.event.type \in {"completed", "recorded"}
    <3>1. driver'[r].pc = "pull" /\ driver'[r].event = d.event
      BY <1>1, <2>3, <2>5 DEF Drivers
    <3> QED  BY <2>5, <3>1 DEF Ending
  <2> QED  BY <2>1, <2>4, <2>5
<1>4. \A q \in Runs \ {r} : driver'[q] = driver[q]
  BY <1>1, <1>2
<1> QED  BY <1>1, <1>3, <1>4, EndedMove

\* No node runs when the run is over.
LEMMA RunningIsNotOver ==
    ASSUME EndedInv, NEW r \in Runs, driver[r].pc = "pull", NodesAtWork(r) # {}
    PROVE  entry[r].status = "running"
<1> SUFFICES ASSUME entry[r].status # "running" PROVE FALSE
  OBVIOUS
<1>1. driver[r].event.type \in {"completed", "recorded"}
  BY DEF EndedInv, Ending, Terminal, Outcomes
<1> DEFINE next == {e.node : e \in {e \in Yields(driver[r].event, r) : e.type = "work"}}
<1>2. \A e \in Yields(driver[r].event, r) : e.type # "work"
  BY <1>1, YieldsOnceOver DEF Event
<1>3. next = {}
  BY <1>2
<1>4. NodesAtWork(r) = IF r \in Parallel THEN {n \in 1..LastNode(r) : \E m \in next : m <= n}
                       ELSE next
  BY <1>1 DEF NodesAtWork
<1> HIDE DEF next
<1> QED  BY <1>3, <1>4

LEMMA PublishTransientPage ==
    ASSUME StreamInv, StreamInv', PageInv, NEW r \in Runs, PublishTransient(r)
    PROVE  PageInv'
<1> DEFINE e == entry[r]
<1>1. /\ entry \in [Runs -> Entries] /\ e \in Entries /\ driver \in [Runs -> Drivers]
      /\ driver[r] \in Drivers /\ e.text \in Seq(Nat)
      /\ ScreenInv /\ EndedInv /\ PreviewIsWhole
  BY StreamTypes DEF StreamInv, Entries, PageInv
<1>2. driver[r].pc = "pull" /\ UNCHANGED log
  BY DEF PublishTransient, historyVars
<1>3. PICK n \in NodesAtWork(r) :
        \/ /\ entry' = [entry EXCEPT ![r].working = @ \cup {n}]
           /\ Notify(r, WorkingItem(n))
           /\ UNCHANGED driver
        \/ /\ driver[r].sent < MaxDeltas
           /\ LET piece == <<driver[r].sent + 1>> IN
                /\ entry' = [entry EXCEPT ![r].text = @ \o piece]
                /\ Notify(r, DeltaItem(piece))
                /\ driver' = [driver EXCEPT ![r].sent = @ + 1]
        \/ /\ entry' = [entry EXCEPT ![r].text = <<>>]
           /\ Notify(r, ResetItem)
           /\ UNCHANGED driver
  BY DEF PublishTransient
<1>4. n \in 1..Nodes
  <2>1. driver[r].event \in Events
    BY <1>1 DEF Drivers
  <2> QED  BY <2>1, NodesAtWorkTyped
<1>5. e.status = "running"
  BY <1>1, <1>2, <1>3, RunningIsNotOver
<1>6. PICK item \in Items : /\ Notify(r, item)
                            /\ entry'[r].text = ScreenAfter(e.text, item)
                            /\ entry'[r].working = StripAfter(e.working, item)
                            /\ entry'[r].status = e.status
  <2>1. CASE /\ entry' = [entry EXCEPT ![r].working = @ \cup {n}]
             /\ Notify(r, WorkingItem(n))
    <3> DEFINE item == WorkingItem(n)
    <3>1. item \in Items /\ item.kind = "working" /\ item.event.node = n
      BY <1>4, ItemsTyped DEF WorkingItem, Event
    <3>2. /\ entry'[r].text = e.text /\ entry'[r].working = e.working \cup {n}
          /\ entry'[r].status = e.status
      BY <1>1, <2>1 DEF Entries
    <3> HIDE DEF item
    <3>3. /\ entry'[r].text = ScreenAfter(e.text, item)
          /\ entry'[r].working = StripAfter(e.working, item)
      BY <3>1, <3>2 DEF ScreenAfter, StripAfter
    <3>4. Notify(r, item)
      BY <2>1 DEF item
    <3> QED  BY <3>1, <3>2, <3>3, <3>4
  <2>2. CASE LET piece == <<driver[r].sent + 1>> IN
                /\ entry' = [entry EXCEPT ![r].text = @ \o piece]
                /\ Notify(r, DeltaItem(piece))
    <3> DEFINE piece == <<driver[r].sent + 1>>
               item == DeltaItem(piece)
    <3>1. piece \in Seq(Nat)
      <4>1. driver[r].sent + 1 \in Nat
        BY <1>1, StreamAssumption DEF Drivers
      <4> QED  BY <4>1
    <3>2. entry' = [entry EXCEPT ![r].text = @ \o piece] /\ Notify(r, item)
      BY <2>2
    <3> HIDE DEF piece
    <3>3. item \in Items /\ item.kind = "delta" /\ item.text = piece
      BY <3>1, ItemsTyped DEF DeltaItem
    <3>4. /\ entry'[r].text = e.text \o piece /\ entry'[r].working = e.working
          /\ entry'[r].status = e.status
      BY <1>1, <3>2 DEF Entries
    <3> HIDE DEF item
    <3>5. /\ entry'[r].text = ScreenAfter(e.text, item)
          /\ entry'[r].working = StripAfter(e.working, item)
      BY <3>3, <3>4 DEF ScreenAfter, StripAfter
    <3> QED  BY <3>2, <3>3, <3>4, <3>5
  <2>3. CASE entry' = [entry EXCEPT ![r].text = <<>>] /\ Notify(r, ResetItem)
    <3>1. ResetItem \in Items /\ ResetItem.kind = "reset"
      BY ItemsTyped DEF ResetItem
    <3>2. /\ entry'[r].text = <<>> /\ entry'[r].working = e.working /\ entry'[r].status = e.status
      BY <1>1, <2>3 DEF Entries
    <3>3. /\ entry'[r].text = ScreenAfter(e.text, ResetItem)
          /\ entry'[r].working = StripAfter(e.working, ResetItem)
      BY <3>1, <3>2 DEF ScreenAfter, StripAfter
    <3> QED  BY <2>3, <3>1, <3>2, <3>3
  <2> QED  BY <1>3, <2>1, <2>2, <2>3
<1>7. \A q \in Runs \ {r} : entry'[q] = entry[q]
  BY <1>1, <1>3
<1>8. \A q \in Runs \ {r} : driver'[q] = driver[q]
  BY <1>1, <1>3
<1>9. ScreenInv' /\ PreviewIsWhole'
  BY <1>1, <1>6, <1>7, PagesTold
<1>10. \A q \in Runs : /\ entry'[q].status = entry[q].status
                       /\ entry[q].status # "running" =>
                            entry'[q].text = entry[q].text /\ entry'[q].working = entry[q].working
  BY <1>5, <1>6, <1>7
<1>11. EndedInv'
  BY <1>1, <1>2, <1>5, <1>8, <1>10, EndedMove
<1> QED  BY <1>9, <1>11 DEF PageInv

LEMMA PublishPage ==
    ASSUME StreamInv, StreamInv', PageInv, NEW r \in Runs, Publish(r)
    PROVE  PageInv'
<1> DEFINE event == driver[r].event
           item == EventItem(event)
<1>1. /\ entry \in [Runs -> Entries] /\ event \in Events /\ ScreenInv /\ EndedInv /\ PreviewIsWhole
  BY StreamTypes DEF StreamInv, PageInv
<1>2. EndedInv'
  BY <1>1, PublishEnded
<1>3. CASE entry[r].kept
  <2>1. entry' = [entry EXCEPT ![r] = Published(entry[r], event)] /\ Notify(r, item)
    BY <1>3 DEF Publish
  <2> HIDE DEF event
  <2>2. entry'[r] = Published(entry[r], event) /\ \A q \in Runs \ {r} : entry'[q] = entry[q]
    BY <1>1, <2>1
  <2>3. item \in Items
    BY <1>1, ItemsTyped
  <2>4. /\ entry'[r].text = ScreenAfter(entry[r].text, item)
        /\ entry'[r].working = StripAfter(entry[r].working, item)
    BY <1>1, <2>2, PublishedIs
  <2> HIDE DEF item
  <2>5. ScreenInv' /\ PreviewIsWhole'
    BY <1>1, <2>1, <2>2, <2>3, <2>4, PagesTold
  <2> QED  BY <1>2, <2>5 DEF PageInv
<1>4. CASE ~entry[r].kept
  <2>1. UNCHANGED <<entry, stream>>
    BY <1>4 DEF Publish
  <2>2. ScreenInv' /\ PreviewIsWhole'
    BY <1>1, <2>1, PagesStand
  <2> QED  BY <1>2, <2>2 DEF PageInv
<1> QED  BY <1>3, <1>4

\* The worker's other steps publish nothing.
LEMMA WorkerPage ==
    ASSUME StreamInv, StreamInv', PageInv, NEW r \in Runs, Worker(r)
    PROVE  PageInv'
<1>1. ScreenInv /\ EndedInv /\ PreviewIsWhole /\ driver \in [Runs -> Drivers]
  BY StreamTypes DEF PageInv, StreamInv
<1>2. ASSUME UNCHANGED <<entry, stream>>, EndedInv'
      PROVE  PageInv'
  BY <1>1, <1>2, PagesStand DEF PageInv
<1>3. ASSUME UNCHANGED <<entry, log, stream>>,
             driver[r].pc \in {"none", "persistRow", "commit", "salvage"},
             \A q \in Runs \ {r} : driver'[q] = driver[q]
      PROVE  PageInv'
  <2>1. entry[r].status = "running"
    BY <1>1, <1>3, NotYetOver
  <2>2. EndedInv'
    BY <1>1, <1>3, <2>1, EndedMove
  <2> QED  BY <1>2, <1>3, <2>2
<1>4. CASE PersistRow(r)
  <2>1. UNCHANGED <<entry, log, stream>> /\ driver[r].pc = "persistRow"
        /\ \A q \in Runs \ {r} : driver'[q] = driver[q]
    BY <1>1, <1>4 DEF PersistRow, registryVars, historyVars
  <2> QED  BY <1>3, <2>1
<1>5. CASE Commit(r)
  <2>1. UNCHANGED <<entry, log, stream>> /\ driver[r].pc = "commit"
        /\ \A q \in Runs \ {r} : driver'[q] = driver[q]
    BY <1>1, <1>5 DEF Commit, Go, registryVars, historyVars
  <2> QED  BY <1>3, <2>1
<1>6. CASE Salvage(r)
  <2>1. UNCHANGED <<entry, log, stream>> /\ driver[r].pc = "salvage"
        /\ \A q \in Runs \ {r} : driver'[q] = driver[q]
    BY <1>1, <1>6 DEF Salvage, Go, registryVars, historyVars
  <2> QED  BY <1>3, <2>1
<1>7. CASE Pull(r)
  <2>1. UNCHANGED <<entry, stream>>
    BY <1>7 DEF Pull, registryVars
  <2> QED  BY <1>1, <1>2, <1>7, <2>1, PullEnded
<1>8. CASE RecordTrace(r)
  <2>1. UNCHANGED <<entry, stream>>
    BY <1>8 DEF RecordTrace, registryVars
  <2> QED  BY <1>1, <1>2, <1>8, <2>1, RecordTraceEnded
<1>9. CASE Publish(r)
  BY <1>9, PublishPage
<1> QED  BY <1>4, <1>5, <1>6, <1>7, <1>8, <1>9 DEF Worker

\* Requests do not touch a page, nor what the registry holds of a run that is watched.
LEMMA RequestPage ==
    ASSUME StreamInv, StreamInv', PageInv,
           \/ \E r \in Runs : CreateRun(r) \/ CancelRun(r) \/ PurgeRun(r)
           \/ ResetPassword \/ ToggleOrg \/ RevokeLink
    PROVE  PageInv'
<1>1. /\ ScreenInv /\ EndedInv /\ PreviewIsWhole
      /\ entry \in [Runs -> Entries] /\ stream \in [Viewers -> Streams]
      /\ driver \in [Runs -> Drivers] /\ LogInv /\ SubscribedInv /\ ViewerSeesTheLog
  BY StreamTypes DEF PageInv, StreamInv
<1>2. ASSUME NEW r \in Runs, CreateRun(r)
      PROVE  PageInv'
  <2> DEFINE new == [NoEntry EXCEPT !.kept = TRUE]
             entries == [entry EXCEPT ![r] = new]
             gone == Evicted(entries, Append(order, r))
  <2>1. /\ entry' = [q \in Runs |-> IF q \in gone THEN NoEntry ELSE entries[q]]
        /\ driver[r].pc = "none" /\ UNCHANGED <<subscribed, stream>>
    BY <1>2 DEF CreateRun
  <2>2. \A q \in gone : subscribed[q] = {}
    BY DEF Evicted, Evictable
  <2>3. subscribed[r] = {}
    <3>1. ~entry[r].kept
      BY <1>1, <2>1 DEF LogInv
    <3>2. \A v \in Viewers : ~(Streaming(v) /\ stream[v].run = r)
      BY <1>1, <3>1 DEF ViewerSeesTheLog
    <3>3. subscribed[r] \subseteq Viewers
      BY StreamTypes DEF StreamInv
    <3> QED  BY <1>1, <3>2, <3>3 DEF SubscribedInv
  <2> HIDE DEF new, gone
  <2>4. \A q \in Runs : subscribed[q] # {} => entry'[q] = entry[q]
    BY <1>1, <2>1, <2>2, <2>3
  <2>5. ScreenInv' /\ PreviewIsWhole'
    BY <1>1, <2>1, <2>4, PagesStand
  <2>6. EndedInv'
    BY <1>1, <1>2, CreateRunEnded
  <2> QED  BY <2>5, <2>6 DEF PageInv
<1>3. ASSUME NEW r \in Runs, CancelRun(r)
      PROVE  PageInv'
  <2>1. /\ entry' = [entry EXCEPT ![r].cancel = TRUE]
        /\ UNCHANGED <<subscribed, stream, driver, log>>
    BY <1>3 DEF CancelRun, historyVars
  <2>2. \A q \in Runs : /\ entry'[q].text = entry[q].text /\ entry'[q].working = entry[q].working
                        /\ entry'[q].status = entry[q].status
    BY <1>1, <2>1 DEF Entries
  <2>3. ScreenInv' /\ PreviewIsWhole'
    BY <1>1, <2>1, <2>2, PagesStand
  <2>4. EndedInv'
    BY <1>1, <2>1, <2>2, EndedMove DEF EndedInv
  <2> QED  BY <2>3, <2>4 DEF PageInv
<1>4. ASSUME NEW r \in Runs, PurgeRun(r)
      PROVE  PageInv'
  <2>1. /\ entry' = [entry EXCEPT ![r] = Forgotten(entry[r])]
        /\ UNCHANGED <<subscribed, stream, driver, log>>
    BY <1>4 DEF PurgeRun
  <2>2. /\ entry'[r] = Forgotten(entry[r]) /\ \A q \in Runs \ {r} : entry'[q] = entry[q]
    BY <1>1, <2>1
\* A run that is over has no previews to forget.
  <2>3. \A q \in Runs : /\ entry'[q].text = entry[q].text /\ entry'[q].working = entry[q].working
                        /\ entry'[q].status = entry[q].status
    <3>1. entry[r].status # "running" => entry[r].text = <<>> /\ entry[r].working = {}
      BY <1>1 DEF EndedInv
    <3>2. /\ Forgotten(entry[r]).text = entry[r].text /\ Forgotten(entry[r]).status = entry[r].status
          /\ Forgotten(entry[r]).working = entry[r].working
      BY <1>1, <3>1 DEF Forgotten, Entries
    <3> QED  BY <2>2, <3>2
  <2>4. ScreenInv' /\ PreviewIsWhole'
    BY <1>1, <2>1, <2>3, PagesStand
  <2>5. EndedInv'
    BY <1>1, <2>1, <2>3, EndedMove DEF EndedInv
  <2> QED  BY <2>4, <2>5 DEF PageInv
<1>5. ASSUME NEW acc, ChangeAccount(acc)
      PROVE  PageInv'
  <2>1. /\ stream' = [v \in Viewers |->
              IF stream[v].pc # "closed" /\ Allowed(v, account) /\ ~Allowed(v, acc)
              THEN [stream[v] EXCEPT !.cut = Len(log[stream[v].run])] ELSE stream[v]]
        /\ UNCHANGED <<entry, subscribed, driver, log>>
    BY <1>5 DEF ChangeAccount, registryVars, historyVars
  <2>2. \A v \in Viewers :
              /\ stream'[v].pc = stream[v].pc /\ stream'[v].run = stream[v].run
              /\ stream'[v].queue = stream[v].queue /\ stream'[v].screen = stream[v].screen
              /\ stream'[v].strip = stream[v].strip
    BY <1>1, <2>1 DEF Streams
  <2>3. ScreenInv' /\ PreviewIsWhole'
    BY <1>1, <2>1, <2>2, PagesStand
  <2>4. EndedInv'
    BY <1>1, <2>1 DEF EndedInv, Ending
  <2> QED  BY <2>3, <2>4 DEF PageInv
<1> QED  BY <1>2, <1>3, <1>4, <1>5 DEF ResetPassword, ToggleOrg, RevokeLink

LEMMA StreamPage ==
    ASSUME StreamInv, StreamInv', PageInv, NEW v \in Viewers,
           IssueTicket(v) \/ (\E r \in Runs : Connect(v, r)) \/ Subscribe(v) \/ Deliver(v)
    PROVE  PageInv'
<1> DEFINE s == stream[v]
           closed == [Closed EXCEPT !.pc = "closed"]
<1>1. /\ ScreenInv /\ EndedInv /\ PreviewIsWhole /\ s \in Streams /\ entry \in [Runs -> Entries]
      /\ s.run \in Runs /\ stream \in [Viewers -> Streams] /\ ViewerSeesTheLog
  BY StreamTypes, StreamRecord DEF PageInv, StreamInv
<1>2. UNCHANGED <<entry, driver, log>>
  BY DEF IssueTicket, Connect, Subscribe, Deliver, registryVars, Unchanging, historyVars
<1>3. EndedInv'
  BY <1>1, <1>2 DEF EndedInv, Ending
<1>4. ASSUME NEW t \in Streams, stream' = [stream EXCEPT ![v] = t],
             t.pc \in {"none", "ticket", "accepted"} => t.screen = <<>> /\ t.strip = {},
             t.pc = "streaming" => Whole(t, entry[t.run])
      PROVE  PageInv'
  BY <1>1, <1>2, <1>3, <1>4, OnePage DEF PageInv
<1>5. closed \in Streams /\ closed.pc = "closed"
  BY StreamsTyped
<1>6. CASE IssueTicket(v)
  <2> DEFINE t == [s EXCEPT !.pc = "ticket", !.stamp = account.stamp]
  <2>1. s.pc = "none" /\ stream' = [stream EXCEPT ![v] = t] /\ account.stamp \in Nat
    BY <1>1, <1>6, StreamTypes DEF IssueTicket, StreamInv
  <2>2. t \in Streams /\ t.pc = "ticket" /\ t.screen = s.screen /\ t.strip = s.strip
    BY <1>1, <2>1 DEF Streams
  <2>3. s.screen = <<>> /\ s.strip = {}
    BY <1>1, <2>1 DEF ScreenInv
  <2> HIDE DEF t
  <2> QED  BY <1>4, <2>1, <2>2, <2>3
<1>7. ASSUME NEW r \in Runs, Connect(v, r)
      PROVE  PageInv'
  <2>1. s.pc \in {"none", "ticket"}
    BY <1>7 DEF Connect
  <2>2. CASE stream' = [stream EXCEPT ![v].pc = "accepted", ![v].run = r]
    <3> DEFINE t == [s EXCEPT !.pc = "accepted", !.run = r]
    <3>1. stream' = [stream EXCEPT ![v] = t]
      BY <2>2
    <3>2. t \in Streams /\ t.pc = "accepted" /\ t.screen = s.screen /\ t.strip = s.strip
      BY <1>1 DEF Streams
    <3>3. s.screen = <<>> /\ s.strip = {}
      BY <1>1, <2>1 DEF ScreenInv
    <3> HIDE DEF t
    <3> QED  BY <1>4, <3>1, <3>2, <3>3
  <2>3. CASE stream' = [stream EXCEPT ![v] = closed]
    <3> HIDE DEF closed
    <3> QED  BY <1>4, <1>5, <2>3
  <2> QED  BY <1>7, <2>2, <2>3 DEF Connect
<1>8. CASE Subscribe(v)
  <2> DEFINE e == entry[s.run]
             t == [s EXCEPT !.pc = "streaming", !.queue = Replay(e), !.from = scrubbed[s.run]]
  <2>1. s.pc = "accepted"
    BY <1>8 DEF Subscribe
  <2>2. CASE e.kept
    <3>1. stream' = [stream EXCEPT ![v] = t]
      BY <1>8, <2>2 DEF Subscribe
    <3>2. Replay(e) \in Seq(Items) /\ scrubbed[s.run] \in Nat /\ e \in Entries
      BY <1>1, ReplayIs, StreamTypes DEF StreamInv
    <3>3. /\ t \in Streams /\ t.pc = "streaming" /\ t.screen = s.screen /\ t.strip = s.strip
          /\ t.run = s.run /\ t.queue = Replay(e)
      BY <1>1, <3>2 DEF Streams
    <3>4. s.screen = <<>> /\ s.strip = {}
      BY <1>1, <2>1 DEF ScreenInv
    <3> HIDE DEF t, e
    <3>5. Drawn(t, Replay(e)).screen = e.text /\ Drawn(t, Replay(e)).strip = e.working
      BY <3>2, <3>3, <3>4, ReplayIsWhole
    <3>6. Whole(t, e)
      BY <3>3, <3>5 DEF Whole
    <3>7. e = entry[t.run]
      BY <3>3 DEF e
    <3> QED  BY <1>4, <3>1, <3>3, <3>6, <3>7
  <2>3. CASE ~e.kept
    <3>1. stream' = [stream EXCEPT ![v] = closed]
      BY <1>8, <2>3 DEF Subscribe
    <3> HIDE DEF closed
    <3> QED  BY <1>4, <1>5, <3>1
  <2> QED  BY <2>2, <2>3
<1>9. CASE Deliver(v)
  <2> DEFINE item == Head(s.queue)
             rest == [s EXCEPT !.queue = Tail(s.queue)]
             shown == Shown(rest, item)
             over == IF Allowed(v, account) THEN closed
                     ELSE [s EXCEPT !.pc = "closed", !.queue = <<>>, !.screen = <<>>, !.strip = {}]
             final == [over EXCEPT !.got = IF Allowed(v, account) THEN @ ELSE shown.got]
  <2>1. s.pc = "streaming" /\ s.queue # <<>> /\ Streaming(v)
    BY <1>9 DEF Deliver, Streaming
  <2>2. \/ stream' = [stream EXCEPT ![v] = shown]
        \/ stream' = [stream EXCEPT ![v] = final]
        \/ stream' = [stream EXCEPT ![v] = over]
    BY <1>9 DEF Deliver
  <2>3. /\ item \in Items /\ Tail(s.queue) \in Seq(Items)
    BY <1>1, <2>1, HeadTailProperties, StreamRecord
  <2>4. rest \in Streams /\ rest.pc = s.pc /\ rest.run = s.run
    BY <1>1, <2>3 DEF Streams
  <2>5. CASE stream' = [stream EXCEPT ![v] = shown]
    <3>1. Whole(s, entry[s.run])
      BY <2>1, PreviewIs, <1>1
    <3>2. Whole(shown, entry[s.run])
      BY <1>1, <2>1, <3>1, WholeNext
    <3> HIDE DEF rest, item
    <3>3. shown \in Streams /\ shown.pc = s.pc /\ shown.run = s.run
      BY <2>3, <2>4, ShownIs
    <3> HIDE DEF shown
    <3> QED  BY <1>4, <2>1, <2>5, <3>2, <3>3
  <2>6. over \in Streams /\ over.pc = "closed"
    <3>1. CASE Allowed(v, account)
      BY <1>5, <3>1
    <3>2. CASE ~Allowed(v, account)
      <4>1. over = [s EXCEPT !.pc = "closed", !.queue = <<>>, !.screen = <<>>, !.strip = {}]
        BY <3>2
      <4>2. <<>> \in Seq(Items) /\ <<>> \in Seq(Nat)
        OBVIOUS
      <4> HIDE DEF over
      <4> QED  BY <1>1, <4>1, <4>2 DEF Streams
    <3> QED  BY <3>1, <3>2
  <2>7. final \in Streams /\ final.pc = "closed"
    <3>1. shown.got \in Seq(Events)
      <4>1. shown \in Streams
        <5> HIDE DEF rest, item
        <5> QED  BY <2>3, <2>4, ShownIs
      <4> HIDE DEF shown
      <4> QED  BY <4>1 DEF Streams
    <3> HIDE DEF over, shown
    <3>2. over.got \in Seq(Events)
      BY <2>6 DEF Streams
    <3> QED  BY <2>6, <3>1, <3>2 DEF Streams
  <2> HIDE DEF over, final, shown
  <2> QED  BY <1>4, <2>2, <2>5, <2>6, <2>7
<1> QED  BY <1>6, <1>7, <1>8, <1>9

LEMMA RestartPage ==
    ASSUME Restart
    PROVE  PageInv'
<1>1. /\ \A r \in Runs : entry'[r] = NoEntry /\ log'[r] = <<>>
      /\ \A v \in Viewers : stream'[v] = Closed
  BY DEF Restart
<1>2. /\ NoEntry.status = "running" /\ Closed.pc = "none" /\ Closed.screen = <<>> /\ Closed.strip = {}
      /\ Len(<<>>) = 0
  BY DEF NoEntry, Closed
<1>3. ScreenInv' /\ PreviewIsWhole'
  BY <1>1, <1>2 DEF ScreenInv, PreviewIsWhole, Streaming
<1>4. EndedInv'
  BY <1>1, <1>2 DEF EndedInv
<1> QED  BY <1>3, <1>4 DEF PageInv

LEMMA StreamInitPage == StreamInit => PageInv
<1> SUFFICES ASSUME StreamInit PROVE PageInv
  OBVIOUS
<1>1. /\ \A r \in Runs : entry[r] = NoEntry /\ log[r] = <<>>
      /\ \A v \in Viewers : stream[v] = Closed
  BY DEF StreamInit
<1>2. /\ NoEntry.status = "running" /\ Closed.pc = "none" /\ Closed.screen = <<>> /\ Closed.strip = {}
      /\ Len(<<>>) = 0
  BY DEF NoEntry, Closed
<1>3. ScreenInv /\ PreviewIsWhole
  BY <1>1, <1>2 DEF ScreenInv, PreviewIsWhole, Streaming
<1>4. EndedInv
  BY <1>1, <1>2 DEF EndedInv
<1> QED  BY <1>3, <1>4 DEF PageInv

LEMMA PageStep == StreamInv /\ StreamInv' /\ PageInv /\ [StreamNext]_streamVars => PageInv'
<1> SUFFICES ASSUME StreamInv, StreamInv', PageInv, [StreamNext]_streamVars PROVE PageInv'
  OBVIOUS
<1>1. CASE UNCHANGED streamVars
  BY <1>1 DEF streamVars, PageInv, ScreenInv, EndedInv, Ending, PreviewIsWhole, Streaming
<1>2. CASE \E r \in Runs : Worker(r)
  BY <1>2, WorkerPage
<1>3. CASE \E r \in Runs : PublishTransient(r)
  BY <1>3, PublishTransientPage
<1>4. CASE Restart
  BY <1>4, RestartPage
<1>5. CASE \E v \in Viewers : IssueTicket(v) \/ (\E r \in Runs : Connect(v, r)) \/ Subscribe(v) \/ Deliver(v)
  BY <1>5, StreamPage
<1>6. CASE \/ \E r \in Runs : CreateRun(r) \/ CancelRun(r) \/ PurgeRun(r)
           \/ ResetPassword \/ ToggleOrg \/ RevokeLink
  BY <1>6, RequestPage
<1> QED  BY <1>1, <1>2, <1>3, <1>4, <1>5, <1>6 DEF StreamNext

THEOREM PageInvariance == StreamSpec => []PageInv
<1>1. StreamInv /\ PageInv /\ StreamInv' /\ [StreamNext]_streamVars => PageInv'
  BY PageStep
<1> QED  BY <1>1, StreamInitPage, StreamInvariance, PTL DEF StreamSpec

\* A page that attaches in the middle of a reply, or reconnects, comes to show the whole
\* text so far and exactly the agents at work, whatever is published, reset, purged,
\* cancelled or restarted meanwhile (registry.subscribe's synthetic events).
THEOREM PreviewIsWholeHolds == StreamSpec => []PreviewIsWhole
<1>1. PageInv => PreviewIsWhole
  BY DEF PageInv
<1> QED  BY <1>1, PageInvariance, PTL

----------------------------------------------------------------------------
\* The registry and its streams are the feeds of the runs.

\* The log of a run that is over holds its end.
OverInv ==
    \A r \in Runs : entry[r].kept /\ entry[r].status # "running" =>
        \E i \in 1..Len(log[r]) : Terminal(log[r][i])

FeedInv == StreamInv /\ PageInv /\ OverInv

LEMMA FeedEnded ==
    ASSUME StreamTypeOK, NEW r \in Runs
    PROVE  Feed!Ended(r) <=> \E i \in 1..Len(log[r]) : Terminal(log[r][i])
<1>1. log[r] \in Seq(Events) /\ DOMAIN log[r] = 1..Len(log[r])
  BY StreamTypes, LenProperties
<1>2. \A i \in 1..Len(log[r]) : log[r][i] \in Events
  BY <1>1, ElementOfSeq
<1> QED  BY <1>1, <1>2 DEF Feed!Ended, Endings

\* A run that is over has ended in its feed, and one that has takes a postscript only.
LEMMA EndedOrNot ==
    ASSUME FeedInv, NEW r \in Runs
    PROVE  /\ entry[r].kept /\ entry[r].status # "running" => Feed!Ended(r)
           /\ Feed!Ended(r) => entry[r].status # "running"
  BY FeedEnded DEF FeedInv, StreamInv, PageInv, EndedInv, OverInv

\* A step that changes no stream but for what waits for it or is shown.
LEMMA FollowingStands ==
    ASSUME UNCHANGED account,
           \A v \in Viewers : /\ stream'[v].pc = stream[v].pc /\ stream'[v].run = stream[v].run
                              /\ stream'[v].from = stream[v].from /\ stream'[v].got = stream[v].got
                              /\ stream'[v].stamp = stream[v].stamp
    PROVE  UNCHANGED Following /\ UNCHANGED Permitted
<1>1. \A v \in Viewers : ReaderOf(stream'[v]) = ReaderOf(stream[v])
  BY DEF ReaderOf
<1>2. UNCHANGED Following
  BY <1>1 DEF Following
<1>3. UNCHANGED Permitted
  BY DEF Permitted, Streaming, Allowed
<1> QED  BY <1>2, <1>3

\* One stream takes another record.
LEMMA OneFollows ==
    ASSUME UNCHANGED account, stream \in [Viewers -> Streams], NEW v \in Viewers, NEW s,
           stream' = [stream EXCEPT ![v] = s]
    PROVE  /\ Following' = [Following EXCEPT ![v] = ReaderOf(s)]
           /\ \A u \in Viewers \ {v} : u \in Permitted' <=> u \in Permitted
           /\ v \in Permitted' <=> /\ s.pc = "streaming" /\ account.active
                                   /\ IF v \in Members THEN s.stamp = account.stamp ELSE account.link
           /\ Permitted' \subseteq Viewers /\ Permitted \subseteq Viewers
<1>1. \A u \in Viewers : stream'[u] = IF u = v THEN s ELSE stream[u]
  OBVIOUS
<1>2. Following' = [Following EXCEPT ![v] = ReaderOf(s)]
  BY <1>1 DEF Following
<1> QED  BY <1>1, <1>2 DEF Permitted, Streaming, Allowed

LEMMA KeptStands ==
    ASSUME \A r \in Runs : entry'[r].kept = entry[r].kept
    PROVE  UNCHANGED Kept
  BY DEF Kept

\* A step that publishes nothing, begins and forgets no run and touches no stream.
LEMMA FeedStands ==
    ASSUME UNCHANGED <<log, scrubbed, stream, account>>,
           \A r \in Runs : entry'[r].kept = entry[r].kept
    PROVE  UNCHANGED Feed!feed
<1>1. UNCHANGED Following /\ UNCHANGED Permitted
  BY FollowingStands
<1>2. UNCHANGED Kept
  BY KeptStands
<1> QED  BY <1>1, <1>2 DEF Feed!feed

\* Beginning a run, which nobody follows yet, forgets only what is over and unfollowed.
LEMMA CreateRunFeed ==
    ASSUME FeedInv, NEW r \in Runs, CreateRun(r)
    PROVE  Feed!Begin
<1> DEFINE new == [NoEntry EXCEPT !.kept = TRUE]
           entries == [entry EXCEPT ![r] = new]
           gone == Evicted(entries, Append(order, r))
<1>1. /\ driver[r].pc = "none"
      /\ entry' = [q \in Runs |-> IF q \in gone THEN NoEntry ELSE entries[q]]
      /\ log' = [q \in Runs |-> IF q \in gone THEN <<>> ELSE log[q]]
      /\ scrubbed' = [q \in Runs |-> IF q \in gone THEN 0 ELSE scrubbed[q]]
      /\ UNCHANGED <<subscribed, stream, account>>
  BY DEF CreateRun
<1>2. entry \in [Runs -> Entries] /\ LogInv /\ SubscribedInv
  BY StreamTypes DEF FeedInv, StreamInv
<1>3. new.kept = TRUE /\ new.status = "running" /\ NoEntry.kept = FALSE
  BY EntriesTyped DEF NoEntry
<1>4. ~entry[r].kept
  BY <1>1, <1>2 DEF LogInv
<1> HIDE DEF new
<1>5. entries[r] = new /\ \A q \in Runs \ {r} : entries[q] = entry[q]
  BY <1>2
<1> HIDE DEF entries
<1>6. \A q \in gone : /\ q \in Runs /\ q # r /\ subscribed[q] = {}
                      /\ entry[q].kept /\ entry[q].status # "running"
  BY <1>3, <1>5 DEF Evicted, Evictable
<1> HIDE DEF gone
<1>7. gone \in SUBSET {q \in Kept : Feed!Ended(q) /\ \A v \in Viewers : ~Feed!Follows(v, q)}
  <2> SUFFICES ASSUME NEW q \in gone
               PROVE  q \in Kept /\ Feed!Ended(q) /\ \A v \in Viewers : ~Feed!Follows(v, q)
    OBVIOUS
  <2>1. q \in Kept /\ Feed!Ended(q)
    BY <1>6, EndedOrNot DEF Kept
  <2>2. ASSUME NEW v \in Viewers, Feed!Follows(v, q)
        PROVE  FALSE
    <3>1. Streaming(v) /\ stream[v].run = q
      BY <2>2 DEF Feed!Follows, Following, ReaderOf, Away, Streaming
    <3> QED  BY <1>2, <1>6, <3>1 DEF SubscribedInv
  <2> QED  BY <2>1, <2>2
<1>8. r \in Runs \ Kept
  BY <1>4 DEF Kept
<1>9. Kept' = (Kept \ gone) \cup {r}
  <2>1. \A q \in Runs : entry'[q].kept <=> (q \notin gone /\ entry[q].kept) \/ q = r
    BY <1>1, <1>3, <1>5, <1>6
  <2> QED  BY <2>1 DEF Kept
<1>10. UNCHANGED Following /\ UNCHANGED Permitted
  BY <1>1, FollowingStands
<1> QED  BY <1>1, <1>7, <1>8, <1>9, <1>10 DEF Feed!Begin

\* A purge hides what was published of a run that is over, and leaves the others alone.
LEMMA PurgeRunFeed ==
    ASSUME FeedInv, NEW r \in Runs, PurgeRun(r)
    PROVE  Feed!Hide \/ UNCHANGED Feed!feed
<1> DEFINE e == entry[r]
<1>1. /\ entry' = [entry EXCEPT ![r] = Forgotten(e)]
      /\ scrubbed' = [scrubbed EXCEPT ![r] = IF Forgotten(e) # e THEN Len(log[r]) ELSE scrubbed[r]]
      /\ UNCHANGED <<stream, account, log>>
  BY DEF PurgeRun
<1>2. entry \in [Runs -> Entries] /\ e \in Entries /\ scrubbed \in [Runs -> Nat]
  BY StreamTypes DEF FeedInv, StreamInv
<1>3. /\ Forgotten(e).kept = e.kept
      /\ Forgotten(e) # e => e.kept /\ e.status # "running"
  BY <1>2 DEF Forgotten, Entries
<1>4. UNCHANGED Kept
  <2>1. \A q \in Runs : entry'[q].kept = entry[q].kept
    BY <1>1, <1>2, <1>3
  <2> QED  BY <2>1, KeptStands
<1>5. UNCHANGED Following /\ UNCHANGED Permitted
  BY <1>1, FollowingStands
<1>6. CASE Forgotten(e) = e
  <2>1. UNCHANGED scrubbed
    BY <1>1, <1>2, <1>6
  <2> QED  BY <1>1, <1>4, <1>5, <2>1 DEF Feed!feed
<1>7. CASE Forgotten(e) # e
  <2>1. r \in Kept /\ Feed!Ended(r)
    BY <1>3, <1>7, EndedOrNot DEF Kept
  <2>2. scrubbed' = [scrubbed EXCEPT ![r] = Len(log[r])]
    BY <1>1, <1>7
  <2> QED  BY <1>1, <1>4, <1>5, <2>1, <2>2 DEF Feed!Hide
<1> QED  BY <1>6, <1>7

\* A run that is over has but the recording in memory to publish.
LEMMA PublishFeed ==
    ASSUME FeedInv, NEW r \in Runs, Publish(r)
    PROVE  Feed!Publish \/ UNCHANGED Feed!feed
<1> DEFINE event == driver[r].event
<1>1. /\ driver[r].pc = "publish" /\ event \in Events
      /\ entry \in [Runs -> Entries] /\ stream \in [Viewers -> Streams]
      /\ UNCHANGED <<account, scrubbed>>
  BY StreamTypes DEF Publish, FeedInv, StreamInv
<1>2. CASE ~entry[r].kept
  <2>1. UNCHANGED <<entry, log, stream>>
    BY <1>2 DEF Publish
  <2> QED  BY <1>1, <2>1, FeedStands
<1>3. CASE entry[r].kept
  <2>1. /\ entry' = [entry EXCEPT ![r] = Published(entry[r], event)]
        /\ log' = [log EXCEPT ![r] = Append(log[r], event)]
        /\ Notify(r, EventItem(event))
    BY <1>3 DEF Publish
  <2>2. Published(entry[r], event).kept = entry[r].kept
    BY <1>1 DEF Published, Entries
  <2>3. UNCHANGED Kept
    <3>1. \A q \in Runs : entry'[q].kept = entry[q].kept
      BY <1>1, <2>1, <2>2
    <3> QED  BY <3>1, KeptStands
  <2>4. Feed!Ended(r) => event \in Postscripts
    <3> SUFFICES ASSUME Feed!Ended(r) PROVE event.type = "recorded"
      BY <1>1 DEF Postscripts
    <3>1. entry[r].status # "running"
      BY EndedOrNot
    <3>2. Ending(driver[r])
      BY <3>1 DEF FeedInv, PageInv, EndedInv
    <3> QED  BY <1>1, <3>2 DEF Ending
  <2>5. UNCHANGED Following /\ UNCHANGED Permitted
    <3>1. EventItem(event) \in Items
      BY <1>1, ItemsTyped
    <3>2. \A v \in Viewers :
            IF v \in subscribed[r]
            THEN stream'[v] = [stream[v] EXCEPT !.queue = Append(stream[v].queue, EventItem(event))]
            ELSE stream'[v] = stream[v]
      BY <1>1, <2>1, <3>1, NotifyIs
    <3>3. \A v \in Viewers : stream[v] \in Streams
      BY <1>1
    <3> QED  BY <1>1, <3>2, <3>3, FollowingStands DEF Streams
  <2>6. r \in Kept
    BY <1>3 DEF Kept
  <2> HIDE DEF event
  <2> QED  BY <1>1, <2>1, <2>3, <2>4, <2>5, <2>6 DEF Feed!Publish
<1> QED  BY <1>2, <1>3

\* What is only previewed is no event of the feed.
LEMMA PublishTransientFeed ==
    ASSUME FeedInv, NEW r \in Runs, PublishTransient(r)
    PROVE  UNCHANGED Feed!feed
<1>1. /\ entry \in [Runs -> Entries] /\ stream \in [Viewers -> Streams]
      /\ \A v \in Viewers : stream[v] \in Streams
      /\ UNCHANGED <<account, log, scrubbed>>
  BY StreamTypes DEF PublishTransient, historyVars, FeedInv, StreamInv
<1>2. /\ \A q \in Runs : entry'[q].kept = entry[q].kept
      /\ \E item : Notify(r, item)
  <2>1. PICK n :
        \/ /\ entry' = [entry EXCEPT ![r].working = @ \cup {n}]
           /\ Notify(r, WorkingItem(n))
        \/ /\ entry' = [entry EXCEPT ![r].text = @ \o <<driver[r].sent + 1>>]
           /\ Notify(r, DeltaItem(<<driver[r].sent + 1>>))
        \/ /\ entry' = [entry EXCEPT ![r].text = <<>>]
           /\ Notify(r, ResetItem)
    BY DEF PublishTransient
  <2>2. entry[r] \in Entries
    BY <1>1
  <2> QED  BY <1>1, <2>1, <2>2 DEF Entries
<1>3. PICK item : Notify(r, item)
  BY <1>2
<1>4. \A v \in Viewers :
        \/ stream'[v] = stream[v]
        \/ stream'[v] = [stream[v] EXCEPT !.queue = Append(stream[v].queue, item)]
  BY <1>3 DEF Notify
<1>5. UNCHANGED Following /\ UNCHANGED Permitted
  BY <1>1, <1>4, FollowingStands DEF Streams
<1>6. UNCHANGED Kept
  BY <1>2, KeptStands
<1> QED  BY <1>1, <1>5, <1>6 DEF Feed!feed

\* Access that is given or taken away.
LEMMA ChangeAccountFeed ==
    ASSUME FeedInv, NEW acc, ChangeAccount(acc)
    PROVE  Feed!ChangeAccess
<1> DEFINE Loses(v) == stream[v].pc # "closed" /\ Allowed(v, account) /\ ~Allowed(v, acc)
<1>1. /\ account' = acc /\ stream \in [Viewers -> Streams]
      /\ \A v \in Viewers : stream[v] \in Streams
      /\ stream' = [v \in Viewers |->
            IF Loses(v) THEN [stream[v] EXCEPT !.cut = Len(log[stream[v].run])] ELSE stream[v]]
      /\ UNCHANGED <<entry, log, scrubbed>>
  BY StreamTypes DEF ChangeAccount, registryVars, historyVars, FeedInv, StreamInv
<1> HIDE DEF Loses
<1>2. \A v \in Viewers :
        /\ stream'[v].pc = stream[v].pc /\ stream'[v].run = stream[v].run
        /\ stream'[v].from = stream[v].from /\ stream'[v].got = stream[v].got
  <2> SUFFICES ASSUME NEW v \in Viewers
               PROVE  /\ stream'[v].pc = stream[v].pc /\ stream'[v].run = stream[v].run
                      /\ stream'[v].from = stream[v].from /\ stream'[v].got = stream[v].got
    OBVIOUS
  <2>1. stream[v] \in Streams
    BY <1>1
  <2>2. \/ stream'[v] = stream[v]
        \/ stream'[v] = [stream[v] EXCEPT !.cut = Len(log[stream[v].run])]
    BY <1>1
  <2> QED  BY <2>1, <2>2 DEF Streams
<1>3. UNCHANGED Kept
  BY <1>1, KeptStands
<1>4. UNCHANGED Following
  <2>1. \A v \in Viewers : ReaderOf(stream'[v]) = ReaderOf(stream[v])
    BY <1>2 DEF ReaderOf
  <2> QED  BY <2>1 DEF Following
<1>5. Permitted' \in SUBSET {v \in Viewers : Following[v].pc = "following"}
  <2>1. \A v \in Permitted' : v \in Viewers /\ stream[v].pc = "streaming"
    BY <1>2 DEF Permitted, Streaming
  <2>2. \A v \in Viewers : stream[v].pc = "streaming" => Following[v].pc = "following"
    BY DEF Following, ReaderOf
  <2> QED  BY <2>1, <2>2
<1> QED  BY <1>1, <1>3, <1>4, <1>5 DEF Feed!ChangeAccess

\* A stream that does not follow a run, before or after.
LEMMA AwayFeed ==
    ASSUME FeedInv, NEW v \in Viewers, NEW s, stream[v].pc # "streaming", s.pc # "streaming",
           stream' = [stream EXCEPT ![v] = s], UNCHANGED <<entry, log, scrubbed, account>>
    PROVE  UNCHANGED Feed!feed
<1>1. stream \in [Viewers -> Streams]
  BY StreamTypes DEF FeedInv, StreamInv
<1>2. /\ Following' = [Following EXCEPT ![v] = Away] /\ Following[v] = Away
      /\ DOMAIN Following = Viewers
      /\ \A u \in Viewers \ {v} : u \in Permitted' <=> u \in Permitted
      /\ v \notin Permitted' /\ v \notin Permitted
      /\ Permitted' \subseteq Viewers /\ Permitted \subseteq Viewers
  BY <1>1, OneFollows DEF ReaderOf, Following, Permitted, Streaming
<1>3. UNCHANGED Following /\ UNCHANGED Permitted
  BY <1>2 DEF Following
<1>4. UNCHANGED Kept
  BY KeptStands
<1> QED  BY <1>3, <1>4 DEF Feed!feed

LEMMA TicketFeed ==
    ASSUME FeedInv, NEW v \in Viewers, IssueTicket(v) \/ \E r \in Runs : Connect(v, r)
    PROVE  UNCHANGED Feed!feed
<1>1. stream \in [Viewers -> Streams] /\ stream[v] \in Streams
  BY StreamTypes DEF FeedInv, StreamInv
<1>2. UNCHANGED <<entry, log, scrubbed, account>> /\ stream[v].pc # "streaming"
  BY DEF IssueTicket, Connect, registryVars, Unchanging, historyVars
<1>3. \E s : stream' = [stream EXCEPT ![v] = s] /\ s.pc # "streaming"
  <2>1. CASE stream' = [stream EXCEPT ![v].pc = "ticket", ![v].stamp = account.stamp]
    <3> DEFINE s == [stream[v] EXCEPT !.pc = "ticket", !.stamp = account.stamp]
    <3>1. s.pc = "ticket" /\ stream' = [stream EXCEPT ![v] = s]
      BY <1>1, <2>1 DEF Streams
    <3> HIDE DEF s
    <3> QED  BY <3>1
  <2>2. ASSUME NEW r \in Runs, stream' = [stream EXCEPT ![v].pc = "accepted", ![v].run = r]
        PROVE  \E s : stream' = [stream EXCEPT ![v] = s] /\ s.pc # "streaming"
    <3> DEFINE s == [stream[v] EXCEPT !.pc = "accepted", !.run = r]
    <3>1. s.pc = "accepted" /\ stream' = [stream EXCEPT ![v] = s]
      BY <1>1, <2>2 DEF Streams
    <3> HIDE DEF s
    <3> QED  BY <3>1
  <2>3. CASE stream' = [stream EXCEPT ![v] = [Closed EXCEPT !.pc = "closed"]]
    <3>1. [Closed EXCEPT !.pc = "closed"].pc # "streaming"
      BY StreamsTyped
    <3> QED  BY <2>3, <3>1
  <2> QED  BY <2>1, <2>2, <2>3 DEF IssueTicket, Connect
<1> QED  BY <1>2, <1>3, AwayFeed

\* A subscriber follows from what a purge has left.
LEMMA SubscribeFeed ==
    ASSUME FeedInv, NEW v \in Viewers, Subscribe(v)
    PROVE  Feed!Follow \/ UNCHANGED Feed!feed
<1> DEFINE q == stream[v].run
<1>1. /\ stream \in [Viewers -> Streams] /\ stream[v] \in Streams /\ q \in Runs
      /\ CutInv /\ stream[v].pc = "accepted"
      /\ UNCHANGED <<entry, log, scrubbed, account>>
  BY StreamTypes DEF FeedInv, StreamInv, Streams, Subscribe, Unchanging, historyVars
<1>2. CASE ~entry[q].kept
  <2>1. /\ stream' = [stream EXCEPT ![v] = [Closed EXCEPT !.pc = "closed"]]
        /\ [Closed EXCEPT !.pc = "closed"].pc # "streaming"
    BY <1>2, StreamsTyped DEF Subscribe
  <2> HIDE DEF q
  <2> QED  BY <1>1, <2>1, AwayFeed
<1>3. CASE entry[q].kept
  <2> DEFINE queue == Replay(entry[q])
             s == [stream[v] EXCEPT !.pc = "streaming", !.queue = queue, !.from = scrubbed[q]]
  <2>1. stream' = [stream EXCEPT ![v] = s]
    BY <1>3 DEF Subscribe
  <2> HIDE DEF queue
  <2>2. /\ s.pc = "streaming" /\ s.run = q /\ s.from = scrubbed[q] /\ s.got = <<>>
    BY <1>1 DEF Streams, CutInv
  <2> HIDE DEF s
  <2>3. ReaderOf(s) = [pc |-> "following", run |-> q, from |-> scrubbed[q], got |-> <<>>]
    BY <2>2 DEF ReaderOf
  <2>4. Following[v].pc = "away"
    BY <1>1 DEF Following, ReaderOf, Away
  <2>5. /\ Following' = [Following EXCEPT ![v] = ReaderOf(s)]
        /\ \A u \in Viewers \ {v} : u \in Permitted' <=> u \in Permitted
        /\ Permitted' \subseteq Viewers /\ Permitted \subseteq Viewers
    BY <1>1, <2>1, OneFollows
  <2>6. v \notin Permitted
    BY <1>1 DEF Permitted, Streaming
  <2>7. Permitted' \in {Permitted, Permitted \cup {v}}
    BY <2>5, <2>6
  <2>8. q \in Kept /\ UNCHANGED Kept
    BY <1>1, <1>3, KeptStands DEF Kept
  <2> QED  BY <1>1, <2>3, <2>4, <2>5, <2>7, <2>8 DEF Feed!Follow
<1> QED  BY <1>2, <1>3

\* What a stream is sent is the next event of its run, or no event.
LEMMA DeliverFeed ==
    ASSUME FeedInv, NEW v \in Viewers, Deliver(v)
    PROVE  Feed!Read \/ Feed!Leave \/ UNCHANGED Feed!feed
<1> DEFINE s == stream[v]
           q == s.run
           item == Head(s.queue)
           rest == [s EXCEPT !.queue = Tail(s.queue)]
           shown == Shown(rest, item)
           over == IF Allowed(v, account) THEN [Closed EXCEPT !.pc = "closed"]
                   ELSE [s EXCEPT !.pc = "closed", !.queue = <<>>, !.screen = <<>>, !.strip = {}]
           final == [over EXCEPT !.got = IF Allowed(v, account) THEN @ ELSE shown.got]
<1>1. /\ stream \in [Viewers -> Streams] /\ s \in Streams /\ q \in Runs
      /\ ViewerSeesTheLog /\ log[q] \in Seq(Events) /\ Len(log[q]) \in Nat
  BY StreamTypes DEF FeedInv, StreamInv, Streams
<1>2. /\ s.pc = "streaming" /\ s.queue # <<>>
      /\ UNCHANGED <<entry, log, scrubbed, account>>
  BY DEF Deliver, Unchanging, historyVars
<1>3. Follows(s, log[q])
  BY <1>1, <1>2 DEF ViewerSeesTheLog, Streaming
<1>4. /\ shown \in Streams /\ shown.pc = "streaming" /\ shown.run = q /\ shown.stamp = s.stamp
      /\ Follows(shown, log[q])
  BY <1>1, <1>2, <1>3, FollowsADelivery
<1>5. /\ item \in Items /\ Tail(s.queue) \in Seq(Items)
  <2>1. s.queue \in Seq(Items)
    BY <1>1 DEF Streams
  <2> QED  BY <1>2, <2>1, HeadTailProperties
<1>6. /\ shown.from = s.from
      /\ shown.got = IF item.kind = "event" THEN Append(s.got, item.event) ELSE s.got
  <2>1. rest \in Streams /\ rest.from = s.from /\ rest.got = s.got
    BY <1>1, <1>5 DEF Streams
  <2> HIDE DEF rest, item
  <2> QED  BY <1>5, <2>1, ShownIs
<1>7. \/ /\ MaySend(v) /\ stream' = [stream EXCEPT ![v] = shown]
      \/ stream' = [stream EXCEPT ![v] = final] \/ stream' = [stream EXCEPT ![v] = over]
  BY DEF Deliver
<1> HIDE DEF shown, item, rest
<1>8. final.pc = "closed" /\ over.pc = "closed"
  <2>1. CASE Allowed(v, account)
    BY <2>1 DEF Closed
  <2>2. CASE ~Allowed(v, account)
    BY <1>1, <2>2 DEF Streams
  <2> QED  BY <2>1, <2>2
<1> HIDE DEF final, over
<1>9. Following[v] = [pc |-> "following", run |-> q, from |-> s.from, got |-> s.got]
  BY <1>2 DEF Following, ReaderOf
<1>10. DOMAIN Following = Viewers /\ UNCHANGED Kept
  BY <1>2, KeptStands DEF Following
<1>11. ASSUME NEW t, t.pc = "closed", stream' = [stream EXCEPT ![v] = t]
       PROVE  Feed!Leave
  <2>1. ReaderOf(t) = Away
    BY <1>11 DEF ReaderOf
  <2>2. /\ Following' = [Following EXCEPT ![v] = Away]
        /\ \A u \in Viewers \ {v} : u \in Permitted' <=> u \in Permitted
        /\ v \notin Permitted' /\ Permitted' \subseteq Viewers /\ Permitted \subseteq Viewers
    BY <1>1, <1>2, <1>11, <2>1, OneFollows
  <2>3. Permitted' = Permitted \ {v}
    BY <2>2
  <2>4. Following[v].pc = "following" /\ UNCHANGED <<Kept, log, scrubbed>>
    BY <1>2, <1>9, <1>10
  <2>5. Away = Feed!Away
    BY DEF Away, Feed!Away
  <2> HIDE DEF s, q
  <2> QED  BY <2>2, <2>3, <2>4, <2>5 DEF Feed!Leave
<1>12. CASE MaySend(v) /\ stream' = [stream EXCEPT ![v] = shown]
  <2>1. v \in Permitted
    BY <1>2, <1>12 DEF MaySend, Permitted, Streaming
  <2>2. ReaderOf(shown) = [pc |-> "following", run |-> q, from |-> s.from, got |-> shown.got]
    BY <1>4, <1>6 DEF ReaderOf
  <2>3. /\ Following' = [Following EXCEPT ![v] = ReaderOf(shown)]
        /\ \A u \in Viewers \ {v} : u \in Permitted' <=> u \in Permitted
        /\ Permitted' \subseteq Viewers /\ Permitted \subseteq Viewers
        /\ v \in Permitted' <=> /\ shown.pc = "streaming" /\ account.active
                                /\ IF v \in Members THEN shown.stamp = account.stamp ELSE account.link
    BY <1>1, <1>2, <1>12, OneFollows
  <2>4. v \in Permitted'
    BY <1>4, <1>12, <2>3 DEF MaySend, Allowed
  <2>5. UNCHANGED Permitted
    BY <2>1, <2>3, <2>4
  <2>6. CASE item.kind # "event"
    <3>1. ReaderOf(shown) = Following[v]
      BY <1>6, <1>9, <2>2, <2>6
    <3>2. UNCHANGED Following
      BY <1>10, <2>3, <3>1 DEF Following
    <3> QED  BY <1>2, <1>10, <2>5, <3>2 DEF Feed!feed
  <2>7. CASE item.kind = "event"
    <3> DEFINE n == Len(s.got)
               next == s.from + n + 1
               got == Append(s.got, item.event)
    <3>1. /\ s.got \in Seq(Events) /\ item.event \in Events /\ s.from \in Nat
          /\ shown.got = got /\ n \in Nat
          /\ Len(got) = n + 1 /\ got[n + 1] = item.event
      <4>1. s.got \in Seq(Events) /\ item.event \in Events /\ s.from \in Nat
        BY <1>1, <1>5 DEF Streams, Items
      <4> QED  BY <1>6, <2>7, <4>1, AppendProperties, LenProperties
    <3> HIDE DEF got
    <3>2. Cardinality(Waiting(shown)) \in Nat
      BY <1>4, WaitingIs
    <3>3. n + 1 \in 1..Len(shown.got)
      BY <3>1
    <3>4. shown.got[n + 1] = log[q][s.from + (n + 1)]
      BY <1>4, <1>6, <3>3 DEF Follows
    <3>5. Len(log[q]) = s.from + (n + 1) + Cardinality(Waiting(shown))
      BY <1>4, <1>6, <3>1 DEF Follows
    <3>6. next <= Len(log[q]) /\ next = s.from + (n + 1)
      <4> DEFINE c == Cardinality(Waiting(shown))
                 from == s.from
                 len == Len(log[q])
      <4>1. c \in Nat /\ from \in Nat /\ n \in Nat /\ len = from + (n + 1) + c
        BY <3>1, <3>2, <3>5
      <4>2. next = from + n + 1
        OBVIOUS
      <4> HIDE DEF c, from, n, len, next
      <4>3. next <= len /\ next = from + (n + 1)
        BY <4>1, <4>2
      <4> QED  BY <4>3 DEF len, from
    <3>7. shown.got = Append(s.got, log[q][next])
      BY <3>1, <3>4, <3>6 DEF got
    <3>8. Following' = [Following EXCEPT ![v].got = Append(@, log[q][next])]
      <4>1. ReaderOf(shown) = [Following[v] EXCEPT !.got = Append(s.got, log[q][next])]
        <5> DEFINE more == Append(s.got, log[q][next])
                   a == s.got
                   from == s.from
        <5>1. /\ Following[v] = [pc |-> "following", run |-> q, from |-> from, got |-> a]
              /\ ReaderOf(shown) = [pc |-> "following", run |-> q, from |-> from, got |-> more]
          BY <1>9, <2>2, <3>7
        <5> HIDE DEF more, a, from, q, s, next
        <5>2. [Following[v] EXCEPT !.got = more]
                = [pc |-> "following", run |-> q, from |-> from, got |-> more]
          BY <5>1
        <5> QED  BY <5>1, <5>2 DEF more
      <4>2. Following[v].got = s.got
        BY <1>9
      <4> QED  BY <1>10, <2>3, <4>1, <4>2
    <3>9. Following[v].from = s.from /\ Following[v].got = s.got /\ Following[v].run = q
      BY <1>9
    <3> QED  BY <1>2, <1>10, <2>1, <2>5, <3>6, <3>8, <3>9 DEF Feed!Read
  <2> QED  BY <2>6, <2>7
<1> QED  BY <1>7, <1>8, <1>11, <1>12

\* A restart forgets every run and closes every stream.
LEMMA RestartFeed ==
    ASSUME Restart
    PROVE  Feed!Crash
<1>1. /\ entry' = [r \in Runs |-> NoEntry] /\ stream' = [v \in Viewers |-> Closed]
      /\ log' = [r \in Runs |-> <<>>] /\ scrubbed' = [r \in Runs |-> 0]
  BY DEF Restart
<1>2. NoEntry.kept = FALSE /\ Closed.pc = "none"
  BY DEF NoEntry, Closed
<1>3. Kept' = {}
  BY <1>1, <1>2 DEF Kept
<1>4. Following' = [v \in Viewers |-> Feed!Away]
  <2>1. \A v \in Viewers : ReaderOf(stream'[v]) = Feed!Away
    BY <1>1, <1>2 DEF ReaderOf, Away, Feed!Away
  <2> QED  BY <2>1 DEF Following
<1>5. Permitted' = {}
  BY <1>1, <1>2 DEF Permitted, Streaming
<1> QED  BY <1>1, <1>3, <1>4, <1>5 DEF Feed!Crash

LEMMA StreamInitFeed == StreamInit => Feed!Init
<1> SUFFICES ASSUME StreamInit PROVE Feed!Init
  OBVIOUS
<1>1. /\ entry = [r \in Runs |-> NoEntry] /\ stream = [v \in Viewers |-> Closed]
      /\ log = [r \in Runs |-> <<>>] /\ scrubbed = [r \in Runs |-> 0]
  BY DEF StreamInit
<1>2. NoEntry.kept = FALSE /\ Closed.pc = "none"
  BY DEF NoEntry, Closed
<1>3. Kept = {}
  BY <1>1, <1>2 DEF Kept
<1>4. Following = [v \in Viewers |-> Feed!Away]
  <2>1. \A v \in Viewers : ReaderOf(stream[v]) = Feed!Away
    BY <1>1, <1>2 DEF ReaderOf, Away, Feed!Away
  <2> QED  BY <2>1 DEF Following
<1>5. Permitted = {}
  BY <1>1, <1>2 DEF Permitted, Streaming
<1> QED  BY <1>1, <1>3, <1>4, <1>5 DEF Feed!Init

\* Cancelling, and what a worker does besides publishing, is nothing the feed tells.
LEMMA OtherFeed ==
    ASSUME FeedInv, NEW r \in Runs,
           CancelRun(r) \/ PersistRow(r) \/ Pull(r) \/ Commit(r) \/ Salvage(r) \/ RecordTrace(r)
    PROVE  UNCHANGED Feed!feed /\ OverInv'
<1>1. entry \in [Runs -> Entries]
  BY StreamTypes DEF FeedInv, StreamInv
<1>2. CASE CancelRun(r)
  <2>1. UNCHANGED <<log, scrubbed, stream, account>> /\ entry' = [entry EXCEPT ![r].cancel = TRUE]
    BY <1>2 DEF CancelRun, historyVars
  <2>2. \A q \in Runs : entry'[q].kept = entry[q].kept /\ entry'[q].status = entry[q].status
    BY <1>1, <2>1 DEF Entries
  <2>3. OverInv'
    BY <2>1, <2>2 DEF FeedInv, OverInv
  <2> QED  BY <2>1, <2>2, <2>3, FeedStands
<1>3. CASE PersistRow(r) \/ Pull(r) \/ Commit(r) \/ Salvage(r) \/ RecordTrace(r)
  <2>1. UNCHANGED <<log, scrubbed, stream, account, entry>>
    BY <1>3 DEF PersistRow, Pull, Commit, Salvage, RecordTrace, registryVars, historyVars
  <2>2. OverInv'
    BY <2>1 DEF FeedInv, OverInv
  <2> QED  BY <2>1, <2>2, FeedStands
<1> QED  BY <1>2, <1>3

LEMMA PublishOver ==
    ASSUME FeedInv, NEW r \in Runs, Publish(r)
    PROVE  OverInv'
<1> DEFINE event == driver[r].event
<1>1. /\ event \in Events /\ entry \in [Runs -> Entries]
      /\ log \in [Runs -> Seq(Events)] /\ OverInv
  BY StreamTypes DEF FeedInv, StreamInv
<1>2. CASE ~entry[r].kept
  <2>1. UNCHANGED <<entry, log>>
    BY <1>2 DEF Publish
  <2> QED  BY <1>1, <2>1 DEF OverInv
<1>3. CASE entry[r].kept
  <2>1. /\ entry' = [entry EXCEPT ![r] = Published(entry[r], event)]
        /\ log' = [log EXCEPT ![r] = Append(log[r], event)]
    BY <1>3 DEF Publish
  <2> HIDE DEF event
  <2>2. Published(entry[r], event).status = IF Terminal(event) THEN event.type ELSE entry[r].status
    BY <1>1 DEF Published, Entries
  <2>3. /\ Len(Append(log[r], event)) = Len(log[r]) + 1 /\ Len(log[r]) \in Nat
        /\ Append(log[r], event)[Len(log[r]) + 1] = event
        /\ \A i \in 1..Len(log[r]) : Append(log[r], event)[i] = log[r][i]
    BY <1>1, AppendProperties, LenProperties
  <2>4. ASSUME entry'[r].status # "running"
        PROVE  \E i \in 1..Len(log'[r]) : Terminal(log'[r][i])
    <3>1. log'[r] = Append(log[r], event)
      BY <1>1, <2>1
    <3>2. CASE Terminal(event)
      <4>1. Len(log[r]) + 1 \in 1..Len(log'[r])
        BY <2>3, <3>1
      <4> QED  BY <2>3, <3>1, <3>2, <4>1
    <3>3. CASE ~Terminal(event)
      <4>1. entry[r].status # "running"
        BY <1>1, <2>1, <2>2, <2>4, <3>3
      <4>2. PICK i \in 1..Len(log[r]) : Terminal(log[r][i])
        BY <1>1, <1>3, <4>1 DEF OverInv
      <4>3. i \in 1..Len(log'[r]) /\ log'[r][i] = log[r][i]
        BY <2>3, <3>1
      <4> QED  BY <4>2, <4>3
    <3> QED  BY <3>2, <3>3
  <2>5. \A q \in Runs \ {r} : entry'[q] = entry[q] /\ log'[q] = log[q]
    BY <1>1, <2>1
  <2> QED  BY <1>1, <2>4, <2>5 DEF OverInv
<1> QED  BY <1>2, <1>3

LEMMA RequestOver ==
    ASSUME FeedInv, NEW r \in Runs, CreateRun(r) \/ PurgeRun(r)
    PROVE  OverInv'
<1>1. entry \in [Runs -> Entries] /\ log \in [Runs -> Seq(Events)] /\ OverInv
  BY StreamTypes DEF FeedInv, StreamInv
<1>2. CASE CreateRun(r)
  <2> DEFINE new == [NoEntry EXCEPT !.kept = TRUE]
             entries == [entry EXCEPT ![r] = new]
             gone == Evicted(entries, Append(order, r))
  <2>1. /\ entry' = [q \in Runs |-> IF q \in gone THEN NoEntry ELSE entries[q]]
        /\ log' = [q \in Runs |-> IF q \in gone THEN <<>> ELSE log[q]]
    BY <1>2 DEF CreateRun
  <2>2. NoEntry.status = "running" /\ new.status = "running"
    BY EntriesTyped DEF NoEntry
  <2> HIDE DEF new
  <2>3. \A q \in Runs : entries[q] = IF q = r THEN new ELSE entry[q]
    BY <1>1
  <2> HIDE DEF entries
  <2> HIDE DEF gone
  <2>4. ASSUME NEW q \in Runs, entry'[q].kept, entry'[q].status # "running"
        PROVE  \E i \in 1..Len(log'[q]) : Terminal(log'[q][i])
    <3>1. entry'[q] = entry[q] /\ log'[q] = log[q]
      BY <2>1, <2>2, <2>3, <2>4
    <3> QED  BY <1>1, <2>4, <3>1 DEF OverInv
  <2> QED  BY <2>4 DEF OverInv
<1>3. CASE PurgeRun(r)
  <2>1. entry' = [entry EXCEPT ![r] = Forgotten(entry[r])] /\ UNCHANGED log
    BY <1>3 DEF PurgeRun
  <2>2. Forgotten(entry[r]).kept = entry[r].kept /\ Forgotten(entry[r]).status = entry[r].status
    BY <1>1 DEF Forgotten, Entries
  <2>3. \A q \in Runs : entry'[q].kept = entry[q].kept /\ entry'[q].status = entry[q].status
    BY <1>1, <2>1, <2>2
  <2> QED  BY <1>1, <2>1, <2>3 DEF OverInv
<1> QED  BY <1>2, <1>3

\* Every step is a step of the feed or none.
LEMMA FeedStep ==
    FeedInv /\ [StreamNext]_streamVars => [Feed!Next]_Feed!feed /\ OverInv'
<1> SUFFICES ASSUME FeedInv, [StreamNext]_streamVars
             PROVE  [Feed!Next]_Feed!feed /\ OverInv'
  OBVIOUS
<1> USE DEF Feed!Next
<1>1. ASSUME UNCHANGED <<entry, log>>
      PROVE  OverInv'
  BY <1>1 DEF FeedInv, OverInv
<1>2. CASE UNCHANGED streamVars
  <2>1. UNCHANGED <<entry, log, scrubbed, stream, account>>
    BY <1>2 DEF streamVars
  <2> QED  BY <1>1, <2>1, FeedStands
<1>3. CASE \E r \in Runs : CreateRun(r)
  BY <1>3, CreateRunFeed, RequestOver
<1>4. CASE \E r \in Runs : CancelRun(r)
  BY <1>4, OtherFeed
<1>5. CASE \E r \in Runs : PurgeRun(r)
  BY <1>5, PurgeRunFeed, RequestOver
<1>6. CASE \E r \in Runs : Worker(r)
  BY <1>6, OtherFeed, PublishFeed, PublishOver DEF Worker
<1>7. CASE \E r \in Runs : PublishTransient(r)
  <2> PICK r \in Runs : PublishTransient(r)
    BY <1>7
  <2>1. /\ UNCHANGED log
        /\ \/ \E w : entry' = [entry EXCEPT ![r].working = w]
           \/ \E t : entry' = [entry EXCEPT ![r].text = t]
    BY DEF PublishTransient, historyVars
  <2>2. entry \in [Runs -> Entries] /\ OverInv
    BY StreamTypes DEF FeedInv, StreamInv
  <2>3. \A q \in Runs : entry'[q].kept = entry[q].kept /\ entry'[q].status = entry[q].status
    <3>1. entry[r] \in Entries
      BY <2>2
    <3>2. CASE \E w : entry' = [entry EXCEPT ![r].working = w]
      BY <2>2, <3>1, <3>2 DEF Entries
    <3>3. CASE \E t : entry' = [entry EXCEPT ![r].text = t]
      BY <2>2, <3>1, <3>3 DEF Entries
    <3> QED  BY <2>1, <3>2, <3>3
  <2> QED  BY <2>1, <2>2, <2>3, PublishTransientFeed DEF OverInv
<1>8. CASE \E v \in Viewers : IssueTicket(v) \/ (\E r \in Runs : Connect(v, r))
  <2>1. UNCHANGED <<entry, log>>
    BY <1>8 DEF IssueTicket, Connect, registryVars, Unchanging, historyVars
  <2> QED  BY <1>1, <1>8, <2>1, TicketFeed
<1>9. CASE \E v \in Viewers : Subscribe(v) \/ Deliver(v)
  <2>1. UNCHANGED <<entry, log>>
    BY <1>9 DEF Subscribe, Deliver, Unchanging, historyVars
  <2> QED  BY <1>1, <1>9, <2>1, SubscribeFeed, DeliverFeed
<1>10. CASE ResetPassword \/ ToggleOrg \/ RevokeLink
  <2>1. PICK acc : ChangeAccount(acc)
    BY <1>10 DEF ResetPassword, ToggleOrg, RevokeLink
  <2>2. UNCHANGED <<entry, log>>
    BY <2>1 DEF ChangeAccount, registryVars, historyVars
  <2> QED  BY <1>1, <2>1, <2>2, ChangeAccountFeed
<1>11. CASE Restart
  <2>1. \A r \in Runs : entry'[r].kept = FALSE
    BY <1>11 DEF Restart, NoEntry
  <2>2. OverInv'
    BY <2>1 DEF OverInv
  <2> QED  BY <1>11, <2>2, RestartFeed
<1> QED  BY <1>2, <1>3, <1>4, <1>5, <1>6, <1>7, <1>8, <1>9, <1>10, <1>11 DEF StreamNext

THEOREM FeedInvariance == StreamSpec => []FeedInv
<1>1. StreamInit => OverInv
  <2>1. NoEntry.kept = FALSE
    BY DEF NoEntry
  <2> QED  BY <2>1 DEF StreamInit, OverInv
<1>2. StreamInv /\ PageInv /\ OverInv <=> FeedInv
  BY DEF FeedInv
<1>3. StreamInv /\ PageInv /\ OverInv /\ [StreamNext]_streamVars => OverInv'
  BY <1>2, FeedStep
<1>4. StreamSpec => []OverInv
  BY <1>1, <1>3, StreamInvariance, PageInvariance, PTL DEF StreamSpec
<1> QED  BY <1>2, <1>4, StreamInvariance, PageInvariance, PTL

\* The workers, the registry and the streams keep the promise of the feeds, for any
\* runs, viewers, nodes and bounds: a run ends once, a reader is sent its events one by
\* one without a gap from where it subscribed, and only while it has access, and a run is
\* forgotten only when it is over and nobody follows it (registry.py, main.py stream_run).
THEOREM RefinesFeed == StreamSpec => ImplementsFeed
<1>1. StreamInit => Feed!Init
  BY StreamInitFeed
<1>2. FeedInv /\ [StreamNext]_streamVars => [Feed!Next]_Feed!feed
  BY FeedStep
<1> QED  BY <1>1, <1>2, FeedInvariance, PTL DEF ImplementsFeed, Feed!Spec, StreamSpec
=============================================================================
