------------------------------ MODULE EventFeed ------------------------------
(***************************************************************************)
(* What the registry and the WebSocket handlers promise about the events   *)
(* of a run, whatever workers, purges, evictions, lapses of access and     *)
(* restarts do: a run ends once, whoever follows it is sent its events one *)
(* by one without a gap from where they began to follow, and only while    *)
(* they may, and a run that is at work or followed is not forgotten.       *)
(***************************************************************************)
EXTENDS Naturals, Sequences

CONSTANTS
    Runs, Readers,
    Events,
    Endings,        \* the events that end a run,
    Postscripts     \* and those that may still come after one

VARIABLES
    held,       \* the runs there are events of
    published,
    hidden,     \* how many of a run's events a newcomer is not shown any more
    reader,     \* who follows which run, from where, and what they were sent
    permitted   \* the readers that may be sent more

feed == <<held, published, hidden, reader, permitted>>

Away == [pc |-> "away", run |-> CHOOSE r \in Runs : TRUE, from |-> 0, got |-> <<>>]

Init ==
    /\ held = {} /\ published = [r \in Runs |-> <<>>] /\ hidden = [r \in Runs |-> 0]
    /\ reader = [v \in Readers |-> Away] /\ permitted = {}

Ended(r) == \E i \in DOMAIN published[r] : published[r][i] \in Endings

Follows(v, r) == reader[v].pc = "following" /\ reader[v].run = r

\* A run begins, for which others that are over and that nobody follows may go.
Begin ==
    /\ UNCHANGED <<reader, permitted>>
    /\ \E r \in Runs \ held,
          S \in SUBSET {q \in held : Ended(q) /\ \A v \in Readers : ~Follows(v, q)} :
         /\ held' = (held \ S) \cup {r}
         /\ published' = [q \in Runs |-> IF q \in S THEN <<>> ELSE published[q]]
         /\ hidden' = [q \in Runs |-> IF q \in S THEN 0 ELSE hidden[q]]

Publish ==
    /\ UNCHANGED <<held, hidden, reader, permitted>>
    /\ \E r \in held, event \in Events :
         /\ Ended(r) => event \in Postscripts
         /\ published' = [published EXCEPT ![r] = Append(@, event)]

\* Of a run that is over, newcomers are shown nothing that was published so far.
Hide ==
    /\ UNCHANGED <<held, published, reader, permitted>>
    /\ \E r \in held : Ended(r) /\ hidden' = [hidden EXCEPT ![r] = Len(published[r])]

Follow ==
    /\ UNCHANGED <<held, published, hidden>>
    /\ \E v \in Readers, r \in held :
         /\ reader[v].pc = "away"
         /\ reader' = [reader EXCEPT ![v] =
                [pc |-> "following", run |-> r, from |-> hidden[r], got |-> <<>>]]
         /\ permitted' \in {permitted, permitted \cup {v}}

\* A reader that may is sent the next event.
Read ==
    /\ UNCHANGED <<held, published, hidden, permitted>>
    /\ \E v \in permitted :
         LET next == reader[v].from + Len(reader[v].got) + 1
         IN /\ next <= Len(published[reader[v].run])
            /\ reader' = [reader EXCEPT ![v].got = Append(@, published[reader[v].run][next])]

Leave ==
    /\ UNCHANGED <<held, published, hidden>>
    /\ \E v \in Readers :
         /\ reader[v].pc = "following"
         /\ reader' = [reader EXCEPT ![v] = Away] /\ permitted' = permitted \ {v}

\* Readers lose their access, or get it back.
ChangeAccess ==
    /\ UNCHANGED <<held, published, hidden, reader>>
    /\ permitted' \in SUBSET {v \in Readers : reader[v].pc = "following"}

\* Everything is forgotten.
Crash ==
    /\ held' = {} /\ published' = [r \in Runs |-> <<>>] /\ hidden' = [r \in Runs |-> 0]
    /\ reader' = [v \in Readers |-> Away] /\ permitted' = {}

Next == ChangeAccess \/ Begin \/ Publish \/ Hide \/ Follow \/ Read \/ Leave \/ Crash

Spec == Init /\ [][Next]_feed
=============================================================================
