---------------------------- MODULE InboxLedger ----------------------------
(***************************************************************************)
(* The durable per-message inbox ledger (ui/backend/db/inbox_events.py).   *)
(*                                                                         *)
(* A ledger is a function from message keys to rows.  A key is the table's *)
(* unique key: which mailbox, which UIDVALIDITY generation of it, which    *)
(* IMAP UID.  Every operator below is one helper of that file: it takes a  *)
(* ledger and returns the ledger its statement leaves.  None of them       *)
(* commits; the module that calls them decides where a step ends, as the   *)
(* callers of the helpers decide where a transaction ends.                 *)
(*                                                                         *)
(* An operator that nothing uses, with the parameters of the one after it, *)
(* is that operator with a plausible bug: properties are tried against it. *)
(***************************************************************************)
EXTENDS Integers, FiniteSets

CONSTANTS
    Mailboxes,      \* mailbox identities, "host:username"
    Generations,    \* UIDVALIDITY values a mailbox server can hand out
    Uids,           \* IMAP UIDs
    RunIds,         \* ids of runs
    NoRun,          \* the NULL of a run id column
    MaxAttempts     \* max_event_attempts()

ASSUME UidsAssumption == Uids \subseteq Nat \ {0} /\ IsFiniteSet(Uids)
ASSUME NoRunAssumption == NoRun \notin RunIds
ASSUME MaxAttemptsAssumption == MaxAttempts \in Nat \ {0}

Keys == [box : Mailboxes, gen : Generations, uid : Uids]

Statuses == {"absent", "pending", "claimed", "done", "failed", "filtered"}

\* "absent" stands for a key that has no row.
Rows == [status : Statuses, run : RunIds \cup {NoRun}, attempts : 0..MaxAttempts]

NoRow == [status |-> "absent", run |-> NoRun, attempts |-> 0]

Key(box, gen, uid) == [box |-> box, gen |-> gen, uid |-> uid]

----------------------------------------------------------------------------
\* Queries.

WithStatus(ledger, status) == {k \in Keys : ledger[k].status = status}

\* What claim_events may select: pending rows of one mailbox generation.
PendingOf(ledger, box, gen) ==
    {k \in WithStatus(ledger, "pending") : k.box = box /\ k.gen = gen}

ClaimedBy(ledger, r) == {k \in WithStatus(ledger, "claimed") : ledger[k].run = r}

\* ORDER BY id LIMIT n.  Rows of one mailbox generation are inserted in UID
\* order, so the oldest rows are those with the lowest UIDs.
Oldest(rows, n) == {k \in rows : Cardinality({j \in rows : j.uid < k.uid}) < n}

----------------------------------------------------------------------------
\* Detection.

RecordOnlyKept(ledger, box, gen, detected, filtered) ==
    [k \in Keys |->
        IF k.box = box /\ k.gen = gen /\ k.uid \in detected \ filtered
           /\ ledger[k].status = "absent"
        THEN [NoRow EXCEPT !.status = "pending"]
        ELSE ledger[k]]

\* record_events: insert or ignore; the filter's decision chooses the status
\* of a row, never whether there is one.
Record(ledger, box, gen, detected, filtered) ==
    [k \in Keys |->
        IF k.box = box /\ k.gen = gen /\ k.uid \in detected
           /\ ledger[k].status = "absent"
        THEN [NoRow EXCEPT !.status = IF k.uid \in filtered THEN "filtered" ELSE "pending"]
        ELSE ledger[k]]

----------------------------------------------------------------------------
\* Claiming and dispatching.

ClaimCharging(ledger, r, batch) ==
    [k \in Keys |->
        IF k \in batch
        THEN [ledger[k] EXCEPT !.status = "claimed", !.run = r, !.attempts = @ + 1]
        ELSE ledger[k]]

\* claim_events: one UPDATE; attempts are not charged here.
Claim(ledger, r, batch) ==
    [k \in Keys |->
        IF k \in batch THEN [ledger[k] EXCEPT !.status = "claimed", !.run = r]
        ELSE ledger[k]]

\* mark_dispatched: one attempt for every row the run holds.
MarkDispatched(ledger, r) ==
    [k \in Keys |->
        IF k \in ClaimedBy(ledger, r) THEN [ledger[k] EXCEPT !.attempts = @ + 1]
        ELSE ledger[k]]

----------------------------------------------------------------------------
\* Outcomes.

CompleteEveryClaim(ledger, r, done) ==
    [k \in Keys |->
        IF k \in WithStatus(ledger, "claimed")
        THEN [ledger[k] EXCEPT !.status = IF k.uid \in done THEN "done" ELSE "failed"]
        ELSE ledger[k]]

CompleteEverythingDone(ledger, r, done) ==
    [k \in Keys |->
        IF k \in ClaimedBy(ledger, r) THEN [ledger[k] EXCEPT !.status = "done"]
        ELSE ledger[k]]

\* complete_events: the run executed the model.  What has a draft is done, the
\* rest failed.
Complete(ledger, r, done) ==
    [k \in Keys |->
        IF k \in ClaimedBy(ledger, r)
        THEN [ledger[k] EXCEPT !.status = IF k.uid \in done THEN "done" ELSE "failed"]
        ELSE ledger[k]]

ReleaseForever(ledger, S) ==
    [k \in Keys |->
        IF k \in WithStatus(ledger, "claimed") /\ ledger[k].run \in S
        THEN [ledger[k] EXCEPT !.status = "pending", !.run = NoRun]
        ELSE ledger[k]]

ReleaseWhateverStatus(ledger, S) ==
    [k \in Keys |->
        IF ledger[k].run \in S THEN [ledger[k] EXCEPT !.status = "pending", !.run = NoRun]
        ELSE ledger[k]]

\* release_events for every run of S: hand the claims back, or dead-letter a
\* row that has used up its attempts.
Release(ledger, S) ==
    [k \in Keys |->
        IF k \in WithStatus(ledger, "claimed") /\ ledger[k].run \in S
        THEN IF ledger[k].attempts >= MaxAttempts
             THEN [ledger[k] EXCEPT !.status = "failed"]
             ELSE [ledger[k] EXCEPT !.status = "pending", !.run = NoRun]
        ELSE ledger[k]]

OfMailbox(box) == {k \in Keys : k.box = box}

OfGeneration(box, gen) == {k \in Keys : k.box = box /\ k.gen = gen}

\* abandon_superseded_events: waiting rows outside the current mailbox (or its
\* current generation) become terminal; claimed rows are left to their run.
Abandon(ledger, current) ==
    [k \in Keys |->
        IF ledger[k].status \in {"pending", "filtered"} /\ k \notin current
        THEN [ledger[k] EXCEPT !.status = "failed"]
        ELSE ledger[k]]

\* resolve_retry_events: only rows still FAILED under the original run move.
ResolveRetry(ledger, from, to, retry, done) ==
    [k \in Keys |->
        IF k \in WithStatus(ledger, "failed") /\ ledger[k].run = from
        THEN CASE k.uid \in done -> [ledger[k] EXCEPT !.status = "done"]
               [] k.uid \in retry \ done ->
                    [status |-> "claimed", run |-> to, attempts |-> 0]
               [] OTHER -> ledger[k]
        ELSE ledger[k]]

\* release_filtered_event: one status flip, guarded by the status alone.
ReleaseFiltered(ledger, k) ==
    [ledger EXCEPT ![k] = [@ EXCEPT !.status = "pending", !.run = NoRun]]
============================================================================
