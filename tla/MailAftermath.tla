---------------------------- MODULE MailAftermath ----------------------------
(***************************************************************************)
(* What becomes of the drafts of one triggered batch: the run that wrote   *)
(* them and its retries, the evidence they leave in the database, the      *)
(* customer who sends or deletes the drafts, the poller that looks for     *)
(* them in the mailbox afterwards, and the purge of old runs' content.     *)
(***************************************************************************)
EXTENDS Naturals

CONSTANTS
    Uids,           \* the messages of the batch
    MaxRuns,        \* bound: the original run and its retries
    MissThreshold,  \* MISS_THRESHOLD
    MaxMischances   \* bound: failed scans, lost rows, purges and drafts thrown away

ASSUME AftermathAssumption == MaxRuns \in Nat \ {0} /\ MissThreshold \in Nat \ {0}
                       /\ MaxMischances \in Nat

VARIABLES
    batchRun,   \* the Run rows of the family: status and the messages asked for
    contract,   \* the pipeline declares the result contract that gives every message an item row
    unreported, \* messages the nodes at work found drafted or drafted: their events are buffered
    observed,   \* the running run's confirmed_draft_message_ids, in memory
    evidence,   \* per run: messages its persisted trace events confirm a draft for
    items,      \* per run: its automation_item_results rows, by what they say of a draft
    outcome,    \* the DraftOutcome rows
    place,      \* where the latest draft for a message is
    clue,       \* whether a sent reply can be recognised
    look,       \* the poller's pass: idle, or the drafts it did not find
    redone,     \* messages drafted again after their draft had been sent
    excused,    \* messages whose evidence was lost or purged, or drafted twice for a failed scan
    untold,     \* messages drafted by a node that failed, or was cancelled, before it reported
    strayed,    \* messages whose draft the customer threw away once
    mischances

familyVars == <<batchRun, contract, unreported, observed, evidence, items>>
toldVars == <<redone, excused, untold>>
aftermathVars == <<familyVars, outcome, place, clue, look, toldVars, strayed, mischances>>

Ids == 1 .. MaxRuns
Statuses == {"none", "running", "failed", "completed"}
NoRun == [status |-> "none", uids |-> {}]
NoOutcome == [status |-> "none", miss |-> 0]
Away == {"outbox", "late", "sent"}
NotLooking == [on |-> FALSE, gone |-> {}]

AftermathInit ==
    /\ batchRun = [r \in Ids |-> IF r = 1 THEN [status |-> "running", uids |-> Uids] ELSE NoRun]
    /\ contract \in BOOLEAN /\ unreported = {} /\ observed = {} /\ evidence = [r \in Ids |-> {}]
    /\ items = [r \in Ids |-> [u \in Uids |-> "none"]] /\ outcome = [u \in Uids |-> NoOutcome]
    /\ place = [u \in Uids |-> "nowhere"] /\ clue = [u \in Uids |-> FALSE] /\ look = NotLooking
    /\ redone = {} /\ excused = {} /\ untold = {} /\ strayed = {} /\ mischances = 0

AftermathTypeOK ==
    /\ batchRun \in [Ids -> [status : Statuses, uids : SUBSET Uids]]
    /\ \A r, q \in Ids : batchRun[r].status = "running" /\ batchRun[q].status = "running" => r = q
    /\ contract \in BOOLEAN /\ unreported \cup observed \subseteq Uids /\ evidence \in [Ids -> SUBSET Uids]
    /\ items \in [Ids -> [Uids -> {"none", "drafted", "plain"}]]
    /\ outcome \in [Uids -> [status : {"none", "pending", "sent", "handled", "unknown"}, miss : 0 .. MissThreshold]]
    /\ place \in [Uids -> {"nowhere", "drafts", "outbox", "late", "sent", "trash"}]
    /\ clue \in [Uids -> BOOLEAN]
    /\ look \in [on : BOOLEAN, gone : SUBSET Uids]
    /\ redone \cup excused \cup untold \cup strayed \subseteq Uids /\ mischances \in 0 .. MaxMischances

----------------------------------------------------------------------------
(* Runs.                                                                   *)

\* Faulty: only the run's own evidence.
FamilyOfOne(r) == {r}

\* _retry_family_run_ids: the original run and every retry down from it.
Family(r) == {q \in Ids : batchRun[q].status # "none"}

\* A step that goes wrong, or not; MaxMischances of them may.
Mischance(wrong) ==
    /\ wrong => mischances < MaxMischances
    /\ mischances' = IF wrong THEN mischances + 1 ELSE mischances

\* already_drafted_uids: trace events and item rows of the family, either will do.
DraftedBy(rs, rows) == UNION {evidence[q] \cup {u \in Uids : rows[q][u] = "drafted"} : q \in rs}

Drafted(r) == DraftedBy(Family(r), items) \cap batchRun[r].uids

\* Asked of the run, and none of its nodes has dealt with it.
Undealt(r) == IF batchRun[r].status = "running" THEN batchRun[r].uids \ (observed \cup unreported) ELSE {}

\* _draft_once, in a node of a run that has not drafted the message yet.  The scan of
\* Drafts is advisory: when it fails the draft is written.  The tool_completed event
\* waits in the node's buffer.
WriteDraft(r, u) ==
    /\ u \in Undealt(r) /\ unreported' = unreported \cup {u}
    /\ \E scanned \in BOOLEAN : (scanned => place[u] # "drafts") /\ Mischance(~scanned)
    /\ excused' = IF place[u] # "drafts" THEN excused ELSE excused \cup {u}
    /\ redone' = IF place[u] \in Away THEN redone \cup {u} ELSE redone
    /\ place' = [place EXCEPT ![u] = "drafts"] /\ clue' = [clue EXCEPT ![u] = FALSE]
    /\ UNCHANGED <<batchRun, contract, observed, evidence, items, outcome, look, untold, strayed>>

\* The scan finds a draft: nothing is written, and the message counts as drafted.
FindDraft(r, u) ==
    /\ u \in Undealt(r) /\ place[u] = "drafts" /\ unreported' = unreported \cup {u}
    /\ UNCHANGED <<batchRun, contract, observed, evidence, items, outcome, place, clue, look, toldVars,
                   strayed, mischances>>

\* The node has returned, and so have its siblings in a parallel team: the worker reads
\* one of the events they yield, and may fail to persist it.
Report(r, u) ==
    /\ batchRun[r].status = "running" /\ u \in unreported
    /\ unreported' = unreported \ {u} /\ observed' = observed \cup {u}
    /\ \E persisted \in BOOLEAN :
         /\ Mischance(~persisted)
         /\ evidence' = [evidence EXCEPT ![r] = IF persisted THEN @ \cup {u} ELSE @]
    /\ UNCHANGED <<batchRun, contract, items, outcome, place, clue, look, toldVars, strayed>>

\* normalize_run_result: a row for every message of a declared batch, whatever the model
\* wrote of it; what it says of a draft is what the given set confirms.
Normalized(r, confirmed) ==
    [items EXCEPT ![r] = [u \in Uids |-> IF u \notin batchRun[r].uids \/ @[u] # "none" THEN @[u]
                                         ELSE IF u \in confirmed THEN "drafted" ELSE "plain"]]

\* How the rows come out when the run ends: its worker writes them with what it saw;
\* the restart that finds the run dead confirms nothing; a write may be rolled back.
RowsAfter(r, end) ==
    IF ~contract \/ end = "lost" THEN items
    ELSE Normalized(r, IF end = "finished" THEN observed ELSE {})

\* The row is terminal, the items are written, then the draft outcomes from both
\* kinds of evidence.  A run that fails or is cancelled takes with it what its nodes
\* have not reported; one that completes has heard all of them.
EndBatch(r) ==
    /\ batchRun[r].status = "running"
    /\ \E s \in {"failed", "completed"}, end \in {"finished", "lost", "interrupted"} :
         /\ Mischance(end # "finished") /\ (end = "interrupted" => s = "failed")
         /\ s = "completed" => unreported = {}
         /\ batchRun' = [batchRun EXCEPT ![r].status = s]
         /\ items' = RowsAfter(r, end)
         /\ outcome' = [u \in Uids |->
              IF /\ end # "interrupted" /\ outcome[u].status = "none"
                 /\ u \in batchRun[r].uids \cap DraftedBy(Family(r), items')
              THEN [status |-> "pending", miss |-> 0] ELSE outcome[u]]
         /\ excused' = excused \cup (observed \ DraftedBy({r}, items'))
                                \cup IF end = "interrupted" THEN unreported ELSE {}
         /\ untold' = IF end = "interrupted" THEN untold ELSE untold \cup unreported
    /\ unreported' = {} /\ observed' = {}
    /\ UNCHANGED <<contract, evidence, place, clue, look, redone, strayed>>

\* retry_triggered_run: what neither the evidence nor the Drafts folder shows drafted.
RetryRun(r) ==
    /\ batchRun[r].status = "failed" /\ \A q \in Ids : batchRun[q].status # "running"
    /\ \E k \in Ids, scanned \in BOOLEAN :
         LET left == batchRun[r].uids \ (Drafted(r) \cup IF scanned THEN {u \in Uids : place[u] = "drafts"} ELSE {})
         IN /\ batchRun[k].status = "none" /\ \A q \in 1 .. k - 1 : batchRun[q].status # "none"
            /\ left # {} /\ Mischance(~scanned)
            /\ batchRun' = [batchRun EXCEPT ![k] = [status |-> "running", uids |-> left]]
    /\ UNCHANGED <<contract, unreported, observed, evidence, items, outcome, place, clue, look, toldVars, strayed>>

\* purge_run of every run in rs: the sweep takes the terminal ones that are old enough,
\* a member one run or all of them; trace events go and payloads are emptied.
PurgeRuns(rs) ==
    /\ rs # {} /\ \A r \in rs : batchRun[r].status \in {"failed", "completed"}
    /\ evidence' = [r \in Ids |-> IF r \in rs THEN {} ELSE evidence[r]]
    /\ items' = [r \in Ids |-> IF r \notin rs THEN items[r]
                               ELSE [u \in Uids |-> IF items[r][u] = "none" THEN "none" ELSE "plain"]]
    /\ excused' = excused \cup DraftedBy(rs, items)
    /\ DraftedBy(rs, items) # {} /\ Mischance(TRUE)
    /\ UNCHANGED <<batchRun, contract, unreported, observed, outcome, place, clue, look, redone, untold, strayed>>

----------------------------------------------------------------------------
(* The customer's mailbox.                                                 *)

\* The client keeps the platform's header or rebuilds the message with In-Reply-To, and
\* either is looked for; or it keeps neither, or the message it answers is filed away.
Send(u) ==
    /\ place[u] = "drafts" /\ place' = [place EXCEPT ![u] = "outbox"]
    /\ \E c \in BOOLEAN : clue' = [clue EXCEPT ![u] = c]
    /\ UNCHANGED <<familyVars, outcome, look, toldVars, strayed, mischances>>

Arrive(u) ==
    /\ place[u] \in {"outbox", "late"} /\ place' = [place EXCEPT ![u] = "sent"]
    /\ UNCHANGED <<familyVars, outcome, clue, look, toldVars, strayed, mischances>>

ThrowAway(u) ==
    /\ place[u] = "drafts" /\ place' = [place EXCEPT ![u] = "trash"] /\ strayed' = strayed \cup {u} /\ Mischance(TRUE)
    /\ UNCHANGED <<familyVars, outcome, clue, look, toldVars>>

PutBack(u) ==
    /\ place[u] = "trash" /\ place' = [place EXCEPT ![u] = "drafts"]
    /\ UNCHANGED <<familyVars, outcome, clue, look, toldVars, strayed, mischances>>

----------------------------------------------------------------------------
(* reconcile, in the poller's pass: Drafts first, then Sent.               *)

Pending == {u \in Uids : outcome[u].status = "pending"}

\* A mailbox reconnected or renumbered since, or a row past its window: unknown.
LookInDrafts ==
    /\ ~look.on /\ Pending # {}
    /\ \/ /\ look' = [on |-> TRUE, gone |-> {u \in Pending : place[u] # "drafts"}]
          /\ outcome' = [u \in Uids |-> IF u \in Pending /\ place[u] = "drafts"
                                        THEN [outcome[u] EXCEPT !.miss = 0] ELSE outcome[u]]
          /\ Mischance(FALSE)
       \/ /\ Mischance(TRUE)
          /\ outcome' = [u \in Uids |-> IF u \in Pending THEN [outcome[u] EXCEPT !.status = "unknown"] ELSE outcome[u]]
          /\ UNCHANGED look
    /\ UNCHANGED <<familyVars, place, clue, toldVars, strayed>>

\* Faulty: one look is enough.
MissedOnce(o) == o.miss + 1 >= 1

Missed(o) == o.miss + 1 >= MissThreshold

FoundSent(u) == place[u] = "sent" /\ clue[u]

\* A message just sent may still be on its way during one look, not during two.
LookInSent ==
    /\ look.on /\ look' = NotLooking
    /\ \A u \in look.gone : place[u] # "late"
    /\ outcome' = [u \in Uids |->
         IF u \notin look.gone THEN outcome[u]
         ELSE IF FoundSent(u) THEN [outcome[u] EXCEPT !.status = "sent"]
         ELSE [status |-> IF Missed(outcome[u]) THEN "handled" ELSE "pending", miss |-> outcome[u].miss + 1]]
    /\ place' = [u \in Uids |-> IF u \in look.gone /\ place[u] = "outbox" THEN "late" ELSE place[u]]
    /\ UNCHANGED <<familyVars, clue, toldVars, strayed, mischances>>

\* Any failure of the pass is rolled back.
LookFails ==
    /\ look.on /\ look' = NotLooking
    /\ UNCHANGED <<familyVars, outcome, place, clue, toldVars, strayed, mischances>>

AftermathNext ==
    \/ \E r \in Ids : \/ \E u \in Uids : WriteDraft(r, u) \/ FindDraft(r, u) \/ Report(r, u)
                      \/ EndBatch(r) \/ RetryRun(r)
    \/ \E rs \in SUBSET Ids : PurgeRuns(rs)
    \/ \E u \in Uids : Send(u) \/ Arrive(u) \/ ThrowAway(u) \/ PutBack(u)
    \/ LookInDrafts \/ LookInSent \/ LookFails

AftermathSpec == AftermathInit /\ [][AftermathNext]_aftermathVars

----------------------------------------------------------------------------
(* Properties.                                                             *)

\* A message whose draft the customer has sent is not drafted again, whichever run
\* of the family is retried in whichever order: the Drafts folder no longer shows
\* it, so the family's evidence must (already_drafted_uids).  Excused are messages
\* whose evidence was lost with its process or purged, trace and item row both, or
\* that were drafted twice because the Drafts folder could not be read; untold are
\* those of a node that never got to report them.
SentMailIsNotRedrafted == redone \subseteq excused \cup untold

\* What automation_results.py claims of its two kinds of evidence (391-396: without
\* them a retry "created a duplicate draft for every message the original run had
\* already replied to -- with no crash needed, just an ordinary mid-run failure", and
\* 617-620): an ordinary failure makes no retry draft a sent message again.  The code
\* keeps neither for a node that failed after it drafted.
FailureCostsNoDraft == redone \subseteq excused

\* A draft that was sent and can be recognised in Sent is not reported as handled
\* some other way because the poller looked while it was on its way (MISS_THRESHOLD,
\* and Drafts before Sent).
SentIsNotHandled ==
    \A u \in Uids : outcome[u].status = "handled" /\ clue[u]
                        => place[u] \notin Away \/ u \in strayed \cup excused \cup untold
=============================================================================
