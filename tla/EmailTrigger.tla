---------------------------- MODULE EmailTrigger ----------------------------
(***************************************************************************)
(* One organisation's automatic email runs: the poller thread, the manual  *)
(* retry, the run workers, the stale-run watchdog, the settings requests   *)
(* and a crash of the process, over the durable inbox ledger.              *)
(*                                                                         *)
(* A step ends where the code commits, takes or leaves the dispatch lock,  *)
(* or does mailbox I/O; what a thread has read before that point and uses  *)
(* after it is kept in its record (poller.seen is the ORM object that      *)
(* poll_once loaded, which a commit does not expire).                      *)
(*                                                                         *)
(* An operator that no action uses, with the parameters of the definition  *)
(* after it, is that definition with a plausible bug: the properties below *)
(* are tried against it to see that they can fail.                         *)
(***************************************************************************)
EXTENDS InboxLedger

CONSTANTS
    NoMailbox,        \* no credential row
    NoGeneration,     \* EmailTrigger.uidvalidity IS NULL
    Retriers,         \* request threads that may be inside retry_triggered_run
    Junk,             \* UIDs the pre-LLM filter rejects
    BatchSize,        \* batch_size()
    DetectMultiplier, \* _DETECT_MULTIPLIER
    DailyCap,         \* daily_cap(), runs
    MessageCap,       \* the customer's daily_message_cap
    Requests,         \* the kinds of customer request this instance makes
    MaxDay,           \* bound: days that pass
    MaxFaults,        \* bound: crashes, failed I/O, builds, submissions
    MaxChanges        \* bound: customer requests and mailbox rebuilds

ASSUME GenerationsAssumption == Generations \subseteq Nat
ASSUME NoMailboxAssumption == NoMailbox \notin Mailboxes
ASSUME NoGenerationAssumption == NoGeneration \notin Generations
ASSUME BatchAssumption == BatchSize \in Nat \ {0} /\ DetectMultiplier \in Nat \ {0}
ASSUME CapAssumption == DailyCap \in Nat \ {0} /\ MessageCap \in Nat
ASSUME BoundsAssumption == MaxDay \in Nat /\ MaxFaults \in Nat /\ MaxChanges \in Nat
ASSUME RetriersAssumption == Retriers \cap {"free", "poller"} = {}

VARIABLES
    \* outside the process
    mailbox,    \* each IMAP server: its UIDVALIDITY and highest UID
    drafts,     \* drafts with a message's source key in its Drafts folder
    today,      \* the UTC date
    \* the database
    cred,       \* the connected mailbox
    orgActive,  \* organizations.active
    trigger,    \* the email_triggers row
    ledger,     \* the inbox_events table
    runs,       \* the runs table
    evidence,   \* UIDs a run's persisted trace proves a draft for
    \* the process, lost in a crash
    live,       \* RunRegistry: a run's status as the overlap guard sees it
    cancelled,  \* RunRegistry: cancel flags
    worker,     \* where a run's worker thread is
    appending,  \* the UID a worker holds the source key's lock for, 0 for none
    drafted,    \* drafts a worker made and has not persisted evidence of
    overdue,    \* runs older than run_timeout_seconds()
    lock,       \* _dispatch_lock of the organisation
    poller,     \* the poller thread
    retry,      \* the retry requests
    request,    \* the settings request in progress
    \* history and bounds
    baseline,   \* the last UID an enable or a re-baseline chose to skip
    faults,
    changes

outside == <<mailbox, drafts, today>>
settings == <<cred, orgActive, baseline>>
workers == <<worker, appending, drafted, evidence>>
vars == <<mailbox, drafts, today, cred, orgActive, trigger, ledger, runs, evidence,
          live, cancelled, worker, appending, drafted, overdue, lock, poller, retry,
          request, baseline, faults, changes>>

----------------------------------------------------------------------------
Top == Uids \cup {0}

Inboxes == [gen : Generations, top : Top]

TriggerRows ==
    [enabled : BOOLEAN, gen : Generations \cup {NoGeneration}, cursor : Top,
     runsToday : Nat, messagesToday : Nat, date : Nat, lastRun : RunIds \cup {NoRun}]

RunRows ==
    [status : {"none", "running", "completed", "failed", "cancelled"},
     box : Mailboxes \cup {NoMailbox}, gen : Generations \cup {NoGeneration},
     uids : SUBSET Uids, retryOf : RunIds \cup {NoRun}, family : RunIds \cup {NoRun},
     day : Nat]

NoRunRow ==
    [status |-> "none", box |-> NoMailbox, gen |-> NoGeneration, uids |-> {},
     retryOf |-> NoRun, family |-> NoRun, day |-> 0]

NewTrigger ==
    [enabled |-> FALSE, gen |-> NoGeneration, cursor |-> 0, runsToday |-> 0,
     messagesToday |-> 0, date |-> 0, lastRun |-> NoRun]

PollerStates ==
    [pc : {"idle", "loaded", "locked", "checked", "recorded", "claimed", "advanced"},
     seen : TriggerRows, day : Nat, box : Mailboxes \cup {NoMailbox},
     gen : Generations \cup {NoGeneration}, top : Top, run : RunIds \cup {NoRun}]

PollerIdle ==
    [pc |-> "idle", seen |-> NewTrigger, day |-> 0, box |-> NoMailbox,
     gen |-> NoGeneration, top |-> 0, run |-> NoRun]

RetryStates ==
    [pc : {"idle", "loaded", "building", "submitting"}, from : RunIds \cup {NoRun},
     seen : TriggerRows, day : Nat, uids : SUBSET Uids, done : SUBSET Uids,
     run : RunIds \cup {NoRun}]

RetryIdle ==
    [pc |-> "idle", from |-> NoRun, seen |-> NewTrigger, day |-> 0, uids |-> {},
     done |-> {}, run |-> NoRun]

RequestStates ==
    [pc : {"idle", "saved", "disabled", "cleared", "probed", "enabled"},
     box : Mailboxes \cup {NoMailbox}, gen : Generations \cup {NoGeneration},
     top : Top, replaced : BOOLEAN]

RequestIdle ==
    [pc |-> "idle", box |-> NoMailbox, gen |-> NoGeneration, top |-> 0, replaced |-> FALSE]

TypeOK ==
    /\ mailbox \in [Mailboxes -> Inboxes]
    /\ drafts \in [Keys -> Nat]
    /\ today \in Nat
    /\ cred \in Mailboxes \cup {NoMailbox}
    /\ orgActive \in BOOLEAN
    /\ trigger \in TriggerRows
    /\ ledger \in [Keys -> Rows]
    /\ runs \in [RunIds -> RunRows]
    /\ evidence \in [RunIds -> SUBSET Uids]
    /\ live \in [RunIds -> {"absent", "running", "terminal"}]
    /\ cancelled \in SUBSET RunIds
    /\ worker \in [RunIds -> {"none", "working", "settling", "publishing"}]
    /\ appending \in [RunIds -> Top]
    /\ drafted \in [RunIds -> SUBSET Uids]
    /\ overdue \in SUBSET RunIds
    /\ lock \in {"free", "poller"} \cup Retriers
    /\ poller \in PollerStates
    /\ retry \in [Retriers -> RetryStates]
    /\ request \in RequestStates
    /\ baseline \in Top
    /\ faults \in Nat
    /\ changes \in Nat

\* A customer who has connected mailbox b and enabled automatic runs on it.
Init ==
    \E b \in Mailboxes, g \in [Mailboxes -> Generations] :
        /\ mailbox = [m \in Mailboxes |-> [gen |-> g[m], top |-> 0]]
        /\ drafts = [k \in Keys |-> 0]
        /\ today = 0
        /\ cred = b
        /\ orgActive = TRUE
        /\ trigger = [NewTrigger EXCEPT !.enabled = TRUE, !.gen = g[b]]
        /\ ledger = [k \in Keys |-> NoRow]
        /\ runs = [r \in RunIds |-> NoRunRow]
        /\ evidence = [r \in RunIds |-> {}]
        /\ live = [r \in RunIds |-> "absent"]
        /\ cancelled = {}
        /\ worker = [r \in RunIds |-> "none"]
        /\ appending = [r \in RunIds |-> 0]
        /\ drafted = [r \in RunIds |-> {}]
        /\ overdue = {}
        /\ lock = "free"
        /\ poller = PollerIdle
        /\ retry = [c \in Retriers |-> RetryIdle]
        /\ request = RequestIdle
        /\ baseline = 0
        /\ faults = 0
        /\ changes = 0

----------------------------------------------------------------------------
\* Shared by the poller and the retry.

Fault == faults < MaxFaults /\ faults' = faults + 1
Change(kind) == kind \in Requests /\ changes < MaxChanges /\ changes' = changes + 1

FreshRuns == {r \in RunIds : runs[r].status = "none" /\ live[r] = "absent"}
Fresh == CHOOSE r \in FreshRuns : TRUE

\* The rollover as the thread sees its own cached row.
RolledOver(row, day) ==
    IF row.date = day THEN row
    ELSE [row EXCEPT !.runsToday = 0, !.messagesToday = 0, !.date = day]

FlushRolloverForgetsDate(row, seen, day) ==
    IF seen.date = day THEN row ELSE [row EXCEPT !.runsToday = 0, !.messagesToday = 0]

\* What the unit of work writes for the rollover: only attributes whose value
\* differs from the one that was loaded, whatever the row holds by now.
FlushRollover(row, seen, day) ==
    IF seen.date = day THEN row
    ELSE [row EXCEPT !.runsToday = IF seen.runsToday = 0 THEN @ ELSE 0,
                     !.messagesToday = IF seen.messagesToday = 0 THEN @ ELSE 0,
                     !.date = day]

NeverAtDailyCap(row, day) == FALSE

\* _at_daily_cap, on the row as stored.
AtDailyCap(row, day) == row.date = day /\ row.runsToday >= DailyCap

\* The overlap guard reads last_run_id fresh and trusts the registry alone.
LastRunExecuting == trigger.lastRun # NoRun /\ live[trigger.lastRun] = "running"
LastRunStale == LastRunExecuting /\ trigger.lastRun \in overdue

WatchdogKeepsClaims ==
    LET r == trigger.lastRun IN
    /\ LastRunStale
    /\ cancelled' = cancelled \cup {r}
    /\ runs' = [runs EXCEPT ![r].status = IF @ = "running" THEN "failed" ELSE @]
    /\ UNCHANGED ledger

\* _release_stale_run: the run cannot be stopped, so its row is failed, its
\* claims go back, and the guard stops honouring it.
ReleaseStaleRun ==
    LET r == trigger.lastRun IN
    /\ LastRunStale
    /\ cancelled' = cancelled \cup {r}
    /\ runs' = [runs EXCEPT ![r].status = IF @ = "running" THEN "failed" ELSE @]
    /\ ledger' = Release(ledger, {r})

GuardIgnored == UNCHANGED <<cancelled, runs, ledger>>

GuardOpen == ~LastRunExecuting /\ UNCHANGED <<cancelled, runs, ledger>>

\* Past the overlap guard, or not (LastRunExecuting /\ ~LastRunStale).
PassOverlapGuard == GuardOpen \/ ReleaseStaleRun

MayDispatchIfActive == orgActive

MayDispatch == trigger.enabled /\ orgActive

\* The compare-and-swap that advances the trigger for a dispatch.
Advanced(row, r, messages) ==
    [row EXCEPT !.runsToday = @ + 1, !.messagesToday = @ + messages, !.lastRun = r]

----------------------------------------------------------------------------
\* The poller: poll_once, poll_org, _start_triggered_run.

pollerKeeps == <<outside, settings, workers, overdue, retry, request, changes>>

Leave == lock' = "free" /\ poller' = PollerIdle

\* poll_once lists the trigger; poll_org rolls the date over on that cached row
\* and gives up at once if it is at its cap.
PollLoad ==
    /\ poller.pc = "idle"
    /\ MayDispatch
    /\ RolledOver(trigger, today).runsToday < DailyCap
    /\ poller' = [poller EXCEPT !.pc = "loaded", !.seen = trigger, !.day = today]
    /\ UNCHANGED <<pollerKeeps, trigger, ledger, runs, live, cancelled, lock, faults>>

\* Not listed (disabled, suspended), or at the cap: the cycle ends here.
PollSkips ==
    /\ poller.pc = "idle"
    /\ ~MayDispatch \/ RolledOver(trigger, today).runsToday >= DailyCap
    /\ UNCHANGED vars

PollBlocked ==
    /\ poller.pc = "loaded"
    /\ lock = "free"
    /\ LastRunExecuting /\ ~LastRunStale
    /\ trigger' = FlushRollover(trigger, poller.seen, poller.day)
    /\ Leave
    /\ UNCHANGED <<pollerKeeps, ledger, runs, live, cancelled, faults>>

PollEnter ==
    /\ poller.pc = "loaded"
    /\ lock = "free"
    /\ PassOverlapGuard
    /\ trigger' = FlushRollover(trigger, poller.seen, poller.day)
    /\ lock' = "poller"
    /\ poller' = [poller EXCEPT !.pc = "locked", !.seen = RolledOver(@, poller.day)]
    /\ UNCHANGED <<pollerKeeps, live, faults>>

PollCheckFails ==
    /\ poller.pc = "locked"
    /\ IF cred = NoMailbox THEN UNCHANGED faults ELSE Fault
    /\ Leave
    /\ UNCHANGED <<pollerKeeps, trigger, ledger, runs, live, cancelled>>

\* check_mailbox: what the server says, read before anything is written.
PollCheck ==
    /\ poller.pc = "locked"
    /\ cred # NoMailbox
    /\ poller' = [poller EXCEPT !.pc = "checked", !.box = cred,
                                !.gen = mailbox[cred].gen, !.top = mailbox[cred].top]
    /\ UNCHANGED <<pollerKeeps, trigger, ledger, runs, live, cancelled, lock, faults>>

\* The UIDVALIDITY changed: never reprocess, abandon what waited.
PollRebaseline ==
    /\ poller.pc = "checked"
    /\ poller.seen.gen # poller.gen
    /\ trigger' = [trigger EXCEPT
            !.gen = poller.gen,
            !.cursor = IF poller.top = poller.seen.cursor THEN @ ELSE poller.top]
    /\ ledger' = Abandon(ledger, OfGeneration(poller.box, poller.gen))
    /\ baseline' = trigger'.cursor
    /\ Leave
    /\ UNCHANGED <<outside, cred, orgActive, workers, overdue, retry, request, changes,
                   runs, live, cancelled, faults>>

NewUids == {u \in Uids : poller.seen.cursor < u /\ u <= poller.top}

Lowest(S, n) == {u \in S : Cardinality({v \in S : v < u}) < n}

DetectedLatest ==
    {u \in NewUids : Cardinality({v \in NewUids : u < v}) < BatchSize * DetectMultiplier}

Detected == Lowest(NewUids, BatchSize * DetectMultiplier)

\* THE durability point: the rows and the cursor in one commit.
PollRecord ==
    /\ poller.pc = "checked"
    /\ poller.seen.gen = poller.gen
    /\ NewUids # {}
    /\ \E filtered \in {Detected \cap Junk, {}} :
          ledger' = Record(ledger, poller.box, poller.seen.gen, Detected, filtered)
    /\ \E last \in Detected :
          /\ \A u \in Detected : u <= last
          /\ trigger' = [trigger EXCEPT !.cursor = last]
          /\ poller' = [poller EXCEPT !.pc = "recorded", !.seen.cursor = last]
    /\ UNCHANGED <<pollerKeeps, runs, live, cancelled, lock, faults>>

Waiting == PendingOf(ledger, poller.box, poller.seen.gen)

\* No new mail: go on only if has_pending_events.
PollBacklog ==
    /\ poller.pc = "checked"
    /\ poller.seen.gen = poller.gen
    /\ NewUids = {}
    /\ IF Waiting = {} THEN Leave
       ELSE poller' = [poller EXCEPT !.pc = "recorded"] /\ UNCHANGED lock
    /\ UNCHANGED <<pollerKeeps, trigger, ledger, runs, live, cancelled, faults>>

RemainingAtMidnight == MessageCap

Remaining == IF MessageCap > poller.seen.messagesToday
             THEN MessageCap - poller.seen.messagesToday ELSE 0

ClaimLimit == IF Remaining < BatchSize THEN Remaining ELSE BatchSize

CanClaim == /\ ~AtDailyCap(trigger, poller.day)
            /\ ClaimLimit > 0
            /\ Waiting # {}
            /\ FreshRuns # {}

\* At a cap, over the monthly budget (a fault of the instance), nothing to
\* claim, or out of run ids (the instance's bound).
PollDeclines ==
    /\ poller.pc = "recorded"
    /\ IF CanClaim THEN Fault ELSE UNCHANGED faults
    /\ Leave
    /\ UNCHANGED <<pollerKeeps, trigger, ledger, runs, live, cancelled>>

PollClaim ==
    /\ poller.pc = "recorded"
    /\ CanClaim
    /\ ledger' = Claim(ledger, Fresh, Oldest(Waiting, ClaimLimit))
    /\ live' = [live EXCEPT ![Fresh] = "running"]
    /\ poller' = [poller EXCEPT !.pc = "claimed", !.run = Fresh]
    /\ UNCHANGED <<pollerKeeps, trigger, runs, cancelled, lock, faults>>

\* The team does not build, or the trigger or the organisation was switched
\* off: the claim is released penalty-free and the run is discarded.
PollGivesBack ==
    /\ poller.pc = "claimed"
    /\ IF MayDispatch THEN Fault ELSE UNCHANGED faults
    /\ ledger' = Release(ledger, {poller.run})
    /\ live' = [live EXCEPT ![poller.run] = "absent"]
    /\ Leave
    /\ UNCHANGED <<pollerKeeps, trigger, runs, cancelled>>

Batch(r) == {k.uid : k \in ClaimedBy(ledger, r)}

\* The compare-and-swap, the run row and the attempt, in one commit.
PollAdvance ==
    /\ poller.pc = "claimed"
    /\ MayDispatch
    /\ LET r == poller.run IN
       /\ trigger' = Advanced(trigger, r, Cardinality(Batch(r)))
       /\ runs' = [runs EXCEPT ![r] =
             [status |-> "running", box |-> poller.box, gen |-> poller.seen.gen,
              uids |-> Batch(r), retryOf |-> NoRun, family |-> r, day |-> poller.day]]
       /\ ledger' = MarkDispatched(ledger, r)
    /\ poller' = [poller EXCEPT !.pc = "advanced"]
    /\ UNCHANGED <<pollerKeeps, live, cancelled, lock, faults>>

PollSubmit ==
    /\ poller.pc = "advanced"
    /\ worker' = [worker EXCEPT ![poller.run] = "working"]
    /\ Leave
    /\ UNCHANGED <<outside, settings, appending, drafted, evidence, overdue, retry,
                   request, changes, trigger, ledger, runs, live, cancelled, faults>>

\* The executor refused the run: an attempt was charged, the mail goes back.
PollSubmitFails ==
    /\ poller.pc = "advanced"
    /\ Fault
    /\ runs' = [runs EXCEPT ![poller.run].status = "failed"]
    /\ ledger' = Release(ledger, {poller.run})
    /\ live' = [live EXCEPT ![poller.run] = "terminal"]
    /\ Leave
    /\ UNCHANGED <<pollerKeeps, trigger, cancelled>>

Poll == \/ PollSkips \/ PollLoad \/ PollBlocked \/ PollEnter \/ PollCheckFails \/ PollCheck
        \/ PollRebaseline \/ PollRecord \/ PollBacklog \/ PollDeclines \/ PollClaim
        \/ PollGivesBack \/ PollAdvance \/ PollSubmit \/ PollSubmitFails

----------------------------------------------------------------------------
\* A run's worker: run_in_background with the draft tool of the batch.

workerKeeps == <<mailbox, today, settings, trigger, overdue, lock, poller, retry,
                 request, changes>>

MessageKey(r, u) == Key(runs[r].box, runs[r].gen, u)

KeyLocked(k) == \E s \in RunIds : appending[s] # 0 /\ MessageKey(s, appending[s]) = k

SourceKeyUnlocked(r, u) == TRUE

SourceKeyFree(r, u) == ~KeyLocked(MessageKey(r, u))

\* email_draft_reply takes the source key's lock and scans Drafts.  A draft that
\* is there already is left alone, and its existence is the tool's outcome ...
WorkerFindsDraft(r, u) ==
    /\ worker[r] = "working" /\ appending[r] = 0
    /\ u \in runs[r].uids
    /\ SourceKeyFree(r, u)
    /\ drafts[MessageKey(r, u)] > 0
    /\ drafted' = [drafted EXCEPT ![r] = @ \cup {u}]
    /\ UNCHANGED <<workerKeeps, drafts, ledger, runs, live, cancelled, worker, appending,
                   evidence, faults>>

\* ... otherwise the lock is kept for the APPEND.  A scan that fails does not
\* stop the draft.
WorkerScan(r, u) ==
    /\ worker[r] = "working" /\ appending[r] = 0
    /\ u \in runs[r].uids
    /\ SourceKeyFree(r, u)
    /\ IF drafts[MessageKey(r, u)] = 0 THEN UNCHANGED faults ELSE Fault
    /\ appending' = [appending EXCEPT ![r] = u]
    /\ UNCHANGED <<workerKeeps, drafts, ledger, runs, live, cancelled, worker, drafted, evidence>>

\* The IMAP APPEND, still under that lock.
WorkerAppend(r) ==
    /\ appending[r] # 0
    /\ LET k == MessageKey(r, appending[r]) IN drafts' = [drafts EXCEPT ![k] = @ + 1]
    /\ drafted' = [drafted EXCEPT ![r] = @ \cup {appending[r]}]
    /\ appending' = [appending EXCEPT ![r] = 0]
    /\ UNCHANGED <<workerKeeps, ledger, runs, live, cancelled, worker, evidence, faults>>

\* The APPEND raises, before or after the server stored the draft.
WorkerAppendFails(r) ==
    /\ appending[r] # 0
    /\ Fault
    /\ LET k == MessageKey(r, appending[r]) IN
       \E stored \in {0, 1} : drafts' = [drafts EXCEPT ![k] = @ + stored]
    /\ appending' = [appending EXCEPT ![r] = 0]
    /\ UNCHANGED <<workerKeeps, ledger, runs, live, cancelled, worker, drafted, evidence>>

\* A node's buffered events are persisted when the node ends.
WorkerTrace(r) ==
    /\ worker[r] = "working" /\ appending[r] = 0
    /\ drafted[r] # {}
    /\ evidence' = [evidence EXCEPT ![r] = @ \cup drafted[r]]
    /\ drafted' = [drafted EXCEPT ![r] = {}]
    /\ UNCHANGED <<workerKeeps, drafts, ledger, runs, live, cancelled, worker, appending, faults>>

\* The terminal event: the row's status is committed before anything else.
\* Only a failing node loses the events it buffered.
WorkerFinish(r, outcome) ==
    /\ worker[r] = "working" /\ appending[r] = 0
    /\ outcome = "cancelled" => r \in cancelled
    /\ outcome # "failed" => drafted[r] = {}
    /\ runs' = [runs EXCEPT ![r].status = outcome]
    /\ worker' = [worker EXCEPT ![r] = "settling"]
    /\ drafted' = [drafted EXCEPT ![r] = {}]
    /\ UNCHANGED <<workerKeeps, drafts, ledger, live, cancelled, appending, evidence, faults>>

Family(r) == {s \in RunIds : runs[s].status # "none" /\ runs[s].family = runs[r].family}

\* already_drafted_uids: what the traces of the retry family prove.
AlreadyDrafted(r) == runs[r].uids \cap UNION {evidence[s] : s \in Family(r)}

\* _safe_complete_inbox_events.
WorkerSettle(r) ==
    /\ worker[r] = "settling"
    /\ ledger' = Complete(ledger, r, IF runs[r].status = "completed" THEN runs[r].uids
                                     ELSE AlreadyDrafted(r))
    /\ worker' = [worker EXCEPT ![r] = "publishing"]
    /\ UNCHANGED <<workerKeeps, drafts, runs, live, cancelled, appending, drafted, evidence, faults>>

\* Only now does the registry, and so the overlap guard, see the run end.
WorkerPublish(r) ==
    /\ worker[r] = "publishing"
    /\ live' = [live EXCEPT ![r] = "terminal"]
    /\ worker' = [worker EXCEPT ![r] = "none"]
    /\ UNCHANGED <<workerKeeps, drafts, ledger, runs, cancelled, appending, drafted, evidence, faults>>

Work(r) == \/ \E u \in Uids : WorkerFindsDraft(r, u) \/ WorkerScan(r, u)
           \/ WorkerAppend(r) \/ WorkerAppendFails(r)
           \/ WorkerTrace(r)
           \/ \E outcome \in {"completed", "failed", "cancelled"} : WorkerFinish(r, outcome)
           \/ WorkerSettle(r)
           \/ WorkerPublish(r)

----------------------------------------------------------------------------
\* The manual retry: retry_triggered_run.

retryKeeps == <<outside, settings, appending, drafted, evidence, overdue, poller, request>>

RetryOfRunning(r) == \E s \in RunIds : runs[s].retryOf = r /\ runs[s].status = "running"

\* The checks before the lock: everything but the trigger row is fresh enough
\* to be worth the work, nothing is yet the authoritative gate.
RetryBegin(c, r) ==
    /\ retry[c].pc = "idle"
    /\ Change("retry")
    /\ runs[r].status = "failed"
    /\ ~RetryOfRunning(r)
    /\ runs[r].uids \ AlreadyDrafted(r) # {}
    /\ cred = runs[r].box
    /\ mailbox[cred].gen = runs[r].gen
    /\ RolledOver(trigger, today).runsToday < DailyCap
    /\ retry' = [retry EXCEPT ![c] = [RetryIdle EXCEPT
            !.pc = "loaded", !.from = r, !.seen = trigger, !.day = today]]
    /\ UNCHANGED <<retryKeeps, worker, trigger, ledger, runs, live, cancelled, lock, faults>>

RetryBlocked(c) ==
    /\ retry[c].pc = "loaded"
    /\ lock = "free"
    /\ LastRunExecuting /\ ~LastRunStale
    /\ trigger' = FlushRollover(trigger, retry[c].seen, retry[c].day)
    /\ retry' = [retry EXCEPT ![c] = RetryIdle]
    /\ UNCHANGED <<retryKeeps, worker, ledger, runs, live, cancelled, lock, faults, changes>>

InDrafts(r) == {u \in runs[r].uids : drafts[MessageKey(r, u)] > 0}

\* Under the lock: the cap, a retry that is already running, and the batch,
\* read again.  A rollover still pending in the session is written by a
\* watchdog's commit now, by the dispatch later, or by a refusal's commit.
RetryEnter(c) ==
    LET from == retry[c].from
        flushed == FlushRollover(trigger, retry[c].seen, retry[c].day)
        seen == IF LastRunStale THEN RolledOver(retry[c].seen, retry[c].day) ELSE retry[c].seen
    IN
    /\ retry[c].pc = "loaded"
    /\ lock = "free"
    /\ PassOverlapGuard
    /\ \E scanned \in {InDrafts(from), {}} :
         LET done == AlreadyDrafted(from) \cup scanned
             left == runs[from].uids \ done
             refused == \/ AtDailyCap(flushed, retry[c].day)
                        \/ RetryOfRunning(from)
                        \/ left = {}
         IN /\ IF scanned = InDrafts(from) THEN UNCHANGED faults ELSE Fault
            /\ lock' = IF refused THEN "free" ELSE c
            /\ trigger' = IF refused \/ LastRunStale THEN flushed ELSE trigger
            /\ retry' = [retry EXCEPT ![c] =
                  IF refused THEN RetryIdle
                  ELSE [retry[c] EXCEPT !.pc = "building", !.uids = left, !.done = done,
                                        !.seen = seen]]
    /\ UNCHANGED <<retryKeeps, worker, live, changes>>

\* The team does not build, or the compare-and-swap fails: roll back.
RetryRollsBack(c) ==
    /\ retry[c].pc = "building"
    /\ IF MayDispatch /\ FreshRuns # {} THEN Fault ELSE UNCHANGED faults
    /\ retry' = [retry EXCEPT ![c] = RetryIdle]
    /\ lock' = "free"
    /\ UNCHANGED <<retryKeeps, worker, trigger, ledger, runs, live, cancelled, changes>>

RetryAdvance(c) ==
    /\ retry[c].pc = "building"
    /\ MayDispatch
    /\ FreshRuns # {}
    /\ LET from == retry[c].from IN
       /\ trigger' = Advanced(FlushRollover(trigger, retry[c].seen, retry[c].day), Fresh, 0)
       /\ runs' = [runs EXCEPT ![Fresh] =
             [runs[from] EXCEPT !.status = "running", !.uids = retry[c].uids,
                                !.retryOf = from, !.day = retry[c].day]]
       /\ ledger' = ResolveRetry(ledger, from, Fresh, retry[c].uids, retry[c].done)
       /\ live' = [live EXCEPT ![Fresh] = "running"]
       /\ retry' = [retry EXCEPT ![c].pc = "submitting", ![c].run = Fresh]
    /\ UNCHANGED <<retryKeeps, worker, cancelled, lock, faults, changes>>

RetrySubmit(c) ==
    /\ retry[c].pc = "submitting"
    /\ worker' = [worker EXCEPT ![retry[c].run] = "working"]
    /\ retry' = [retry EXCEPT ![c] = RetryIdle]
    /\ lock' = "free"
    /\ UNCHANGED <<retryKeeps, trigger, ledger, runs, live, cancelled, faults, changes>>

\* The executor refused the retry: the row is failed, the ledger is not touched.
RetrySubmitFails(c) ==
    /\ retry[c].pc = "submitting"
    /\ Fault
    /\ runs' = [runs EXCEPT ![retry[c].run].status = "failed"]
    /\ live' = [live EXCEPT ![retry[c].run] = "terminal"]
    /\ retry' = [retry EXCEPT ![c] = RetryIdle]
    /\ lock' = "free"
    /\ UNCHANGED <<retryKeeps, worker, trigger, ledger, cancelled, changes>>

RetryGoesOn(c) == \/ RetryBlocked(c) \/ RetryEnter(c) \/ RetryRollsBack(c)
                  \/ RetryAdvance(c) \/ RetrySubmit(c) \/ RetrySubmitFails(c)

Retry(c) == (\E r \in RunIds : RetryBegin(c, r)) \/ RetryGoesOn(c)

----------------------------------------------------------------------------
\* Customer and operator requests.  None of them takes the dispatch lock.

requestKeeps == <<outside, workers, runs, live, overdue, lock, poller, retry, faults>>

\* PUT /api/org/email commits the credential first ...
SaveMailbox(b) ==
    /\ request.pc = "idle"
    /\ Change("save")
    /\ cred' = b
    /\ request' = [RequestIdle EXCEPT !.pc = "saved", !.box = b,
                                      !.replaced = cred \notin {NoMailbox, b}]
    /\ UNCHANGED <<requestKeeps, trigger, ledger, cancelled, orgActive, baseline>>

\* ... then on_mailbox_saved disables the trigger of a replaced mailbox ...
SaveDisables ==
    /\ request.pc = "saved"
    /\ trigger' = [trigger EXCEPT !.enabled = @ /\ ~request.replaced]
    /\ request' = [request EXCEPT !.pc = "disabled"]
    /\ UNCHANGED <<requestKeeps, settings, ledger, cancelled, changes>>

\* ... and last abandons what other mailboxes left waiting.
SaveAbandons ==
    /\ request.pc = "disabled"
    /\ ledger' = Abandon(ledger, OfMailbox(request.box))
    /\ request' = RequestIdle
    /\ UNCHANGED <<requestKeeps, settings, trigger, cancelled, changes>>

\* DELETE /api/org/email.
ClearMailbox ==
    /\ request.pc = "idle"
    /\ Change("clear")
    /\ cred' = NoMailbox
    /\ request' = [RequestIdle EXCEPT !.pc = "cleared"]
    /\ UNCHANGED <<requestKeeps, trigger, ledger, cancelled, orgActive, baseline>>

ClearDisables ==
    /\ request.pc = "cleared"
    /\ trigger' = [trigger EXCEPT !.enabled = FALSE]
    /\ request' = RequestIdle
    /\ UNCHANGED <<requestKeeps, settings, ledger, cancelled, changes>>

\* PUT /api/org/email-trigger, enabled: the credential and the mailbox are read ...
EnableProbes ==
    /\ request.pc = "idle"
    /\ Change("enable")
    /\ cred # NoMailbox
    /\ request' = [RequestIdle EXCEPT !.pc = "probed", !.box = cred,
                      !.gen = mailbox[cred].gen, !.top = mailbox[cred].top]
    /\ UNCHANGED <<requestKeeps, settings, trigger, ledger, cancelled>>

\* ... the baseline is committed (neither the counters nor last_run_id) ...
EnableWrites ==
    /\ request.pc = "probed"
    /\ trigger' = [trigger EXCEPT !.enabled = TRUE, !.gen = request.gen, !.cursor = request.top]
    /\ baseline' = request.top
    /\ request' = [request EXCEPT !.pc = "enabled"]
    /\ UNCHANGED <<requestKeeps, cred, orgActive, ledger, cancelled, changes>>

\* ... then what another mailbox or generation left waiting is abandoned.
EnableAbandons ==
    /\ request.pc = "enabled"
    /\ ledger' = Abandon(ledger, OfGeneration(request.box, request.gen))
    /\ request' = RequestIdle
    /\ UNCHANGED <<requestKeeps, settings, trigger, cancelled, changes>>

\* Switched off, or the team it names was paused.
Disable ==
    /\ request.pc = "idle"
    /\ Change("disable")
    /\ trigger' = [trigger EXCEPT !.enabled = FALSE]
    /\ UNCHANGED <<requestKeeps, settings, ledger, cancelled, request>>

\* The operator suspends the organisation, or lifts the suspension.
Suspend ==
    /\ Change("suspend")
    /\ orgActive' = ~orgActive
    /\ UNCHANGED <<requestKeeps, cred, baseline, trigger, ledger, cancelled, request>>

\* An administrator releases a filtered message.
ReleaseMessage(k) ==
    /\ Change("release")
    /\ ledger[k].status = "filtered"
    /\ ledger' = ReleaseFiltered(ledger, k)
    /\ UNCHANGED <<requestKeeps, settings, trigger, cancelled, request>>

\* POST /api/runs/{id}/cancel: a flag the worker looks at between events.
CancelRun(r) ==
    /\ Change("cancel")
    /\ live[r] = "running"
    /\ runs[r].status # "none"
    /\ cancelled' = cancelled \cup {r}
    /\ UNCHANGED <<requestKeeps, settings, trigger, ledger, request>>

RequestGoesOn == \/ SaveDisables \/ SaveAbandons
                 \/ ClearDisables
                 \/ EnableWrites \/ EnableAbandons

Customer == \/ \E b \in Mailboxes : SaveMailbox(b)
            \/ ClearMailbox \/ EnableProbes \/ RequestGoesOn
            \/ Disable \/ Suspend
            \/ \E k \in Keys : ReleaseMessage(k)
            \/ \E r \in RunIds : CancelRun(r)

----------------------------------------------------------------------------
\* The world outside, and the process itself.

outsideKeeps == <<settings, trigger, ledger, runs, live, cancelled, workers, lock, poller,
                  retry, request, faults>>

MailArrives(b) ==
    /\ mailbox[b].top + 1 \in Uids
    /\ mailbox' = [mailbox EXCEPT ![b].top = @ + 1]
    /\ UNCHANGED <<outsideKeeps, drafts, today, overdue, changes>>

\* The server rebuilds the mailbox: a later UIDVALIDITY, messages renumbered.
MailboxRebuilt(b, g, top) ==
    /\ Change("rebuild")
    /\ g > mailbox[b].gen
    /\ mailbox' = [mailbox EXCEPT ![b] = [gen |-> g, top |-> top]]
    /\ UNCHANGED <<outsideKeeps, drafts, today, overdue>>

\* The customer sends or deletes a draft: it leaves the Drafts folder.
DraftLeaves(k) ==
    /\ Change("send")
    /\ drafts[k] > 0
    /\ drafts' = [drafts EXCEPT ![k] = @ - 1]
    /\ UNCHANGED <<outsideKeeps, mailbox, today, overdue>>

Midnight ==
    /\ today < MaxDay
    /\ today' = today + 1
    /\ UNCHANGED <<outsideKeeps, mailbox, drafts, overdue, changes>>

RunBecomesOverdue(r) ==
    /\ live[r] = "running"
    /\ runs[r].status # "none"
    /\ r \notin overdue
    /\ overdue' = overdue \cup {r}
    /\ UNCHANGED <<outsideKeeps, mailbox, drafts, today, changes>>

SweepRunsOnly ==
    ledger' = Release(ledger, {r \in RunIds : runs[r].status = "running"})

\* _release_orphaned_claims, after the claims of the running rows: every claim.
SweepClaims == ledger' = Release(ledger, RunIds)

\* The process dies and starts again: fail_interrupted_runs.
CrashAndRestart ==
    /\ Fault
    /\ runs' = [r \in RunIds |->
           IF runs[r].status = "running" THEN [runs[r] EXCEPT !.status = "failed"] ELSE runs[r]]
    /\ SweepClaims
    /\ live' = [r \in RunIds |-> "absent"]
    /\ cancelled' = {}
    /\ worker' = [r \in RunIds |-> "none"]
    /\ appending' = [r \in RunIds |-> 0]
    /\ drafted' = [r \in RunIds |-> {}]
    /\ lock' = "free"
    /\ poller' = PollerIdle
    /\ retry' = [c \in Retriers |-> RetryIdle]
    /\ request' = RequestIdle
    /\ UNCHANGED <<outside, settings, trigger, evidence, overdue, changes>>

Environment == \/ \E b \in Mailboxes : MailArrives(b)
               \/ \E b \in Mailboxes, g \in Generations, top \in Top : MailboxRebuilt(b, g, top)
               \/ \E k \in Keys : DraftLeaves(k)
               \/ Midnight
               \/ \E r \in RunIds : RunBecomesOverdue(r)
               \/ CrashAndRestart

Next == \/ Poll
        \/ \E r \in RunIds : Work(r)
        \/ \E c \in Retriers : Retry(c)
        \/ Customer
        \/ Environment

Spec == Init /\ [][Next]_vars

\* poll_forever never stops polling (a cycle that raises is logged and the next
\* one runs), a request that has begun goes on, and a run that does not end
\* grows older than the timeout.  Nothing is assumed of the workers: a run may
\* hang for ever, which is what the watchdog is for.
FairSpec ==
    /\ Spec
    /\ WF_vars(Poll)
    /\ \A c \in Retriers : WF_vars(RetryGoesOn(c))
    /\ WF_vars(RequestGoesOn)
    /\ \A r \in RunIds : WF_vars(RunBecomesOverdue(r))

----------------------------------------------------------------------------
\* Properties.

\* Dead-lettering bounds the work a message can cause: a row that waits to be
\* claimed has an attempt left, so no message is handed out more than
\* MaxAttempts times without a person asking (release_events, mark_dispatched,
\* resolve_retry_events).
AttemptsLeft ==
    \A k \in Keys : ledger[k].status = "pending" => ledger[k].attempts < MaxAttempts

\* The overlap guard: at most one run of the organisation is recorded as
\* running, whatever polls, retries, workers, watchdog and crashes interleave.
\* (A run the watchdog gave up on is recorded failed while its thread lives.)
SingleFlight ==
    \A r, s \in RunIds :
        runs[r].status = "running" /\ runs[s].status = "running" => r = s

\* The thread that will give run r's claims their outcome.
HasOwner(r) ==
    \/ poller.run = r /\ poller.pc \in {"claimed", "advanced"}
    \/ worker[r] \in {"working", "settling"}
    \/ \E c \in Retriers : retry[c].run = r /\ retry[c].pc = "submitting"

RefusedRetry(r) == runs[r].retryOf # NoRun /\ runs[r].status = "failed"

\* No message is stuck: a claimed row belongs to a thread that will still
\* complete or release it, except under a retry whose submission failed (the
\* run OrphanedRetry shows that exception).
ClaimsHaveOwner ==
    \A k \in Keys : ledger[k].status = "claimed" =>
        HasOwner(ledger[k].run) \/ RefusedRetry(ledger[k].run)

\* abandon_superseded_events' own words on a claimed row, with no exception.
EveryClaimHasOwner ==
    \A k \in Keys : ledger[k].status = "claimed" => HasOwner(ledger[k].run)

\* The rows a running run holds are the batch its tools are confined to.
OwnsItsBatch(r) ==
    \A u \in runs[r].uids :
        /\ ledger[MessageKey(r, u)].status = "claimed"
        /\ ledger[MessageKey(r, u)].run = r

\* For a run the poller started: what it processes is exactly what it claimed,
\* from its dispatch to its end, whatever stale workers, watchdogs and settings
\* requests do to the ledger meanwhile.  (A retry may hold less than its batch.)
AutomaticRunsOwnTheirBatch ==
    \A r \in RunIds :
        runs[r].status = "running" /\ runs[r].retryOf = NoRun => OwnsItsBatch(r)

\* The cursor never moves past a message without a row for it: whatever lies
\* between the baseline and the cursor of the polled mailbox is recorded, when
\* no settings request is between two of its commits.
NothingSkipped ==
    (request.pc = "idle" /\ trigger.enabled /\ cred # NoMailbox /\ trigger.gen = mailbox[cred].gen) =>
        \A u \in Uids : baseline < u /\ u <= trigger.cursor =>
            ledger[Key(cred, trigger.gen, u)].status # "absent"

\* A row is done only if its message was handled: a run that completed had it
\* in its batch, or a draft for it was made.
DoneIsEarned ==
    \A k \in Keys : ledger[k].status = "done" =>
        \/ \E r \in RunIds : runs[r].status = "completed" /\ runs[r].box = k.box
                             /\ runs[r].gen = k.gen /\ k.uid \in runs[r].uids
        \/ \E r \in RunIds : runs[r].box = k.box /\ runs[r].gen = k.gen
                             /\ k.uid \in evidence[r]
        \/ drafts[k] > 0

\* Two drafts for one message lie in Drafts only after a failed scan, although
\* a run the watchdog gave up on drafts beside its successor.
NoDuplicateDraft == \A k \in Keys : drafts[k] <= 1 + faults

\* Runs started on day d, as the code judged the day.
RunsOn(d) == {r \in RunIds : runs[r].status # "none" /\ runs[r].day = d}

\* The operator's rail: no more than DailyCap runs a day, retries included.
DailyCapHolds == \A d \in 0..MaxDay : Cardinality(RunsOn(d)) <= DailyCap

\* The customer's cap on messages handed to automatic runs a day.
MessageCapHolds ==
    \A d \in 0..MaxDay :
        Cardinality({h \in {r \in RunsOn(d) : runs[r].retryOf = NoRun} \X Uids :
            h[2] \in runs[h[1]].uids}) <= MessageCap

\* The ledger as the abstract lifecycle of its messages.
PhaseOf(status) ==
    CASE status = "absent" -> "unseen"
      [] status = "pending" -> "waiting"
      [] status = "filtered" -> "setAside"
      [] status = "claimed" -> "held"
      [] status = "done" -> "answered"
      [] status = "failed" -> "givenUp"

LedgerMessages == [k \in Keys |-> [phase |-> PhaseOf(ledger[k].status), tries |-> ledger[k].attempts]]

Lifecycle == INSTANCE MessageLifecycle WITH
    Messages <- Keys, MaxTries <- MaxAttempts, message <- LedgerMessages

\* Every step of the poller, the retry, the workers, the watchdog, the requests
\* and a restart moves the messages as their lifecycle allows, or not at all.
ImplementsLifecycle == Lifecycle!Spec

\* Every message that arrives in the polled mailbox gets a final answer (done,
\* failed or filtered) even if every worker hangs: the poller detects it, and
\* the watchdog takes it back from a run that does not end until its attempts
\* are used up.
EveryMessageIsSettled ==
    \A u \in Uids :
        (cred # NoMailbox /\ u <= mailbox[cred].top) ~>
            (ledger[Key(cred, trigger.gen, u)].status \in {"done", "failed", "filtered"})

\* A message that is done is never worked on again.
DoneStaysDone ==
    [][\A k \in Keys : ledger[k].status = "done" => ledger'[k] = ledger[k]]_vars

\* A run never starts against a mailbox the customer has disconnected or
\* replaced, unless the request is still between its two commits (the
\* credential's and the disable's).
ReplacedMailboxIsQuiet ==
    [][\A r \in RunIds : runs[r].status = "none" /\ runs'[r].status # "none"
            => runs'[r].box = cred \/ request.pc \in {"saved", "cleared"}]_vars

\* What a failed message waits for is the retry of its run, and only a failed
\* run can be retried.
FailedMessagesCanBeRetried ==
    \A k \in Keys : (ledger[k].status = "failed" /\ ledger[k].run # NoRun) =>
        runs[ledger[k].run].status \in {"failed", "running"}
============================================================================
