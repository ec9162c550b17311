-------------------------- MODULE EmailBatchProofs --------------------------
(***************************************************************************)
(* More theorems of EmailTrigger, on top of its inductive invariant: who   *)
(* answers for a claimed message, what a run may process, what makes a     *)
(* message done, how many drafts one message gets, and what the settings   *)
(* requests may and may not do to a poll that is under way.                *)
(***************************************************************************)
EXTENDS EmailTriggerProofs

----------------------------------------------------------------------------
\* What the theorems need beyond IInv.

\* A run id is taken before its row, the row is written before the worker
\* starts, and nobody completes a run but its worker; a retry works on a run
\* that has a row.
StatusInv ==
    /\ poller.pc = "claimed" => runs[poller.run].status = "none"
    /\ poller.pc = "advanced" => runs[poller.run].status \in {"running", "failed"}
    /\ \A c \in Retriers : retry[c].pc = "submitting" =>
          /\ runs[retry[c].run].status \in {"running", "failed"}
          /\ runs[retry[c].run].retryOf # NoRun
    /\ \A c \in Retriers : retry[c].pc # "idle" => runs[retry[c].from].status # "none"
    /\ \A r \in RunIds : worker[r] = "working" => runs[r].status \in {"running", "failed"}
    /\ \A r \in RunIds : appending[r] # 0 => worker[r] = "working"

\* A poll that has looked at the server knows a mailbox and a generation, and
\* goes on only while the trigger's generation is that one.
PollerMail ==
    /\ poller.pc \in {"checked", "recorded", "claimed", "advanced"} =>
          poller.box \in Mailboxes /\ poller.gen \in Generations
    /\ poller.pc \in {"recorded", "claimed", "advanced"} => poller.seen.gen = poller.gen

\* A run that has a row is about one generation of one mailbox, the one of the
\* run its retry family began with.
SameMail(r, s) == runs[r].box = runs[s].box /\ runs[r].gen = runs[s].gen

RunMail ==
    \A r \in RunIds : runs[r].status # "none" =>
        /\ runs[r].box \in Mailboxes /\ runs[r].gen \in Generations
        /\ runs[r].family \in RunIds /\ runs[runs[r].family].status # "none"
        /\ SameMail(r, runs[r].family)

\* A message is recorded under a run only if it is of that run's mailbox, or
\* has just been claimed by the poller for the mailbox it polls.
OfRun(k, r) == runs[r].status # "none" /\ k.box = runs[r].box /\ k.gen = runs[r].gen

JustClaimed(k) ==
    /\ poller.pc = "claimed" /\ poller.run = ledger[k].run
    /\ ledger[k].status = "claimed"
    /\ k.box = poller.box /\ k.gen = poller.seen.gen

RowInv ==
    \A k \in Keys : ledger[k].run # NoRun =>
        /\ ledger[k].status \in {"claimed", "done", "failed"}
        /\ OfRun(k, ledger[k].run) \/ JustClaimed(k)

BatchInv ==
    /\ StatusInv /\ PollerMail /\ RunMail /\ RowInv
    /\ ClaimsHaveOwner /\ AutomaticRunsOwnTheirBatch

\* The source key's lock: one worker appends for a message, and it has found no
\* draft of it, or a failed scan has been counted.
DraftInv ==
    /\ NoDuplicateDraft
    /\ \A r \in RunIds : appending[r] # 0 => drafts[MessageKey(r, appending[r])] <= faults
    /\ \A r, s \in RunIds :
          appending[r] # 0 /\ appending[s] # 0
            /\ MessageKey(r, appending[r]) = MessageKey(s, appending[s]) => r = s

\* What a retry found drafted, it found in a trace or in Drafts.
Handled(k) ==
    \/ \E r \in RunIds : runs[r].box = k.box /\ runs[r].gen = k.gen /\ k.uid \in evidence[r]
    \/ drafts[k] > 0

EarnedInv ==
    /\ DoneIsEarned
    /\ \A r \in RunIds : evidence[r] # {} => runs[r].status # "none"
    /\ \A c \in Retriers : retry[c].pc = "building" =>
          \A u \in retry[c].done : Handled(MessageKey(retry[c].from, u))

\* A poll or a retry that is under way for a mailbox the credential no longer
\* names will find the trigger disabled.
Stopped ==
    \/ ~trigger.enabled
    \/ request.pc = "saved" /\ request.replaced
    \/ request.pc = "cleared"

QuietInv ==
    /\ request.pc \notin {"probed", "enabled"}
    /\ request.pc = "saved" => request.box = cred
    /\ poller.pc \in {"checked", "recorded", "claimed"} /\ poller.box # cred => Stopped
    /\ \A c \in Retriers :
          retry[c].pc \in {"loaded", "building"} /\ runs[retry[c].from].box # cred => Stopped

\* The row the poller cached is the trigger's, and what lies between the
\* baseline and the cursor has a row.
CursorInv ==
    /\ request.pc \notin {"saved", "disabled", "probed", "enabled"}
    /\ trigger.gen \in Generations
    /\ poller.pc # "idle" => poller.seen.cursor = trigger.cursor /\ poller.seen.gen = trigger.gen
    /\ poller.pc \in {"checked", "recorded", "claimed"} => poller.box = cred \/ cred = NoMailbox
    /\ cred # NoMailbox => \A u \in Uids : baseline < u /\ u <= trigger.cursor =>
          ledger[Key(cred, trigger.gen, u)].status # "absent"

----------------------------------------------------------------------------
\* Runs from their id to their outcome.

\* The threads and the tables have their types, and a thread that leaves is idle.
LEMMA Types ==
    ASSUME TypeOK
    PROVE  /\ PollerIdle.pc = "idle" /\ RetryIdle.pc = "idle"
           /\ poller \in PollerStates /\ retry \in [Retriers -> RetryStates]
           /\ ledger \in [Keys -> Rows] /\ runs \in [RunIds -> RunRows]
           /\ worker \in [RunIds -> {"none", "working", "settling", "publishing"}]
           /\ appending \in [RunIds -> Top]
           /\ evidence \in [RunIds -> SUBSET Uids]
           /\ trigger \in TriggerRows
  BY DEF TypeOK, PollerIdle, RetryIdle

\* Only one thread is between taking the lock and leaving it.
LEMMA OneInside ==
    ASSUME LockInv
    PROVE  /\ poller.pc \in {"locked", "checked", "recorded", "claimed", "advanced"} =>
                \A c \in Retriers : retry[c].pc \notin {"building", "submitting"}
           /\ \A c, d \in Retriers :
                retry[c].pc \in {"building", "submitting"} /\ retry[d].pc \in {"building", "submitting"}
                    => c = d
  BY Exclusion DEF PollerHolds, RetryHolds

\* A run id that is taken has no row yet, a row is written running, and until
\* its worker ends only the watchdog and a crash give it another status.
LEMMA StatusStep ==
    ASSUME IInv, StatusInv, Next
    PROVE  StatusInv'
<1> USE DEF StatusInv
<1>a. TypeOK /\ LockInv /\ RunInv /\ RetryInv
  BY DEF IInv
<1>b. /\ PollerIdle.pc = "idle" /\ RetryIdle.pc = "idle"
      /\ poller \in PollerStates /\ retry \in [Retriers -> RetryStates]
      /\ runs \in [RunIds -> RunRows]
      /\ worker \in [RunIds -> {"none", "working", "settling", "publishing"}]
      /\ appending \in [RunIds -> Top]
  BY <1>a, Types
<1>c. /\ poller.pc \in {"locked", "checked", "recorded", "claimed", "advanced"} =>
            \A c \in Retriers : retry[c].pc \notin {"building", "submitting"}
      /\ \A c, d \in Retriers :
            retry[c].pc \in {"building", "submitting"} /\ retry[d].pc \in {"building", "submitting"}
                => c = d
  BY <1>a, OneInside
<1>d. \A r \in RunIds : worker[r] # "none" => live[r] = "running"
  BY <1>a DEF RunInv
<1>e. ASSUME PassOverlapGuard
      PROVE  \A r \in RunIds :
                /\ runs'[r].retryOf = runs[r].retryOf
                /\ \/ runs'[r].status = runs[r].status
                   \/ runs[r].status = "running" /\ runs'[r].status = "failed"
  BY <1>e, <1>b DEF PassOverlapGuard, GuardOpen, ReleaseStaleRun, RunRows
<1>1. CASE Poll
  <2> USE DEF pollerKeeps, workers
  <2>1. CASE PollSkips
    BY <2>1 DEF PollSkips, vars
  <2>2. CASE PollLoad
    BY <2>2, <1>b DEF PollLoad, PollerStates
  <2>3. CASE PollBlocked
    BY <2>3, <1>b DEF PollBlocked, Leave
  <2>4. CASE PollEnter
    <3>1. poller'.pc = "locked" /\ UNCHANGED <<retry, worker, appending>>
      BY <2>4, <1>b DEF PollEnter, PollerStates
    <3>2. PassOverlapGuard
      BY <2>4 DEF PollEnter
    <3> QED  BY <2>4, <3>1, <3>2, <1>a, <1>c, <1>e DEF RetryInv, PollEnter, RunInv
  <2>5. CASE PollCheckFails
    BY <2>5, <1>b DEF PollCheckFails, Leave
  <2>6. CASE PollCheck
    BY <2>6, <1>b DEF PollCheck, PollerStates
  <2>7. CASE PollRebaseline
    BY <2>7, <1>b DEF PollRebaseline, Leave
  <2>8. CASE PollRecord
    BY <2>8, <1>b DEF PollRecord, PollerStates
  <2>9. CASE PollBacklog
    BY <2>9, <1>b DEF PollBacklog, Leave, PollerStates
  <2>10. CASE PollDeclines
    BY <2>10, <1>b DEF PollDeclines, Leave
  <2>11. CASE PollClaim
    BY <2>11, <1>b, FreshTyped DEF PollClaim, CanClaim, PollerStates
  <2>12. CASE PollGivesBack
    BY <2>12, <1>b DEF PollGivesBack, Leave
  <2>13. CASE PollAdvance
    <3>1. poller.run \in RunIds /\ worker[poller.run] = "none"
      BY <2>13, <1>a DEF PollAdvance, RunInv, NotStarted
    <3>2. poller'.pc = "advanced" /\ poller'.run = poller.run /\ UNCHANGED <<retry, worker, appending>>
      BY <2>13, <1>b DEF PollAdvance, PollerStates
    <3>3. /\ runs'[poller.run].status = "running"
          /\ \A r \in RunIds : r # poller.run => runs'[r] = runs[r]
      BY <2>13, <3>1, <1>b DEF PollAdvance
    <3>4. \A c \in Retriers : retry[c].pc # "submitting"
      BY <2>13, <1>c DEF PollAdvance
    <3>5. \A c \in Retriers : retry[c].pc # "idle" => retry[c].from \in RunIds
      BY <1>a DEF RetryInv
    <3> QED  BY <3>1, <3>2, <3>3, <3>4, <3>5
  <2>14. CASE PollSubmit
    BY <2>14, <1>a, <1>b DEF PollSubmit, Leave, RunInv
  <2>15. CASE PollSubmitFails
    <3>1. poller.run \in RunIds /\ worker[poller.run] = "none"
      BY <2>15, <1>a DEF PollSubmitFails, RunInv, NotStarted
    <3>2. poller'.pc = "idle" /\ UNCHANGED <<retry, worker, appending>>
      BY <2>15, <1>b DEF PollSubmitFails, Leave
    <3>3. /\ runs'[poller.run].status = "failed"
          /\ \A r \in RunIds : r # poller.run => runs'[r] = runs[r]
      BY <2>15, <3>1, <1>b DEF PollSubmitFails, RunRows
    <3>4. \A c \in Retriers : retry[c].pc # "submitting"
      BY <2>15, <1>c DEF PollSubmitFails
    <3>5. \A c \in Retriers : retry[c].pc # "idle" => retry[c].from \in RunIds
      BY <1>a DEF RetryInv
    <3> QED  BY <3>1, <3>2, <3>3, <3>4, <3>5
  <2> QED  BY <1>1, <2>1, <2>2, <2>3, <2>4, <2>5, <2>6, <2>7, <2>8, <2>9, <2>10, <2>11, <2>12,
              <2>13, <2>14, <2>15 DEF Poll
<1>2. ASSUME NEW r \in RunIds, Work(r)
      PROVE  StatusInv'
  <2>1. UNCHANGED <<poller, retry>>
    BY <1>2, WorkFrame
  <2>2. CASE UNCHANGED <<worker, runs, appending>>
    BY <2>1, <2>2
  <2>3. CASE UNCHANGED <<worker, runs>> /\ worker[r] = "working"
             /\ \A s \in RunIds : s # r => appending'[s] = appending[s]
    BY <2>1, <2>3
  <2>4. ASSUME NEW outcome \in {"completed", "failed", "cancelled"}, WorkerFinish(r, outcome)
        PROVE  StatusInv'
    <3>1. poller.pc \in {"claimed", "advanced"} => poller.run # r
      BY <2>4, <1>a DEF WorkerFinish, RunInv, NotStarted
    <3>2. \A c \in Retriers : retry[c].pc = "submitting" => retry[c].run \in RunIds \ {r}
      BY <2>4, <1>a DEF WorkerFinish, RunInv, NotStarted
    <3>3. /\ runs'[r].status = outcome /\ worker'[r] = "settling" /\ appending[r] = 0
          /\ \A s \in RunIds : s # r => runs'[s] = runs[s] /\ worker'[s] = worker[s]
      BY <2>4, <1>b DEF WorkerFinish, RunRows
    <3>4. poller.pc \in {"claimed", "advanced"} => poller.run \in RunIds
      BY <1>a DEF RunInv
    <3>5. \A c \in Retriers : retry[c].pc # "idle" => retry[c].from \in RunIds
      BY <1>a DEF RetryInv
    <3> QED  BY <2>1, <2>4, <3>1, <3>2, <3>3, <3>4, <3>5 DEF WorkerFinish
  <2>5. CASE WorkerSettle(r)
    BY <2>1, <2>5, <1>b DEF WorkerSettle
  <2>6. CASE WorkerPublish(r)
    BY <2>1, <2>6, <1>b DEF WorkerPublish
  <2>7. ASSUME NEW u \in Uids, WorkerScan(r, u)
        PROVE  StatusInv'
    BY <2>3, <2>7, <1>b DEF WorkerScan
  <2>8. CASE WorkerAppend(r) \/ WorkerAppendFails(r)
    BY <2>3, <2>8, <1>b DEF WorkerAppend, WorkerAppendFails
  <2> QED  BY <1>2, <2>2, <2>4, <2>5, <2>6, <2>7, <2>8 DEF Work, WorkerFindsDraft, WorkerTrace
<1>3. ASSUME NEW c \in Retriers, Retry(c)
      PROVE  StatusInv'
  <2> USE DEF retryKeeps
  <2>0. \A d \in Retriers : retry[d].pc # "idle" => retry[d].from \in RunIds
    BY <1>a DEF RetryInv
  <2>1. ASSUME NEW r \in RunIds, RetryBegin(c, r)
        PROVE  StatusInv'
    BY <2>1, <1>b DEF RetryBegin, RetryIdle
  <2>2. CASE RetryBlocked(c)
    BY <2>2, <1>b DEF RetryBlocked
  <2>3. CASE RetryEnter(c)
    <3>1. /\ UNCHANGED <<poller, worker, appending>> /\ PassOverlapGuard
          /\ lock = "free" /\ retry[c].pc = "loaded"
      BY <2>3 DEF RetryEnter
    <3>2. /\ \A d \in Retriers : d # c => retry'[d] = retry[d]
          /\ retry'[c].pc \in {"idle", "building"} /\ (retry'[c].pc # "idle" => retry'[c].from = retry[c].from)
      BY <2>3, <1>b DEF RetryEnter, RetryStates
    <3>3. /\ poller.pc \notin {"claimed", "advanced"}
          /\ \A d \in Retriers : retry[d].pc # "submitting"
      BY <3>1, <1>a, RetriersAssumption DEF LockInv, PollerHolds, RetryHolds
    <3> QED  BY <3>1, <3>2, <3>3, <2>0, <1>e
  <2>4. CASE RetryRollsBack(c)
    BY <2>4, <1>b DEF RetryRollsBack
  <2>5. CASE RetryAdvance(c)
    <3>1. Fresh \in RunIds /\ runs[Fresh].status = "none" /\ live[Fresh] = "absent"
      BY <2>5, FreshTyped DEF RetryAdvance
    <3>2. /\ runs'[Fresh].status = "running" /\ runs'[Fresh].retryOf = retry[c].from
          /\ \A r \in RunIds : r # Fresh => runs'[r] = runs[r]
      BY <2>5, <3>1, <2>0, <1>b DEF RetryAdvance, RunRows
    <3>3. /\ retry'[c].pc = "submitting" /\ retry'[c].run = Fresh /\ retry'[c].from = retry[c].from
          /\ \A d \in Retriers : d # c => retry'[d] = retry[d]
      BY <2>5, <1>b DEF RetryAdvance, RetryStates
    <3>4. /\ poller.pc \notin {"claimed", "advanced"} /\ UNCHANGED <<poller, worker, appending>>
          /\ \A d \in Retriers : d # c => retry[d].pc # "submitting"
      BY <2>5, <1>c DEF RetryAdvance
    <3>5. retry[c].from \in RunIds /\ retry[c].from # NoRun /\ retry[c].pc = "building"
      BY <2>5, <2>0, NoRunAssumption DEF RetryAdvance
    <3>6. worker[Fresh] = "none"
      BY <3>1, <1>b, <1>d
    <3> QED  BY <3>1, <3>2, <3>3, <3>4, <3>5, <3>6, <2>0
  <2>6. CASE RetrySubmit(c)
    <3>1. /\ retry'[c].pc = "idle" /\ UNCHANGED <<poller, runs, appending>>
          /\ \A d \in Retriers : d # c => retry'[d] = retry[d]
      BY <2>6, <1>b DEF RetrySubmit
    <3>2. /\ retry[c].run \in RunIds /\ runs[retry[c].run].status \in {"running", "failed"}
      BY <2>6, <1>a DEF RetrySubmit, RunInv
    <3>3. /\ worker'[retry[c].run] = "working"
          /\ \A r \in RunIds : r # retry[c].run => worker'[r] = worker[r]
      BY <2>6, <3>2, <1>b DEF RetrySubmit
    <3> QED  BY <3>1, <3>2, <3>3
  <2>7. CASE RetrySubmitFails(c)
    <3>1. /\ retry'[c].pc = "idle" /\ UNCHANGED <<poller, worker, appending>>
          /\ \A d \in Retriers : d # c => retry'[d] = retry[d]
      BY <2>7, <1>b DEF RetrySubmitFails
    <3>2. retry[c].run \in RunIds /\ worker[retry[c].run] = "none"
      BY <2>7, <1>a DEF RetrySubmitFails, RunInv, NotStarted
    <3>3. /\ runs'[retry[c].run].status = "failed"
          /\ \A r \in RunIds : r # retry[c].run => runs'[r] = runs[r]
      BY <2>7, <3>2, <1>b DEF RetrySubmitFails, RunRows
    <3>4. /\ poller.pc \notin {"claimed", "advanced"}
          /\ \A d \in Retriers : d # c => retry[d].pc # "submitting"
      BY <2>7, <1>c DEF RetrySubmitFails
    <3> QED  BY <3>1, <3>2, <3>3, <3>4, <2>0
  <2> QED  BY <1>3, <2>1, <2>2, <2>3, <2>4, <2>5, <2>6, <2>7 DEF Retry, RetryGoesOn
<1>4. CASE Customer
  <2>1. UNCHANGED <<poller, retry, worker, runs>>
    BY <1>4, <1>a, CustomerFrame
  <2>2. UNCHANGED appending
    BY <1>4 DEF Customer, RequestGoesOn, SaveMailbox, SaveDisables, SaveAbandons, ClearMailbox,
         ClearDisables, EnableProbes, EnableWrites, EnableAbandons, Disable, Suspend,
         ReleaseMessage, CancelRun, requestKeeps, workers
  <2> QED  BY <2>1, <2>2
<1>5. CASE Environment
  <2>1. CASE CrashAndRestart
    BY <2>1, <1>b DEF CrashAndRestart
  <2>2. CASE ~CrashAndRestart
    <3>1. UNCHANGED <<poller, retry, worker, runs>>
      BY <1>5, <2>2, WorldFrame
    <3>2. UNCHANGED appending
      BY <1>5, <2>2 DEF Environment, MailArrives, MailboxRebuilt, DraftLeaves, Midnight,
            RunBecomesOverdue, outsideKeeps, workers
    <3> QED  BY <3>1, <3>2
  <2> QED  BY <2>1, <2>2
<1> QED  BY <1>1, <1>2, <1>3, <1>4, <1>5 DEF Next

----------------------------------------------------------------------------
\* Which mailbox a poll, a run and a row are about.

\* Only the poller's own steps and a crash touch its record.
LEMMA PollerFrame ==
    ASSUME TypeOK, Next, ~Poll, ~CrashAndRestart
    PROVE  UNCHANGED poller
<1>1. ASSUME NEW r \in RunIds, Work(r)
      PROVE  UNCHANGED poller
  BY <1>1, WorkFrame
<1>2. ASSUME NEW c \in Retriers, Retry(c)
      PROVE  UNCHANGED poller
  BY <1>2 DEF Retry, RetryGoesOn, RetryBegin, RetryBlocked, RetryEnter, RetryRollsBack,
        RetryAdvance, RetrySubmit, RetrySubmitFails, retryKeeps
<1>3. CASE Customer
  BY <1>3, CustomerFrame
<1>4. CASE Environment
  BY <1>4, WorldFrame
<1> QED  BY <1>1, <1>2, <1>3, <1>4 DEF Next

\* A poll is about the mailbox and generation its look at the server found.
LEMMA PollerMailStep ==
    ASSUME TypeOK, PollerMail, Next
    PROVE  PollerMail'
<1>a. /\ PollerIdle.pc = "idle" /\ poller \in PollerStates
      /\ cred \in Mailboxes \cup {NoMailbox} /\ mailbox \in [Mailboxes -> Inboxes]
  BY Types DEF TypeOK
<1>1. CASE PollCheck
  <2>1. cred \in Mailboxes /\ mailbox[cred].gen \in Generations
    BY <1>1, <1>a DEF PollCheck, Inboxes
  <2>2. poller'.pc = "checked" /\ poller'.box = cred /\ poller'.gen = mailbox[cred].gen
    BY <1>1, <1>a DEF PollCheck, PollerStates
  <2> QED  BY <2>1, <2>2 DEF PollerMail
<1>2. CASE PollRecord
  <2>1. PICK last \in Detected : poller' = [poller EXCEPT !.pc = "recorded", !.seen.cursor = last]
    BY <1>2 DEF PollRecord
  <2>2. /\ poller.pc = "checked" /\ poller.seen.gen = poller.gen
    BY <1>2 DEF PollRecord
  <2>3. /\ poller'.pc = "recorded" /\ poller'.box = poller.box /\ poller'.gen = poller.gen
        /\ poller'.seen.gen = poller.seen.gen
    BY <2>1, <1>a DEF PollerStates, TriggerRows
  <2> QED  BY <2>2, <2>3 DEF PollerMail
<1>3. CASE PollBacklog
  BY <1>3, <1>a DEF PollBacklog, Leave, PollerStates, PollerMail
<1>4. CASE PollClaim \/ PollAdvance
  <2>1. /\ poller'.pc \in {"claimed", "advanced"} /\ poller.pc \in {"recorded", "claimed"}
        /\ poller'.box = poller.box /\ poller'.gen = poller.gen /\ poller'.seen = poller.seen
    BY <1>4, <1>a DEF PollClaim, PollAdvance, PollerStates
  <2> QED  BY <2>1 DEF PollerMail
<1>5. CASE PollLoad \/ PollEnter
  <2>1. poller'.pc \in {"loaded", "locked"}
    BY <1>5, <1>a DEF PollLoad, PollEnter, PollerStates
  <2> QED  BY <2>1 DEF PollerMail
<1>6. CASE \/ PollBlocked \/ PollCheckFails \/ PollRebaseline \/ PollDeclines \/ PollGivesBack
           \/ PollSubmit \/ PollSubmitFails \/ CrashAndRestart
  <2>1. poller' = PollerIdle
    BY <1>6 DEF PollBlocked, PollCheckFails, PollRebaseline, PollDeclines, PollGivesBack,
          PollSubmit, PollSubmitFails, CrashAndRestart, Leave
  <2> QED  BY <2>1, <1>a DEF PollerMail
<1>7. CASE PollSkips \/ (~Poll /\ ~CrashAndRestart)
  <2>1. UNCHANGED poller
    BY <1>7, PollerFrame DEF PollSkips, vars
  <2> QED  BY <2>1 DEF PollerMail
<1> QED  BY <1>1, <1>2, <1>3, <1>4, <1>5, <1>6, <1>7 DEF Poll

\* What a step does to the runs table: it dispatches a fresh run, or gives rows
\* that exist another status.
RunsMove ==
    \/ PollAdvance
    \/ \E c \in Retriers : RetryAdvance(c)
    \/ \A r \in RunIds :
          /\ runs'[r].status = "none" <=> runs[r].status = "none"
          /\ runs'[r].status # runs[r].status =>
                runs'[r].status = "completed" \/ runs[r].status # "completed"
          /\ runs'[r].status = "running" => runs[r].status = "running"
          /\ runs'[r].box = runs[r].box /\ runs'[r].gen = runs[r].gen
          /\ runs'[r].uids = runs[r].uids /\ runs'[r].family = runs[r].family
          /\ runs'[r].retryOf = runs[r].retryOf /\ runs'[r].day = runs[r].day

LEMMA RunsStep ==
    ASSUME IInv, StatusInv, Next
    PROVE  RunsMove
<1> USE DEF StatusInv
<1>a. TypeOK /\ RunInv
  BY DEF IInv
<1>b. runs \in [RunIds -> RunRows]
  BY <1>a, Types
<1>1. CASE UNCHANGED runs
  BY <1>1 DEF RunsMove
<1>2. CASE PassOverlapGuard
  BY <1>2, <1>b DEF PassOverlapGuard, GuardOpen, ReleaseStaleRun, RunRows, RunsMove
<1>3. CASE PollSubmitFails
  <2>1. poller.run \in RunIds /\ runs[poller.run].status \in {"running", "failed"}
    BY <1>3, <1>a DEF PollSubmitFails, RunInv
  <2>2. runs' = [runs EXCEPT ![poller.run].status = "failed"]
    BY <1>3 DEF PollSubmitFails
  <2> QED  BY <1>b, <2>1, <2>2 DEF RunRows, RunsMove
<1>4. ASSUME NEW c \in Retriers, RetrySubmitFails(c)
      PROVE  RunsMove
  <2>1. retry[c].run \in RunIds /\ runs[retry[c].run].status \in {"running", "failed"}
    BY <1>4, <1>a DEF RetrySubmitFails, RunInv
  <2>2. runs' = [runs EXCEPT ![retry[c].run].status = "failed"]
    BY <1>4 DEF RetrySubmitFails
  <2> QED  BY <1>b, <2>1, <2>2 DEF RunRows, RunsMove
<1>5. ASSUME NEW r \in RunIds, NEW outcome \in {"completed", "failed", "cancelled"},
             WorkerFinish(r, outcome)
      PROVE  RunsMove
  <2>1. runs[r].status \in {"running", "failed"} /\ runs' = [runs EXCEPT ![r].status = outcome]
    BY <1>5 DEF WorkerFinish
  <2> QED  BY <1>b, <2>1 DEF RunRows, RunsMove
<1>6. CASE CrashAndRestart
  BY <1>6, <1>b DEF CrashAndRestart, RunRows, RunsMove
<1>7. CASE Poll
  BY <1>1, <1>2, <1>3, <1>7 DEF Poll, PollSkips, PollLoad, PollBlocked, PollEnter, PollCheckFails,
        PollCheck, PollRebaseline, PollRecord, PollBacklog, PollDeclines, PollClaim,
        PollGivesBack, PollSubmit, vars, RunsMove
<1>8. ASSUME NEW r \in RunIds, Work(r)
      PROVE  RunsMove
  BY <1>1, <1>5, <1>8 DEF Work, WorkerFindsDraft, WorkerScan, WorkerAppend, WorkerAppendFails,
        WorkerTrace, WorkerSettle, WorkerPublish
<1>9. ASSUME NEW c \in Retriers, Retry(c)
      PROVE  RunsMove
  <2>1. CASE RetryEnter(c)
    BY <1>2, <2>1 DEF RetryEnter
  <2>2. CASE ~RetryEnter(c)
    BY <1>1, <1>4, <1>9, <2>2 DEF Retry, RetryGoesOn, RetryBegin, RetryBlocked,
          RetryRollsBack, RetrySubmit, RunsMove
  <2> QED  BY <2>1, <2>2
<1>10. CASE Customer
  BY <1>1, <1>10, <1>a, CustomerFrame
<1>11. CASE Environment
  BY <1>1, <1>6, <1>11, WorldFrame
<1> QED  BY <1>7, <1>8, <1>9, <1>10, <1>11 DEF Next

\* The row a poll writes for its run.
LEMMA PollDispatches ==
    ASSUME IInv, StatusInv, PollerMail, PollAdvance
    PROVE  /\ poller.run \in RunIds /\ runs[poller.run].status = "none"
           /\ runs'[poller.run].status = "running" /\ runs'[poller.run].retryOf = NoRun
           /\ runs'[poller.run].box = poller.box /\ poller.box \in Mailboxes
           /\ runs'[poller.run].gen = poller.seen.gen /\ poller.seen.gen \in Generations
           /\ runs'[poller.run].uids = Batch(poller.run)
           /\ runs'[poller.run].family = poller.run
           /\ \A r \in RunIds : r # poller.run => runs'[r] = runs[r]
<1>1. poller.run \in RunIds /\ runs[poller.run].status = "none"
  BY DEF PollAdvance, StatusInv, IInv, RunInv
<1>2. runs \in [RunIds -> RunRows]
  BY Types DEF IInv
<1>3. runs' = [runs EXCEPT ![poller.run] =
             [status |-> "running", box |-> poller.box, gen |-> poller.seen.gen,
              uids |-> Batch(poller.run), retryOf |-> NoRun, family |-> poller.run,
              day |-> poller.day]]
  BY DEF PollAdvance
<1>4. poller.box \in Mailboxes /\ poller.seen.gen \in Generations
  BY DEF PollAdvance, PollerMail
<1> QED  BY <1>1, <1>2, <1>3, <1>4

\* The row a retry writes for its run.
LEMMA RetryDispatches ==
    ASSUME IInv, StatusInv, NEW c \in Retriers, RetryAdvance(c)
    PROVE  /\ retry[c].from \in RunIds /\ runs[retry[c].from].status # "none"
           /\ Fresh \in RunIds /\ runs[Fresh].status = "none" /\ live[Fresh] = "absent"
           /\ runs'[Fresh].status = "running" /\ runs'[Fresh].retryOf = retry[c].from
           /\ runs'[Fresh].box = runs[retry[c].from].box
           /\ runs'[Fresh].gen = runs[retry[c].from].gen
           /\ runs'[Fresh].family = runs[retry[c].from].family
           /\ runs'[Fresh].uids = retry[c].uids
           /\ \A r \in RunIds : r # Fresh => runs'[r] = runs[r]
<1>1. retry[c].from \in RunIds /\ runs[retry[c].from].status # "none"
  BY DEF RetryAdvance, StatusInv, IInv, RetryInv
<1>2. Fresh \in RunIds /\ runs[Fresh].status = "none" /\ live[Fresh] = "absent"
  BY FreshTyped DEF RetryAdvance
<1>3. runs \in [RunIds -> RunRows]
  BY Types DEF IInv
<1>4. runs' = [runs EXCEPT ![Fresh] =
             [runs[retry[c].from] EXCEPT !.status = "running", !.uids = retry[c].uids,
                                         !.retryOf = retry[c].from, !.day = retry[c].day]]
  BY DEF RetryAdvance
<1> QED  BY <1>1, <1>2, <1>3, <1>4 DEF RunRows

\* Every run of a retry family is about the mailbox of its first run.
LEMMA RunMailStep ==
    ASSUME IInv, StatusInv, PollerMail, RunMail, Next
    PROVE  RunMail'
<1>1. CASE PollAdvance
  BY <1>1, PollDispatches DEF RunMail, SameMail
<1>2. ASSUME NEW c \in Retriers, RetryAdvance(c)
      PROVE  RunMail'
  <2>1. retry[c].from \in RunIds /\ runs[retry[c].from].status # "none"
        /\ Fresh \in RunIds /\ runs[Fresh].status = "none"
    BY <1>2, RetryDispatches
  <2>2. \A r \in RunIds : runs[r].status # "none" => r # Fresh /\ runs[r].family # Fresh
    BY <2>1 DEF RunMail
  <2> QED  BY <1>2, <2>1, <2>2, RetryDispatches DEF RunMail, SameMail
<1>3. CASE ~PollAdvance /\ ~\E c \in Retriers : RetryAdvance(c)
  BY <1>3, RunsStep DEF RunsMove, RunMail, SameMail
<1> QED  BY <1>1, <1>2, <1>3

----------------------------------------------------------------------------
\* Rows and the run they name.

RowShape(L) == \A k \in Keys : L[k].run # NoRun => L[k].status \in {"claimed", "done", "failed"}

\* What the statements of the ledger do to the run a row names.
LEMMA RowHelpers ==
    ASSUME NEW L \in [Keys -> Rows], RowShape(L), NEW k \in Keys
    PROVE  /\ \A b, g, D, F : LET m == Record(L, b, g, D, F)[k] IN m.run # NoRun => m = L[k]
           /\ \A r, D : LET m == Complete(L, r, D)[k] IN
                 /\ m.run = L[k].run
                 /\ m.run # NoRun => m.status \in {"claimed", "done", "failed"}
                 /\ L[k].run # r => m = L[k]
           /\ \A S : LET m == Release(L, S)[k] IN
                 /\ m.run # NoRun => /\ m.run = L[k].run
                                     /\ m.status \in {"claimed", "done", "failed"}
                 /\ L[k].run \notin S => m = L[k]
                 /\ L[k].status = "claimed" /\ L[k].run \in S /\ L[k].attempts < MaxAttempts
                       => m.run = NoRun
           /\ \A C : LET m == Abandon(L, C)[k] IN m.run # NoRun => m = L[k]
           /\ \A j \in Keys : LET m == ReleaseFiltered(L, j)[k] IN m.run # NoRun => m = L[k]
<1>a. L[k] \in Rows /\ (L[k].run # NoRun => L[k].status \in {"claimed", "done", "failed"})
  BY DEF RowShape
<1>1. \A b, g, D, F : LET m == Record(L, b, g, D, F)[k] IN m.run # NoRun => m = L[k]
  BY DEF Record, NoRow
<1>2. \A r, D : LET m == Complete(L, r, D)[k] IN
          /\ m.run = L[k].run
          /\ m.run # NoRun => m.status \in {"claimed", "done", "failed"}
          /\ L[k].run # r => m = L[k]
  BY <1>a DEF Complete, ClaimedBy, WithStatus, Rows
<1>3. \A S : LET m == Release(L, S)[k] IN
          /\ m.run # NoRun => /\ m.run = L[k].run
                              /\ m.status \in {"claimed", "done", "failed"}
          /\ L[k].run \notin S => m = L[k]
          /\ L[k].status = "claimed" /\ L[k].run \in S /\ L[k].attempts < MaxAttempts
                => m.run = NoRun
  <2> SUFFICES ASSUME NEW S
               PROVE  LET m == Release(L, S)[k] IN
                      /\ m.run # NoRun => /\ m.run = L[k].run
                                          /\ m.status \in {"claimed", "done", "failed"}
                      /\ L[k].run \notin S => m = L[k]
                      /\ L[k].status = "claimed" /\ L[k].run \in S /\ L[k].attempts < MaxAttempts
                            => m.run = NoRun
    OBVIOUS
  <2>1. L[k].attempts \in Nat
    BY <1>a, MaxAttemptsAssumption DEF Rows
  <2>2. CASE L[k].status = "claimed" /\ L[k].run \in S /\ L[k].attempts >= MaxAttempts
    <3>1. Release(L, S)[k] = [L[k] EXCEPT !.status = "failed"]
      BY <2>2 DEF Release, WithStatus
    <3> QED  BY <3>1, <2>1, <2>2, <1>a, MaxAttemptsAssumption DEF Rows
  <2>3. CASE L[k].status = "claimed" /\ L[k].run \in S /\ ~(L[k].attempts >= MaxAttempts)
    <3>1. Release(L, S)[k] = [L[k] EXCEPT !.status = "pending", !.run = NoRun]
      BY <2>3 DEF Release, WithStatus
    <3> QED  BY <3>1, <2>3, <1>a DEF Rows
  <2>4. CASE ~(L[k].status = "claimed" /\ L[k].run \in S)
    <3>1. Release(L, S)[k] = L[k]
      BY <2>4 DEF Release, WithStatus
    <3> QED  BY <3>1, <2>4, <1>a
  <2> QED  BY <2>2, <2>3, <2>4
<1>4. \A C : LET m == Abandon(L, C)[k] IN m.run # NoRun => m = L[k]
  BY <1>a DEF Abandon, Rows
<1>5. \A j \in Keys : LET m == ReleaseFiltered(L, j)[k] IN m.run # NoRun => m = L[k]
  BY <1>a DEF ReleaseFiltered, Rows
<1> QED  BY <1>1, <1>2, <1>3, <1>4, <1>5

\* A step that names no new run in any row, ends no run and leaves the poll's
\* own claim as it is.
LEMMA QuietRows ==
    ASSUME TypeOK, RowInv,
           \A k \in Keys : ledger'[k].run # NoRun =>
               /\ ledger'[k].run = ledger[k].run
               /\ ledger'[k].status \in {"claimed", "done", "failed"}
               /\ JustClaimed(k) => ledger'[k] = ledger[k],
           \A k \in Keys, r \in RunIds : OfRun(k, r) => OfRun(k, r)',
           poller.pc = "claimed" => UNCHANGED poller
    PROVE  RowInv'
<1> SUFFICES ASSUME NEW k \in Keys, ledger'[k].run # NoRun
             PROVE  /\ ledger'[k].status \in {"claimed", "done", "failed"}
                    /\ OfRun(k, ledger[k].run)' \/ JustClaimed(k)'
  BY DEF RowInv
<1>1. /\ ledger'[k].run = ledger[k].run /\ ledger'[k].status \in {"claimed", "done", "failed"}
      /\ ledger[k].run \in RunIds
  BY Types DEF Rows
<1>2. OfRun(k, ledger[k].run) \/ JustClaimed(k)
  BY <1>1 DEF RowInv
<1>3. CASE OfRun(k, ledger[k].run)
  BY <1>1, <1>3 DEF OfRun
<1>4. CASE JustClaimed(k)
  BY <1>1, <1>4 DEF JustClaimed
<1> QED  BY <1>1, <1>2, <1>3, <1>4

\* Every step keeps each row with a run of its own mailbox and generation.
LEMMA RowStep ==
    ASSUME IInv, StatusInv, PollerMail, RunMail, RowInv, Next
    PROVE  RowInv'
<1>a. /\ PollerIdle.pc = "idle" /\ poller \in PollerStates
      /\ ledger \in [Keys -> Rows] /\ runs \in [RunIds -> RunRows]
      /\ TypeOK /\ LockInv /\ RunInv /\ ClaimInv
  BY Types DEF IInv
<1>b. RowShape(ledger) /\ \A k \in Keys : ledger[k].run \in RunIds \cup {NoRun}
  BY <1>a DEF RowInv, RowShape, Rows
<1>1. CASE PollClaim
  <2>1. Fresh \in RunIds /\ runs[Fresh].status = "none" /\ poller.pc = "recorded"
    BY <1>1, FreshTyped DEF PollClaim, CanClaim
  <2>2. poller'.pc = "claimed" /\ poller'.run = Fresh /\ runs' = runs
        /\ poller'.box = poller.box /\ poller'.seen = poller.seen
    BY <1>1, <1>a DEF PollClaim, PollerStates
  <2>3. \A k \in Keys :
          \/ ledger'[k] = ledger[k]
          \/ /\ k.box = poller.box /\ k.gen = poller.seen.gen
             /\ ledger'[k].run = Fresh /\ ledger'[k].status = "claimed"
    BY <1>1, <1>a DEF PollClaim, Claim, Oldest, Waiting, PendingOf, WithStatus, Rows
  <2>4. \A k \in Keys : ledger[k].run # NoRun => OfRun(k, ledger[k].run) /\
                         ledger[k].status \in {"claimed", "done", "failed"}
    BY <2>1 DEF RowInv, JustClaimed
  <2> QED  BY <2>2, <2>3, <2>4 DEF RowInv, JustClaimed, OfRun
<1>2. CASE PollAdvance
  <2>1. \A k \in Keys : ledger'[k].status = ledger[k].status /\ ledger'[k].run = ledger[k].run
    BY <1>2, <1>a DEF PollAdvance, MarkDispatched, ClaimedBy, WithStatus, Rows
  <2>2. \A k \in Keys : JustClaimed(k) => OfRun(k, ledger[k].run)'
    BY <1>2, <2>1, PollDispatches DEF JustClaimed, OfRun
  <2>3. \A k \in Keys : OfRun(k, ledger[k].run) /\ ledger[k].run # NoRun => OfRun(k, ledger[k].run)'
    BY <1>2, <1>b, <2>1, PollDispatches DEF OfRun
  <2> QED  BY <2>1, <2>2, <2>3 DEF RowInv
<1>3. ASSUME NEW c \in Retriers, RetryAdvance(c)
      PROVE  RowInv'
  <2> DEFINE from == retry[c].from
  <2>1. /\ from \in RunIds /\ runs[from].status # "none"
        /\ Fresh \in RunIds /\ runs[Fresh].status = "none"
        /\ runs'[Fresh].status = "running"
        /\ runs'[Fresh].box = runs[from].box /\ runs'[Fresh].gen = runs[from].gen
        /\ \A r \in RunIds : r # Fresh => runs'[r] = runs[r]
    BY <1>3, RetryDispatches
  <2>2. poller.pc # "claimed"
    BY <1>3, <1>a, OneInside DEF RetryAdvance
  <2>3. \A k \in Keys :
          \/ ledger'[k] = ledger[k]
          \/ /\ ledger[k].status = "failed" /\ ledger[k].run = from
             /\ \/ ledger'[k].status = "claimed" /\ ledger'[k].run = Fresh
                \/ ledger'[k].status = "done" /\ ledger'[k].run = from
    BY <1>3, <1>a DEF RetryAdvance, ResolveRetry, WithStatus, Rows
  <2>4. \A k \in Keys : ledger[k].run # NoRun => OfRun(k, ledger[k].run) /\
                         ledger[k].status \in {"claimed", "done", "failed"}
    BY <2>2 DEF RowInv, JustClaimed
  <2>5. from # NoRun
    BY <2>1, NoRunAssumption
  <2> HIDE DEF from
  <2> QED  BY <2>1, <2>3, <2>4, <2>5, <1>b DEF RowInv, OfRun
<1>4. CASE ~PollClaim /\ ~PollAdvance /\ ~\E c \in Retriers : RetryAdvance(c)
  <2>1. \A k \in Keys, r \in RunIds : OfRun(k, r) => OfRun(k, r)'
    BY <1>4, RunsStep DEF RunsMove, OfRun
  <2>2. \A k \in Keys : JustClaimed(k) =>
          /\ poller.pc = "claimed" /\ ledger[k].run = poller.run /\ poller.run \in RunIds
          /\ worker[poller.run] = "none" /\ ledger[k].attempts < MaxAttempts
          /\ ledger[k].status = "claimed"
    BY <1>a DEF JustClaimed, RunInv, NotStarted, ClaimInv
  <2>3. ASSUME UNCHANGED ledger, poller.pc = "claimed" => UNCHANGED poller
        PROVE  RowInv'
    BY <2>1, <2>3, <1>a, QuietRows DEF RowInv
  <2>4. ASSUME NEW S, ledger' = Release(ledger, S), poller.pc # "claimed"
        PROVE  RowInv'
    BY <2>1, <2>4, <1>a, <1>b, RowHelpers, QuietRows DEF JustClaimed
  <2>5. ASSUME PassOverlapGuard, lock = "free"
        PROVE  RowInv'
    <3>1. poller.pc # "claimed"
      BY <2>5, <1>a, RetriersAssumption DEF LockInv, PollerHolds
    <3> QED  BY <2>3, <2>4, <2>5, <3>1 DEF PassOverlapGuard, GuardOpen, ReleaseStaleRun
  <2>6. CASE Poll
    <3>1. CASE PollEnter
      BY <2>5, <3>1 DEF PollEnter
    <3>2. CASE PollRecord
      <4>1. poller.pc = "checked" /\ \E b, g, D, F : ledger' = Record(ledger, b, g, D, F)
        BY <3>2 DEF PollRecord
      <4>2. \A k \in Keys : ledger'[k].run # NoRun => ledger'[k] = ledger[k]
        BY <4>1, <1>a, <1>b, RowHelpers
      <4> QED  BY <2>1, <4>1, <4>2, <1>a, <1>b, QuietRows DEF RowShape
    <3>3. CASE PollRebaseline
      BY <2>1, <3>3, <1>a, <1>b, RowHelpers, QuietRows DEF PollRebaseline, JustClaimed, RowShape
    <3>4. CASE PollSubmitFails
      BY <2>4, <3>4 DEF PollSubmitFails
    <3>5. CASE PollGivesBack
      <4>1. \A k \in Keys : ledger'[k].run # NoRun =>
              /\ ledger'[k].run = ledger[k].run
              /\ ledger'[k].status \in {"claimed", "done", "failed"}
              /\ ~JustClaimed(k)
        BY <2>2, <3>5, <1>a, <1>b, RowHelpers DEF PollGivesBack
      <4>2. \A k \in Keys : ledger'[k].run # NoRun => OfRun(k, ledger[k].run)
        BY <4>1 DEF RowInv
      <4> QED  BY <4>1, <4>2, <2>1, <1>b DEF RowInv, OfRun
    <3>6. CASE \/ PollSkips \/ PollLoad \/ PollBlocked \/ PollCheckFails \/ PollCheck
               \/ PollBacklog \/ PollDeclines \/ PollSubmit
      BY <2>3, <3>6 DEF PollSkips, PollLoad, PollBlocked, PollCheckFails, PollCheck, PollBacklog,
                        PollDeclines, PollSubmit, vars
    <3> QED  BY <1>4, <2>6, <3>1, <3>2, <3>3, <3>4, <3>5, <3>6 DEF Poll
  <2>7. ASSUME NEW r \in RunIds, Work(r)
        PROVE  RowInv'
    <3>1. UNCHANGED poller
      BY <2>7, WorkFrame
    <3>2. CASE WorkerSettle(r)
      <4>1. \A k \in Keys : JustClaimed(k) => ledger[k].run # r
        BY <2>2, <3>2 DEF WorkerSettle
      <4> QED  BY <2>1, <3>1, <3>2, <4>1, <1>a, <1>b, RowHelpers, QuietRows DEF WorkerSettle
    <3>3. CASE UNCHANGED ledger
      BY <2>3, <3>1, <3>3
    <3> QED  BY <2>7, <3>2, <3>3 DEF Work, WorkerFindsDraft, WorkerScan, WorkerAppend,
                WorkerAppendFails, WorkerTrace, WorkerFinish, WorkerPublish
  <2>8. ASSUME NEW c \in Retriers, Retry(c)
        PROVE  RowInv'
    <3>1. CASE RetryEnter(c)
      BY <2>5, <3>1 DEF RetryEnter
    <3>2. CASE ~RetryEnter(c)
      BY <1>4, <2>3, <2>8, <3>2 DEF Retry, RetryGoesOn, RetryBegin, RetryBlocked, RetryRollsBack,
            RetrySubmit, RetrySubmitFails, retryKeeps
    <3> QED  BY <3>1, <3>2
  <2>9. CASE Customer
    <3>1. /\ UNCHANGED poller
          /\ \/ UNCHANGED ledger
             \/ \E C : ledger' = Abandon(ledger, C)
             \/ \E k \in Keys : ledger' = ReleaseFiltered(ledger, k)
      BY <2>9, <1>a, CustomerFrame
    <3>2. \A k \in Keys : ledger'[k].run # NoRun => ledger'[k] = ledger[k]
      BY <3>1, <1>a, <1>b, RowHelpers
    <3> QED  BY <2>1, <3>1, <3>2, <1>a, <1>b, QuietRows DEF RowShape
  <2>10. CASE CrashAndRestart
    <3>1. \A k \in Keys : ledger'[k].run # NoRun =>
            /\ ledger'[k].run = ledger[k].run
            /\ ledger'[k].status \in {"claimed", "done", "failed"}
            /\ ~JustClaimed(k)
      BY <2>2, <2>10, <1>a, <1>b, RowHelpers DEF CrashAndRestart, SweepClaims
    <3>2. \A k \in Keys : ledger'[k].run # NoRun => OfRun(k, ledger[k].run)
      BY <3>1 DEF RowInv
    <3> QED  BY <3>1, <3>2, <2>1, <1>b DEF RowInv, OfRun
  <2>11. CASE Environment /\ ~CrashAndRestart
    BY <2>3, <2>11, WorldFrame
  <2> QED  BY <2>6, <2>7, <2>8, <2>9, <2>10, <2>11 DEF Next, Environment
<1> QED  BY <1>1, <1>2, <1>3, <1>4

----------------------------------------------------------------------------
\* Who answers for a claim.

\* The claims of some runs may go; the others keep their thread, or stay refused.
LEMMA OwnersKept ==
    ASSUME IInv, ClaimsHaveOwner, NEW S,
           \A k \in Keys : ledger'[k].status = "claimed" =>
               /\ ledger[k].status = "claimed" /\ ledger'[k].run = ledger[k].run
               /\ ledger[k].run \notin S,
           \A r \in RunIds \ S :
               HasOwner(r) \/ RefusedRetry(r) => HasOwner(r)' \/ RefusedRetry(r)'
    PROVE  ClaimsHaveOwner'
<1> SUFFICES ASSUME NEW k \in Keys, ledger'[k].status = "claimed",
                    NEW r \in RunIds, ledger'[k].run = r
             PROVE  HasOwner(r)' \/ RefusedRetry(r)'
  <2>1. \A k \in Keys : ledger'[k].status = "claimed" => ledger'[k].run \in RunIds
    BY DEF IInv, ClaimInv
  <2> QED  BY <2>1 DEF ClaimsHaveOwner, HasOwner, RefusedRetry
<1>1. HasOwner(r) \/ RefusedRetry(r)
  BY DEF ClaimsHaveOwner
<1> QED  BY <1>1

\* What releases claims leaves the others alone.
LEMMA ReleaseClaims ==
    ASSUME TypeOK, WaitingLeft(ledger), NEW S, ledger' = Release(ledger, S)
    PROVE  \A k \in Keys : ledger'[k].status = "claimed" =>
               /\ ledger[k].status = "claimed" /\ ledger'[k].run = ledger[k].run
               /\ ledger[k].run \notin S
<1>1. NoNewClaims(ledger, ledger') /\ \A k \in Keys : ledger'[k].status = "claimed" => ledger'[k].run \notin S
  BY LedgerKeeps, Types
<1> QED  BY <1>1 DEF NoNewClaims

\* Every step leaves a claimed message with a thread that will complete or
\* release it, or under a retry that was refused.
LEMMA OwnerStep ==
    ASSUME IInv, StatusInv, ClaimsHaveOwner, Next
    PROVE  ClaimsHaveOwner'
<1>a. /\ PollerIdle.pc = "idle" /\ RetryIdle.pc = "idle"
      /\ poller \in PollerStates /\ retry \in [Retriers -> RetryStates]
      /\ ledger \in [Keys -> Rows] /\ runs \in [RunIds -> RunRows]
      /\ worker \in [RunIds -> {"none", "working", "settling", "publishing"}]
      /\ TypeOK /\ LockInv /\ RunInv /\ ClaimInv
  BY Types DEF IInv
<1>b. \A k \in Keys : ledger[k].status = "claimed" => ledger[k].run \in RunIds
  BY <1>a DEF ClaimInv
<1>c. WaitingLeft(ledger)
  BY <1>a DEF ClaimInv
<1> USE DEF HasOwner, RefusedRetry
\* Steps that claim nothing, by what they do to the threads and the runs.
<1>1. ASSUME \A k \in Keys : ledger'[k].status = "claimed" =>
                 ledger[k].status = "claimed" /\ ledger'[k].run = ledger[k].run,
             \A r \in RunIds : worker[r] \in {"working", "settling"} =>
                 worker'[r] \in {"working", "settling"},
             \A c \in Retriers : retry[c].pc = "submitting" => retry'[c] = retry[c],
             poller.pc \in {"claimed", "advanced"} => UNCHANGED poller,
             \A r \in RunIds : RefusedRetry(r) => RefusedRetry(r)'
      PROVE  ClaimsHaveOwner'
  <2> DEFINE none == {}
  <2>1. \A r \in RunIds \ none : HasOwner(r) \/ RefusedRetry(r) => HasOwner(r)' \/ RefusedRetry(r)'
    BY <1>1
  <2>2. \A k \in Keys : ledger'[k].status = "claimed" =>
             /\ ledger[k].status = "claimed" /\ ledger'[k].run = ledger[k].run
             /\ ledger[k].run \notin none
    BY <1>1
  <2> HIDE DEF HasOwner, RefusedRetry, none
  <2> QED  BY <2>1, <2>2, OwnersKept
<1>2. ASSUME PassOverlapGuard, lock = "free", UNCHANGED worker
      PROVE  ClaimsHaveOwner'
  <2>1. /\ poller.pc \notin {"claimed", "advanced"}
        /\ \A c \in Retriers : retry[c].pc # "submitting"
    BY <1>2, <1>a, RetriersAssumption DEF LockInv, PollerHolds, RetryHolds
  <2>2. \A k \in Keys : ledger'[k].status = "claimed" =>
            ledger[k].status = "claimed" /\ ledger'[k].run = ledger[k].run
    BY <1>2, <1>a, <1>c, ReleaseClaims DEF PassOverlapGuard, GuardOpen, ReleaseStaleRun
  <2>3. \A r \in RunIds : RefusedRetry(r) => RefusedRetry(r)'
    BY <1>2, <1>a DEF PassOverlapGuard, GuardOpen, ReleaseStaleRun, RunRows
  <2> QED  BY <1>1, <1>2, <2>1, <2>2, <2>3
<1>3. CASE Poll
  <2> USE DEF pollerKeeps, workers
  <2>1. CASE PollEnter
    BY <1>2, <2>1 DEF PollEnter
  <2>2. CASE PollClaim
    <3>1. poller'.pc = "claimed" /\ poller'.run = Fresh /\ UNCHANGED <<runs, worker, retry>>
      BY <2>2, <1>a DEF PollClaim, PollerStates
    <3>2. \A k \in Keys : ledger'[k] = ledger[k] \/ ledger'[k].run = Fresh
      BY <2>2, <1>a DEF PollClaim, Claim, Rows
    <3>3. poller.pc = "recorded"
      BY <2>2 DEF PollClaim
    <3> QED  BY <3>1, <3>2, <3>3 DEF ClaimsHaveOwner
  <2>3. CASE PollGivesBack
    <3>1. \A r \in RunIds \ {poller.run} :
            HasOwner(r) \/ RefusedRetry(r) => HasOwner(r)' \/ RefusedRetry(r)'
      BY <2>3 DEF PollGivesBack
    <3>2. \A k \in Keys : ledger'[k].status = "claimed" =>
               /\ ledger[k].status = "claimed" /\ ledger'[k].run = ledger[k].run
               /\ ledger[k].run \notin {poller.run}
      BY <2>3, <1>a, <1>c, ReleaseClaims DEF PollGivesBack
    <3> HIDE DEF HasOwner, RefusedRetry
    <3> QED  BY <3>1, <3>2, OwnersKept
  <2>4. CASE PollAdvance
    <3>1. poller'.pc = "advanced" /\ poller'.run = poller.run /\ UNCHANGED <<worker, retry>>
      BY <2>4, <1>a DEF PollAdvance, PollerStates
    <3>2. \A k \in Keys : ledger'[k].status = ledger[k].status /\ ledger'[k].run = ledger[k].run
      BY <2>4, <1>a DEF PollAdvance, MarkDispatched, ClaimedBy, WithStatus, Rows
    <3>3. \A r \in RunIds \ {poller.run} : runs'[r] = runs[r]
      BY <2>4, <1>a DEF PollAdvance
    <3> QED  BY <3>1, <3>2, <3>3, <1>b DEF ClaimsHaveOwner
  <2>5. CASE PollSubmit
    <3>1. poller.run \in RunIds /\ worker'[poller.run] = "working"
      BY <2>5, <1>a DEF PollSubmit, RunInv
    <3>2. \A r \in RunIds \ {poller.run} : worker'[r] = worker[r]
      BY <2>5, <1>a DEF PollSubmit
    <3>3. UNCHANGED <<retry, runs, ledger>>
      BY <2>5 DEF PollSubmit
    <3> QED  BY <3>1, <3>2, <3>3, <1>b DEF ClaimsHaveOwner
  <2>6. CASE PollSubmitFails
    <3>1. \A r \in RunIds \ {poller.run} :
            HasOwner(r) \/ RefusedRetry(r) => HasOwner(r)' \/ RefusedRetry(r)'
      BY <2>6, <1>a DEF PollSubmitFails
    <3>2. \A k \in Keys : ledger'[k].status = "claimed" =>
               /\ ledger[k].status = "claimed" /\ ledger'[k].run = ledger[k].run
               /\ ledger[k].run \notin {poller.run}
      BY <2>6, <1>a, <1>c, ReleaseClaims DEF PollSubmitFails
    <3> HIDE DEF HasOwner, RefusedRetry
    <3> QED  BY <3>1, <3>2, OwnersKept
  <2>7. CASE PollRecord \/ PollRebaseline
    <3>1. NoNewClaims(ledger, ledger')
      <4>1. CASE PollRecord
        <5>1. \E b, g, D, F : ledger' = Record(ledger, b, g, D, F)
          BY <4>1 DEF PollRecord
        <5> QED  BY <5>1, <1>a, <1>c, LedgerKeeps
      <4>2. CASE PollRebaseline
        BY <4>2, <1>a, <1>c, LedgerKeeps DEF PollRebaseline
      <4> QED  BY <2>7, <4>1, <4>2
    <3>2. poller.pc = "checked" /\ UNCHANGED <<worker, retry, runs>>
      BY <2>7 DEF PollRecord, PollRebaseline
    <3> QED  BY <1>1, <3>1, <3>2 DEF NoNewClaims
  <2>8. CASE \/ PollSkips \/ PollLoad \/ PollBlocked \/ PollCheckFails \/ PollCheck
             \/ PollBacklog \/ PollDeclines
    <3>1. UNCHANGED <<worker, retry, runs, ledger>> /\
          (poller.pc \in {"claimed", "advanced"} => UNCHANGED poller)
      BY <2>8 DEF PollSkips, PollLoad, PollBlocked, PollCheckFails, PollCheck, PollBacklog,
                  PollDeclines, vars
    <3> QED  BY <1>1, <3>1
  <2> QED  BY <1>3, <2>1, <2>2, <2>3, <2>4, <2>5, <2>6, <2>7, <2>8 DEF Poll
<1>4. ASSUME NEW r \in RunIds, Work(r)
      PROVE  ClaimsHaveOwner'
  <2>1. UNCHANGED <<poller, retry>>
    BY <1>4, WorkFrame
  <2>2. CASE UNCHANGED <<worker, runs, ledger>>
    BY <1>1, <2>1, <2>2
  <2>3. ASSUME NEW outcome \in {"completed", "failed", "cancelled"}, WorkerFinish(r, outcome)
        PROVE  ClaimsHaveOwner'
    <3>1. /\ worker'[r] = "settling" /\ UNCHANGED ledger
          /\ \A s \in RunIds \ {r} : worker'[s] = worker[s] /\ runs'[s] = runs[s]
      BY <2>3, <1>a DEF WorkerFinish
    <3> QED  BY <2>1, <3>1, <1>b DEF ClaimsHaveOwner
  <2>4. CASE WorkerSettle(r)
    <3>1. \A k \in Keys : ledger'[k].status = "claimed" =>
               /\ ledger[k].status = "claimed" /\ ledger'[k].run = ledger[k].run
               /\ ledger[k].run \notin {r}
      BY <2>4, <1>a DEF WorkerSettle, Complete, ClaimedBy, WithStatus, Rows
    <3>2. \A s \in RunIds \ {r} :
            HasOwner(s) \/ RefusedRetry(s) => HasOwner(s)' \/ RefusedRetry(s)'
      BY <2>1, <2>4, <1>a DEF WorkerSettle
    <3> HIDE DEF HasOwner, RefusedRetry
    <3> QED  BY <3>1, <3>2, OwnersKept
  <2>5. CASE WorkerPublish(r)
    <3>1. /\ worker[r] = "publishing" /\ UNCHANGED <<ledger, runs>>
          /\ \A s \in RunIds \ {r} : worker'[s] = worker[s]
      BY <2>5, <1>a DEF WorkerPublish
    <3> QED  BY <1>1, <2>1, <3>1
  <2> QED  BY <1>4, <2>2, <2>3, <2>4, <2>5 DEF Work, WorkerFindsDraft, WorkerScan, WorkerAppend,
                WorkerAppendFails, WorkerTrace
<1>5. ASSUME NEW c \in Retriers, Retry(c)
      PROVE  ClaimsHaveOwner'
  <2> USE DEF retryKeeps
  <2>1. CASE RetryEnter(c)
    BY <1>2, <2>1 DEF RetryEnter
  <2>2. CASE RetryAdvance(c)
    <3>1. Fresh \in RunIds /\ runs[Fresh].status = "none" /\ retry[c].pc = "building"
      BY <2>2, FreshTyped DEF RetryAdvance
    <3>2. /\ retry'[c].pc = "submitting" /\ retry'[c].run = Fresh
          /\ \A d \in Retriers \ {c} : retry'[d] = retry[d]
      BY <2>2, <1>a DEF RetryAdvance, RetryStates
    <3>3. UNCHANGED <<poller, worker>> /\ \A r \in RunIds \ {Fresh} : runs'[r] = runs[r]
      BY <2>2, <1>a DEF RetryAdvance
    <3>4. \A k \in Keys : ledger'[k].status = "claimed" =>
            ledger'[k] = ledger[k] \/ ledger'[k].run = Fresh
      BY <2>2, <1>a DEF RetryAdvance, ResolveRetry, Rows
    <3> QED  BY <3>1, <3>2, <3>3, <3>4, <1>b DEF ClaimsHaveOwner
  <2>3. CASE RetrySubmit(c)
    <3>1. retry[c].run \in RunIds /\ worker'[retry[c].run] = "working"
      BY <2>3, <1>a DEF RetrySubmit, RunInv
    <3>2. /\ \A r \in RunIds \ {retry[c].run} : worker'[r] = worker[r]
          /\ \A d \in Retriers \ {c} : retry'[d] = retry[d]
      BY <2>3, <1>a DEF RetrySubmit
    <3>3. UNCHANGED <<poller, runs, ledger>>
      BY <2>3 DEF RetrySubmit
    <3> QED  BY <3>1, <3>2, <3>3, <1>b DEF ClaimsHaveOwner
  <2>4. CASE RetrySubmitFails(c)
    <3>1. retry[c].run \in RunIds /\ runs[retry[c].run].retryOf # NoRun
      BY <2>4, <1>a DEF RetrySubmitFails, RunInv, StatusInv
    <3>2. /\ runs'[retry[c].run].status = "failed"
          /\ runs'[retry[c].run].retryOf = runs[retry[c].run].retryOf
          /\ \A r \in RunIds \ {retry[c].run} : runs'[r] = runs[r]
          /\ \A d \in Retriers \ {c} : retry'[d] = retry[d]
      BY <2>4, <3>1, <1>a DEF RetrySubmitFails, RunRows
    <3>3. UNCHANGED <<poller, worker, ledger>>
      BY <2>4 DEF RetrySubmitFails
    <3> QED  BY <3>1, <3>2, <3>3, <1>b DEF ClaimsHaveOwner
  <2>5. CASE (\E r \in RunIds : RetryBegin(c, r)) \/ RetryBlocked(c) \/ RetryRollsBack(c)
    <3>1. UNCHANGED <<poller, worker, runs, ledger>>
      BY <2>5 DEF RetryBegin, RetryBlocked, RetryRollsBack
    <3>2. \A d \in Retriers : retry[d].pc = "submitting" => retry'[d] = retry[d]
      BY <2>5, <1>a DEF RetryBegin, RetryBlocked, RetryRollsBack
    <3> QED  BY <1>1, <3>1, <3>2
  <2> QED  BY <1>5, <2>1, <2>2, <2>3, <2>4, <2>5 DEF Retry, RetryGoesOn
<1>6. CASE Customer
  <2>1. UNCHANGED <<poller, retry, worker, runs>> /\ NoNewClaims(ledger, ledger')
    BY <1>6, <1>a, <1>c, CustomerFrame, LedgerKeeps DEF NoNewClaims
  <2> QED  BY <1>1, <2>1 DEF NoNewClaims
<1>7. CASE CrashAndRestart
  <2>1. \A k \in Keys : ledger'[k].status = "claimed" =>
           ledger[k].status = "claimed" /\ ledger[k].run \notin RunIds
    BY <1>7, <1>a, <1>c, ReleaseClaims DEF CrashAndRestart, SweepClaims
  <2> QED  BY <2>1, <1>b DEF ClaimsHaveOwner
<1>8. CASE Environment /\ ~CrashAndRestart
  BY <1>1, <1>8, WorldFrame
<1> QED  BY <1>3, <1>4, <1>5, <1>6, <1>7, <1>8 DEF Next, Environment

----------------------------------------------------------------------------
\* What an automatic run may process.

\* A row that a run holds while it is recorded as running stays as it is.
HoldsItsRows(r) == \A k \in Keys : ledger[k].status = "claimed" /\ ledger[k].run = r =>
                       ledger'[k].status = "claimed" /\ ledger'[k].run = r

\* A step that dispatches nothing keeps the batches, if it takes no row from a
\* run that goes on.
LEMMA BatchesKept ==
    ASSUME IInv, RunMail, AutomaticRunsOwnTheirBatch, RunsMove,
           ~PollAdvance, ~\E c \in Retriers : RetryAdvance(c),
           \A r \in RunIds : runs'[r].status = "running" => HoldsItsRows(r)
    PROVE  AutomaticRunsOwnTheirBatch'
<1> SUFFICES ASSUME NEW r \in RunIds, runs'[r].status = "running", runs'[r].retryOf = NoRun,
                    NEW u \in runs'[r].uids
             PROVE  /\ ledger'[MessageKey(r, u)'].status = "claimed"
                    /\ ledger'[MessageKey(r, u)'].run = r
  BY DEF AutomaticRunsOwnTheirBatch, OwnsItsBatch, MessageKey, Key
<1>1. /\ runs[r].status = "running" /\ runs[r].retryOf = NoRun /\ u \in runs[r].uids
      /\ MessageKey(r, u)' = MessageKey(r, u)
  BY DEF RunsMove, MessageKey, Key
<1>2. MessageKey(r, u) \in Keys
  <2>1. runs[r].box \in Mailboxes /\ runs[r].gen \in Generations /\ u \in Uids
    BY <1>1, Types DEF RunMail, IInv, RunRows
  <2> QED  BY <2>1 DEF MessageKey, Key, Keys
<1>3. ledger[MessageKey(r, u)].status = "claimed" /\ ledger[MessageKey(r, u)].run = r
  BY <1>1 DEF AutomaticRunsOwnTheirBatch, OwnsItsBatch
<1> QED  BY <1>1, <1>2, <1>3 DEF HoldsItsRows

\* Every step leaves each automatic run that is recorded as running with
\* exactly the rows it was dispatched for.
LEMMA BatchStep ==
    ASSUME IInv, StatusInv, PollerMail, RunMail, RowInv, AutomaticRunsOwnTheirBatch, Next
    PROVE  AutomaticRunsOwnTheirBatch'
<1>a. /\ ledger \in [Keys -> Rows] /\ runs \in [RunIds -> RunRows]
      /\ TypeOK /\ LockInv /\ RunInv /\ GuardInv /\ ClaimInv
  BY Types DEF IInv
<1>1. CASE PollAdvance
  <2>0. PICK r \in RunIds : r = poller.run
    BY <1>1, PollDispatches
  <2>1. /\ r = poller.run /\ runs'[r].uids = Batch(r)
        /\ runs'[r].box = poller.box /\ runs'[r].gen = poller.seen.gen
        /\ \A s \in RunIds : s # r => runs'[s] = runs[s]
        /\ runs[r].status = "none"
    BY <1>1, <2>0, PollDispatches
  <2>2. \A s \in RunIds : s # r => runs'[s].status # "running"
    BY <1>1, <2>1, <1>a DEF PollAdvance, GuardInv
  <2>3. \A k \in Keys : /\ ledger'[k].status = ledger[k].status
                        /\ ledger'[k].run = ledger[k].run
    BY <1>1, <1>a DEF PollAdvance, MarkDispatched, ClaimedBy, WithStatus, Rows
  <2>4. ASSUME NEW u \in Batch(r)
        PROVE  /\ ledger'[MessageKey(r, u)'].status = "claimed"
               /\ ledger'[MessageKey(r, u)'].run = r
    <3>1. PICK k \in Keys : ledger[k].status = "claimed" /\ ledger[k].run = r /\ k.uid = u
      BY DEF Batch, ClaimedBy, WithStatus
    <3>2. k.box = poller.box /\ k.gen = poller.seen.gen
      BY <2>1, <3>1, NoRunAssumption DEF RowInv, OfRun, JustClaimed
    <3>3. k = MessageKey(r, u)'
      BY <2>1, <3>1, <3>2 DEF MessageKey, Key, Keys
    <3> QED  BY <2>3, <3>1, <3>3
  <2> QED  BY <2>1, <2>2, <2>4 DEF AutomaticRunsOwnTheirBatch, OwnsItsBatch, MessageKey, Key
<1>2. ASSUME NEW c \in Retriers, RetryAdvance(c)
      PROVE  AutomaticRunsOwnTheirBatch'
  <2>1. /\ runs'[Fresh].retryOf \in RunIds
        /\ \A s \in RunIds : s # Fresh => runs'[s] = runs[s]
    BY <1>2, RetryDispatches
  <2>2. \A s \in RunIds : s # Fresh => runs'[s].status # "running"
    BY <1>2, <2>1, <1>a DEF RetryAdvance, GuardInv
  <2> QED  BY <2>1, <2>2, NoRunAssumption DEF AutomaticRunsOwnTheirBatch
<1>3. ASSUME ~PollAdvance, ~\E c \in Retriers : RetryAdvance(c),
             \A r \in RunIds : runs'[r].status = "running" => HoldsItsRows(r)
      PROVE  AutomaticRunsOwnTheirBatch'
  BY <1>3, RunsStep, BatchesKept
<1>4. CASE UNCHANGED ledger
  BY <1>1, <1>2, <1>3, <1>4 DEF HoldsItsRows
<1>5. ASSUME NEW S, ledger' = Release(ledger, S), \A r \in S : r \in RunIds => runs'[r].status # "running"
      PROVE  AutomaticRunsOwnTheirBatch'
  BY <1>1, <1>2, <1>3, <1>5 DEF HoldsItsRows, Release, WithStatus
<1>6. CASE PassOverlapGuard
  BY <1>4, <1>5, <1>6, <1>a DEF PassOverlapGuard, GuardOpen, ReleaseStaleRun, RunRows
<1>7. CASE Poll
  <2>1. CASE PollEnter
    BY <1>6, <2>1 DEF PollEnter
  <2>2. CASE PollClaim
    BY <1>1, <1>2, <1>3, <2>2 DEF PollClaim, HoldsItsRows, Claim, Oldest, Waiting, PendingOf, WithStatus
  <2>3. CASE PollGivesBack
    BY <1>5, <2>3, <1>a DEF PollGivesBack, GuardInv
  <2>4. CASE PollSubmitFails
    BY <1>5, <2>4, <1>a DEF PollSubmitFails, RunRows
  <2>5. CASE PollRecord
    BY <1>1, <1>2, <1>3, <2>5 DEF PollRecord, HoldsItsRows, Record
  <2>6. CASE PollRebaseline
    BY <1>1, <1>2, <1>3, <2>6 DEF PollRebaseline, HoldsItsRows, Abandon
  <2>7. CASE \/ PollSkips \/ PollLoad \/ PollBlocked \/ PollCheckFails \/ PollCheck
             \/ PollBacklog \/ PollDeclines \/ PollSubmit
    BY <1>4, <2>7 DEF PollSkips, PollLoad, PollBlocked, PollCheckFails, PollCheck, PollBacklog,
                      PollDeclines, PollSubmit, vars
  <2> QED  BY <1>1, <1>7, <2>1, <2>2, <2>3, <2>4, <2>5, <2>6, <2>7 DEF Poll
<1>8. ASSUME NEW r \in RunIds, Work(r)
      PROVE  AutomaticRunsOwnTheirBatch'
  <2>1. CASE WorkerSettle(r)
    <3>1. runs'[r].status # "running"
      BY <2>1, <1>a DEF WorkerSettle, RunInv
    <3>2. \A s \in RunIds : s # r => HoldsItsRows(s)
      BY <2>1 DEF WorkerSettle, HoldsItsRows, Complete, ClaimedBy
    <3> QED  BY <1>1, <1>2, <1>3, <3>1, <3>2
  <2>2. CASE UNCHANGED ledger
    BY <1>4, <2>2
  <2> QED  BY <1>8, <2>1, <2>2 DEF Work, WorkerFindsDraft, WorkerScan, WorkerAppend,
              WorkerAppendFails, WorkerTrace, WorkerFinish, WorkerPublish
<1>9. ASSUME NEW c \in Retriers, Retry(c)
      PROVE  AutomaticRunsOwnTheirBatch'
  <2>1. CASE RetryEnter(c)
    BY <1>6, <2>1 DEF RetryEnter
  <2>2. CASE ~RetryEnter(c)
    BY <1>2, <1>4, <1>9, <2>2 DEF Retry, RetryGoesOn, RetryBegin, RetryBlocked, RetryRollsBack,
          RetrySubmit, RetrySubmitFails
  <2> QED  BY <2>1, <2>2
<1>10. CASE Customer
  <2>1. \/ UNCHANGED ledger
        \/ \E C : ledger' = Abandon(ledger, C)
        \/ \E k \in Keys : ledger[k].status = "filtered" /\ ledger' = ReleaseFiltered(ledger, k)
    BY <1>10, <1>a, CustomerFrame
  <2>2. ASSUME NEW C, ledger' = Abandon(ledger, C)
        PROVE  \A r \in RunIds : HoldsItsRows(r)
    BY <2>2 DEF Abandon, HoldsItsRows
  <2>3. ASSUME NEW j \in Keys, ledger[j].status = "filtered", ledger' = ReleaseFiltered(ledger, j)
        PROVE  \A r \in RunIds : HoldsItsRows(r)
    BY <2>3, <1>a DEF ReleaseFiltered, HoldsItsRows
  <2> QED  BY <1>1, <1>2, <1>3, <1>4, <2>1, <2>2, <2>3
<1>11. CASE CrashAndRestart
  <2>1. \A r \in RunIds : runs'[r].status # "running"
    BY <1>11, <1>a DEF CrashAndRestart, RunRows
  <2> QED  BY <1>1, <1>2, <1>3, <2>1
<1>12. CASE Environment /\ ~CrashAndRestart
  BY <1>4, <1>12, WorldFrame
<1> QED  BY <1>7, <1>8, <1>9, <1>10, <1>11, <1>12 DEF Next, Environment

----------------------------------------------------------------------------
\* The drafts of one message.

\* Faults are only ever counted.
LEMMA FaultsGrow ==
    ASSUME TypeOK, Next
    PROVE  faults' \in Nat /\ faults <= faults'
<1>a. faults \in Nat
  BY DEF TypeOK
<1>b. ASSUME Fault \/ UNCHANGED faults
      PROVE  faults' \in Nat /\ faults <= faults'
  BY <1>a, <1>b DEF Fault
<1>1. CASE Poll
  <2>1. Fault \/ UNCHANGED faults
    BY <1>1 DEF Poll, PollSkips, PollLoad, PollBlocked, PollEnter, PollCheckFails, PollCheck,
          PollRebaseline, PollRecord, PollBacklog, PollDeclines, PollClaim, PollGivesBack,
          PollAdvance, PollSubmit, PollSubmitFails, vars
  <2> QED  BY <1>b, <2>1
<1>2. ASSUME NEW r \in RunIds, Work(r)
      PROVE  Fault \/ UNCHANGED faults
  BY <1>2 DEF Work, WorkerFindsDraft, WorkerScan, WorkerAppend, WorkerAppendFails, WorkerTrace,
        WorkerFinish, WorkerSettle, WorkerPublish
<1>3. ASSUME NEW c \in Retriers, Retry(c)
      PROVE  Fault \/ UNCHANGED faults
  <2>1. CASE RetryEnter(c)
    BY <2>1 DEF RetryEnter
  <2>2. CASE ~RetryEnter(c)
    BY <1>3, <2>2 DEF Retry, RetryGoesOn, RetryBegin, RetryBlocked, RetryRollsBack, RetryAdvance,
          RetrySubmit, RetrySubmitFails
  <2> QED  BY <2>1, <2>2
<1>4. CASE Customer
  <2>1. UNCHANGED faults
    BY <1>4 DEF Customer, RequestGoesOn, SaveMailbox, SaveDisables, SaveAbandons, ClearMailbox,
          ClearDisables, EnableProbes, EnableWrites, EnableAbandons, Disable, Suspend,
          ReleaseMessage, CancelRun, requestKeeps
  <2> QED  BY <1>b, <2>1
<1>5. CASE Environment
  <2>1. Fault \/ UNCHANGED faults
    BY <1>5 DEF Environment, MailArrives, MailboxRebuilt, DraftLeaves, Midnight,
          RunBecomesOverdue, CrashAndRestart, outsideKeeps
  <2> QED  BY <1>b, <2>1
<1> QED  BY <1>b, <1>1, <1>2, <1>3, <1>4, <1>5 DEF Next

\* Only a worker and the customer touch the Drafts folders, and only a worker
\* and a crash the source keys' locks.
LEMMA DraftsFrame ==
    ASSUME Next, \A r \in RunIds : ~Work(r)
    PROVE  /\ UNCHANGED drafts \/ \E k \in Keys : DraftLeaves(k)
           /\ UNCHANGED appending \/ CrashAndRestart
           /\ UNCHANGED evidence
<1>1. CASE Poll
  BY <1>1 DEF Poll, PollSkips, PollLoad, PollBlocked, PollEnter, PollCheckFails, PollCheck,
        PollRebaseline, PollRecord, PollBacklog, PollDeclines, PollClaim, PollGivesBack,
        PollAdvance, PollSubmit, PollSubmitFails, vars, pollerKeeps, outside, workers
<1>2. ASSUME NEW c \in Retriers, Retry(c)
      PROVE  UNCHANGED <<drafts, appending, evidence>>
  BY <1>2 DEF Retry, RetryGoesOn, RetryBegin, RetryBlocked, RetryEnter, RetryRollsBack,
        RetryAdvance, RetrySubmit, RetrySubmitFails, retryKeeps, outside
<1>3. CASE Customer
  BY <1>3 DEF Customer, RequestGoesOn, SaveMailbox, SaveDisables, SaveAbandons, ClearMailbox,
        ClearDisables, EnableProbes, EnableWrites, EnableAbandons, Disable, Suspend,
        ReleaseMessage, CancelRun, requestKeeps, outside, workers
<1>4. CASE Environment
  BY <1>4 DEF Environment, MailArrives, MailboxRebuilt, Midnight, RunBecomesOverdue,
        CrashAndRestart, DraftLeaves, outsideKeeps, outside, workers
<1> QED  BY <1>1, <1>2, <1>3, <1>4 DEF Next

\* What a run that has a row is about never changes.
LEMMA MessageKept ==
    ASSUME IInv, StatusInv, PollerMail, RunMail, Next, NEW r \in RunIds,
           runs[r].status # "none"
    PROVE  /\ runs'[r].status # "none"
           /\ runs'[r].box = runs[r].box /\ runs'[r].gen = runs[r].gen
           /\ \A u \in Uids : MessageKey(r, u) \in Keys /\ MessageKey(r, u)' = MessageKey(r, u)
<1>1. runs[r].box \in Mailboxes /\ runs[r].gen \in Generations
  BY DEF RunMail
<1>2. runs'[r].status # "none" /\ runs'[r].box = runs[r].box /\ runs'[r].gen = runs[r].gen
  BY RunsStep, PollDispatches, RetryDispatches DEF RunsMove
<1> QED  BY <1>1, <1>2 DEF MessageKey, Key, Keys

\* Every step keeps the source key's promise.
LEMMA DraftStep ==
    ASSUME IInv, StatusInv, PollerMail, RunMail, DraftInv, Next
    PROVE  DraftInv'
<1>a. /\ drafts \in [Keys -> Nat] /\ faults \in Nat /\ appending \in [RunIds -> Top]
      /\ runs \in [RunIds -> RunRows] /\ TypeOK
  BY Types DEF IInv, TypeOK
<1>b. faults' \in Nat /\ faults <= faults'
  BY <1>a, FaultsGrow
<1>c. \A r \in RunIds : runs[r].status # "none" =>
          \A u \in Uids : MessageKey(r, u) \in Keys /\ MessageKey(r, u)' = MessageKey(r, u)
  BY MessageKept
<1>d. \A r \in RunIds : appending[r] # 0 =>
          runs[r].status # "none" /\ appending[r] \in Uids /\ worker[r] = "working"
  BY <1>a DEF StatusInv, Top
<1>e. \A r \in RunIds : \A u \in Uids : runs[r].status # "none" /\ appending'[r] = u =>
          MessageKey(r, appending[r])' = MessageKey(r, u)
  BY <1>c DEF MessageKey
<1>f. /\ \A k \in Keys : drafts[k] \in Nat /\ drafts[k] <= 1 + faults
      /\ \A r \in RunIds : \A u \in Uids : appending[r] = u /\ u # 0 =>
            drafts[MessageKey(r, u)] <= faults
      /\ \A r, s \in RunIds : \A u, v \in Uids :
            appending[r] = u /\ appending[s] = v /\ u # 0 /\ v # 0
              /\ MessageKey(r, u) = MessageKey(s, v) => r = s
  BY <1>a DEF DraftInv, NoDuplicateDraft
<1>g. \A u \in Uids : u # 0
  BY UidsAssumption
\* What the three conjuncts say after a step.
<1>h. ASSUME \A r \in RunIds : appending'[r] # 0 =>
                 appending'[r] \in Uids /\ runs[r].status # "none",
             \A k \in Keys : drafts'[k] <= 1 + faults',
             \A r \in RunIds : \A u \in Uids : appending'[r] = u => drafts'[MessageKey(r, u)] <= faults',
             \A r, s \in RunIds : \A u, v \in Uids :
                 appending'[r] = u /\ appending'[s] = v /\ MessageKey(r, u) = MessageKey(s, v) => r = s
      PROVE  DraftInv'
  <2>1. \A r \in RunIds : appending'[r] # 0 => drafts'[MessageKey(r, appending[r])'] <= faults'
    BY <1>h, <1>e
  <2>2. \A r, s \in RunIds : appending'[r] # 0 /\ appending'[s] # 0
            /\ MessageKey(r, appending[r])' = MessageKey(s, appending[s])' => r = s
    BY <1>h, <1>e
  <2> QED  BY <1>h, <2>1, <2>2 DEF DraftInv, NoDuplicateDraft
\* Nothing is appended, and no draft is added.
<1>i. ASSUME \A k \in Keys : drafts'[k] \in Nat /\ drafts'[k] <= drafts[k],
             \A r \in RunIds : appending'[r] \in {0, appending[r]}
      PROVE  DraftInv'
  <2>1. \A r \in RunIds : appending'[r] # 0 => appending'[r] = appending[r]
    BY <1>i
  <2>2. \A r \in RunIds : appending'[r] # 0 =>
            appending'[r] \in Uids /\ runs[r].status # "none"
    BY <1>d, <2>1
  <2>3. \A k \in Keys : drafts'[k] <= 1 + faults'
    BY <1>a, <1>b, <1>f, <1>i
  <2>4. \A r \in RunIds : \A u \in Uids : appending'[r] = u => drafts'[MessageKey(r, u)] <= faults'
    <3> SUFFICES ASSUME NEW r \in RunIds, NEW u \in Uids, appending'[r] = u
                 PROVE  drafts'[MessageKey(r, u)] <= faults'
      OBVIOUS
    <3>1. appending[r] = u /\ u # 0 /\ MessageKey(r, u) \in Keys
      BY <1>c, <1>d, <1>g, <2>1
    <3> DEFINE k == MessageKey(r, u)
    <3>2. drafts[k] \in Nat /\ drafts[k] <= faults /\ drafts'[k] \in Nat /\ drafts'[k] <= drafts[k]
      BY <1>f, <1>i, <3>1
    <3> HIDE DEF k
    <3>3. drafts'[k] <= faults'
      BY <1>a, <1>b, <3>2
    <3> QED  BY <3>3 DEF k
  <2>5. \A r, s \in RunIds : \A u, v \in Uids :
            appending'[r] = u /\ appending'[s] = v /\ MessageKey(r, u) = MessageKey(s, v) => r = s
    BY <1>f, <1>g, <2>1
  <2> QED  BY <1>h, <2>2, <2>3, <2>4, <2>5
<1>1. ASSUME NEW r \in RunIds, NEW u \in Uids, WorkerScan(r, u)
      PROVE  DraftInv'
  <2> DEFINE k == MessageKey(r, u)
  <2>1. /\ worker[r] = "working" /\ appending' = [appending EXCEPT ![r] = u] /\ UNCHANGED drafts
        /\ SourceKeyFree(r, u) /\ (IF drafts[k] = 0 THEN UNCHANGED faults ELSE Fault)
    BY <1>1 DEF WorkerScan, workerKeeps
  <2>2. runs[r].status # "none"
    BY <2>1 DEF StatusInv
  <2>3. k \in Keys
    BY <1>c, <2>2
  <2>4. \A s \in RunIds : \A v \in Uids : appending[s] = v => MessageKey(s, v) # k
    BY <1>g, <2>1 DEF SourceKeyFree, KeyLocked
  <2>5. drafts[k] <= faults'
    <3>1. drafts[k] \in Nat /\ drafts[k] <= 1 + faults
      BY <1>f, <2>3
    <3> HIDE DEF k
    <3>2. CASE drafts[k] = 0
      BY <3>2, <1>b
    <3>3. CASE drafts[k] # 0
      BY <3>1, <3>3, <2>1, <1>a DEF Fault
    <3> QED  BY <3>2, <3>3
  <2> HIDE DEF k
  <2>6. appending'[r] = u /\ \A s \in RunIds : s # r => appending'[s] = appending[s]
    BY <1>a, <2>1
  <2>7. \A s \in RunIds : appending'[s] # 0 => appending'[s] \in Uids /\ runs[s].status # "none"
    BY <1>d, <2>2, <2>6
  <2>8. \A j \in Keys : drafts'[j] <= 1 + faults'
    BY <1>a, <1>b, <1>f, <2>1
  <2>9. \A s \in RunIds : \A v \in Uids : appending'[s] = v => drafts'[MessageKey(s, v)] <= faults'
    <3> SUFFICES ASSUME NEW s \in RunIds, NEW v \in Uids, appending'[s] = v
                 PROVE  drafts[MessageKey(s, v)] <= faults'
      BY <2>1
    <3>1. CASE s = r
      BY <2>5, <2>6, <3>1 DEF k
    <3>2. CASE s # r
      <4>1. appending[s] = v /\ MessageKey(s, v) \in Keys
        BY <1>c, <1>d, <1>g, <2>6, <3>2
      <4> DEFINE j == MessageKey(s, v)
      <4>2. drafts[j] \in Nat /\ drafts[j] <= faults
        BY <1>f, <1>g, <4>1
      <4> HIDE DEF j
      <4>3. drafts[j] <= faults'
        BY <4>2, <1>a, <1>b
      <4> QED  BY <4>3 DEF j
    <3> QED  BY <3>1, <3>2
  <2>10. \A s, t \in RunIds : \A v, w \in Uids :
            appending'[s] = v /\ appending'[t] = w /\ MessageKey(s, v) = MessageKey(t, w) => s = t
    BY <1>f, <1>g, <2>4, <2>6 DEF k
  <2> QED  BY <1>h, <2>7, <2>8, <2>9, <2>10
<1>2. ASSUME NEW r \in RunIds, WorkerAppend(r) \/ WorkerAppendFails(r)
      PROVE  DraftInv'
  <2>0. appending[r] # 0
    BY <1>2 DEF WorkerAppend, WorkerAppendFails
  <2>1. PICK u \in Uids : appending[r] = u
    BY <2>0, <1>d
  <2> DEFINE k == MessageKey(r, u)
  <2>2. k \in Keys /\ drafts[k] \in Nat /\ drafts[k] <= faults
    BY <1>c, <1>d, <1>f, <1>g, <2>0, <2>1
  <2>3. PICK n \in {0, 1} : drafts' = [drafts EXCEPT ![k] = @ + n]
    BY <1>2, <2>1 DEF WorkerAppend, WorkerAppendFails
  <2>4. appending'[r] = 0 /\ \A s \in RunIds : s # r => appending'[s] = appending[s]
    BY <1>2, <1>a DEF WorkerAppend, WorkerAppendFails
  <2>5. \A s \in RunIds : \A v \in Uids : s # r /\ appending[s] = v => MessageKey(s, v) # k
    BY <1>f, <1>g, <2>1
  <2>6. \A s \in RunIds : \A v \in Uids : s # r /\ appending[s] = v => MessageKey(s, v) \in Keys
    BY <1>c, <1>d, <1>g
  <2> HIDE DEF k
  <2>7. \A j \in Keys : j # k => drafts'[j] = drafts[j]
    BY <2>3, <1>a
  <2>8. drafts'[k] <= 1 + faults'
    BY <2>2, <2>3, <1>a, <1>b
  <2>9. \A j \in Keys : drafts'[j] <= 1 + faults'
    BY <2>7, <2>8, <1>a, <1>b, <1>f
  <2>10. \A s \in RunIds : \A v \in Uids : appending'[s] = v => drafts'[MessageKey(s, v)] <= faults'
    <3> SUFFICES ASSUME NEW s \in RunIds, NEW v \in Uids, appending'[s] = v
                 PROVE  drafts'[MessageKey(s, v)] <= faults'
      OBVIOUS
    <3>1. s # r /\ appending[s] = v
      BY <1>g, <2>4
    <3> DEFINE j == MessageKey(s, v)
    <3>2. j \in Keys /\ j # k /\ drafts[j] \in Nat /\ drafts[j] <= faults
      BY <1>f, <1>g, <2>5, <2>6, <3>1
    <3> HIDE DEF j
    <3>3. drafts'[j] <= faults'
      BY <2>7, <3>2, <1>a, <1>b
    <3> QED  BY <3>3 DEF j
  <2>11. \A s \in RunIds : appending'[s] # 0 => s # r /\ appending'[s] = appending[s]
    BY <2>4
  <2>12. \A s \in RunIds : appending'[s] # 0 => appending'[s] \in Uids /\ runs[s].status # "none"
    BY <1>d, <2>11
  <2>13. \A s, t \in RunIds : \A v, w \in Uids :
            appending'[s] = v /\ appending'[t] = w /\ MessageKey(s, v) = MessageKey(t, w) => s = t
    BY <1>f, <1>g, <2>11
  <2> QED  BY <1>h, <2>9, <2>10, <2>12, <2>13
<1>3. ASSUME NEW r \in RunIds, Work(r), UNCHANGED <<drafts, appending>>
      PROVE  DraftInv'
  BY <1>3, <1>a, <1>i
<1>4. ASSUME \A r \in RunIds : ~Work(r)
      PROVE  DraftInv'
  <2>1. \A k \in Keys : drafts'[k] \in Nat /\ drafts'[k] <= drafts[k]
    BY <1>4, <1>a, DraftsFrame DEF DraftLeaves
  <2>2. \A r \in RunIds : appending'[r] \in {0, appending[r]}
    BY <1>4, <1>a, DraftsFrame DEF CrashAndRestart
  <2> QED  BY <2>1, <2>2, <1>i
<1> QED  BY <1>1, <1>2, <1>3, <1>4 DEF Work, WorkerFindsDraft, WorkerTrace, WorkerFinish,
            WorkerSettle, WorkerPublish, workerKeeps

----------------------------------------------------------------------------
\* What makes a message done.

\* A completed run that had the message, or a draft for it.
Earned(k) ==
    \/ \E r \in RunIds : runs[r].status = "completed" /\ runs[r].box = k.box
                         /\ runs[r].gen = k.gen /\ k.uid \in runs[r].uids
    \/ Handled(k)

\* While nobody takes drafts out of Drafts, what was earned stays earned.
LEMMA EarnedKept ==
    ASSUME IInv, BatchInv, EarnedInv, "send" \notin Requests, Next
    PROVE  /\ \A k \in Keys : Handled(k) => Handled(k)'
           /\ \A k \in Keys : Earned(k) => Earned(k)'
           /\ \A r \in RunIds : evidence'[r] # {} => runs'[r].status # "none"
<1>a. /\ drafts \in [Keys -> Nat] /\ evidence \in [RunIds -> SUBSET Uids]
      /\ runs \in [RunIds -> RunRows] /\ TypeOK
      /\ StatusInv /\ PollerMail /\ RunMail
  BY Types DEF IInv, TypeOK, BatchInv
<1>b. \A r \in RunIds : runs[r].status # "none" =>
          /\ runs'[r].status # "none" /\ runs'[r].box = runs[r].box /\ runs'[r].gen = runs[r].gen
          /\ \A u \in Uids : MessageKey(r, u) \in Keys
  BY <1>a, MessageKept
<1>c. /\ \A r \in RunIds : evidence[r] \subseteq evidence'[r]
      /\ \A r \in RunIds : evidence'[r] # {} => runs[r].status # "none"
  <2>1. CASE UNCHANGED evidence
    BY <2>1 DEF EarnedInv
  <2>2. ASSUME NEW r \in RunIds, WorkerTrace(r)
        PROVE  /\ \A s \in RunIds : evidence[s] \subseteq evidence'[s]
               /\ \A s \in RunIds : evidence'[s] # {} => runs[s].status # "none"
    <3>1. runs[r].status # "none"
      BY <2>2, <1>a DEF WorkerTrace, StatusInv
    <3> QED  BY <2>2, <3>1, <1>a DEF WorkerTrace, EarnedInv
  <2>3. ASSUME NEW r \in RunIds, Work(r), ~WorkerTrace(r)
        PROVE  UNCHANGED evidence
    BY <2>3 DEF Work, WorkerFindsDraft, WorkerScan, WorkerAppend, WorkerAppendFails,
          WorkerFinish, WorkerSettle, WorkerPublish
  <2> QED  BY <2>1, <2>2, <2>3, DraftsFrame
<1>d. \A k \in Keys : drafts[k] > 0 => drafts'[k] > 0
  <2>1. CASE \A r \in RunIds : ~Work(r)
    BY <2>1, DraftsFrame DEF DraftLeaves, Change
  <2>2. ASSUME NEW r \in RunIds, Work(r)
        PROVE  \A k \in Keys : drafts[k] > 0 => drafts'[k] > 0
    <3>1. CASE UNCHANGED drafts
      BY <3>1
    <3>2. CASE WorkerAppend(r) \/ WorkerAppendFails(r)
      <4> DEFINE j == MessageKey(r, appending[r])
      <4>1. PICK n \in {0, 1} : drafts' = [drafts EXCEPT ![j] = @ + n]
        BY <3>2 DEF WorkerAppend, WorkerAppendFails
      <4> HIDE DEF j
      <4> QED  BY <4>1, <1>a
    <3> QED  BY <2>2, <3>1, <3>2 DEF Work, WorkerFindsDraft, WorkerScan, WorkerTrace,
                WorkerFinish, WorkerSettle, WorkerPublish, workerKeeps
  <2> QED  BY <2>1, <2>2
<1>1. \A k \in Keys : Handled(k) => Handled(k)'
  <2> SUFFICES ASSUME NEW k \in Keys, Handled(k)
               PROVE  Handled(k)'
    OBVIOUS
  <2>1. CASE drafts[k] > 0
    BY <1>d, <2>1 DEF Handled
  <2>2. ASSUME NEW r \in RunIds, runs[r].box = k.box, runs[r].gen = k.gen, k.uid \in evidence[r]
        PROVE  Handled(k)'
    <3>1. runs[r].status # "none"
      BY <2>2 DEF EarnedInv
    <3>2. runs'[r].box = k.box /\ runs'[r].gen = k.gen /\ k.uid \in evidence'[r]
      BY <1>b, <1>c, <2>2, <3>1
    <3> QED  BY <3>2 DEF Handled
  <2> QED  BY <2>1, <2>2 DEF Handled
<1>2. \A k \in Keys : Earned(k) => Earned(k)'
  <2> SUFFICES ASSUME NEW k \in Keys, Earned(k)
               PROVE  Earned(k)'
    OBVIOUS
  <2>1. CASE Handled(k)
    BY <1>1, <2>1 DEF Earned
  <2>2. ASSUME NEW r \in RunIds, runs[r].status = "completed", runs[r].box = k.box,
               runs[r].gen = k.gen, k.uid \in runs[r].uids
        PROVE  Earned(k)'
    <3>1. runs'[r].status = "completed" /\ runs'[r].uids = runs[r].uids
      BY <1>a, <2>2, RunsStep, PollDispatches, RetryDispatches DEF RunsMove
    <3>2. runs'[r].box = k.box /\ runs'[r].gen = k.gen
      BY <1>b, <2>2
    <3> QED  BY <2>2, <3>1, <3>2 DEF Earned
  <2> QED  BY <2>1, <2>2 DEF Earned
<1>3. \A r \in RunIds : evidence'[r] # {} => runs'[r].status # "none"
  BY <1>b, <1>c
<1> QED  BY <1>1, <1>2, <1>3

\* What the traces of a retry family prove, is proved of the message.
LEMMA FamilyHandles ==
    ASSUME RunMail, NEW r \in RunIds, runs[r].status # "none", NEW u \in AlreadyDrafted(r)
    PROVE  Handled(MessageKey(r, u))
<1>1. PICK s \in Family(r) : u \in evidence[s]
  BY DEF AlreadyDrafted
<1>2. /\ s \in RunIds /\ runs[s].status # "none" /\ runs[s].family = runs[r].family
  BY DEF Family
<1>3. runs[s].box = runs[r].box /\ runs[s].gen = runs[r].gen
  BY <1>2 DEF RunMail, SameMail
<1> QED  BY <1>1, <1>2, <1>3 DEF Handled, MessageKey, Key

\* Every step that makes a message done has a completed run or a draft to show
\* for it.
LEMMA EarnedStep ==
    ASSUME IInv, BatchInv, EarnedInv, "send" \notin Requests, Next
    PROVE  EarnedInv'
<1>a. /\ PollerIdle.pc = "idle" /\ RetryIdle.pc = "idle"
      /\ retry \in [Retriers -> RetryStates] /\ ledger \in [Keys -> Rows]
      /\ runs \in [RunIds -> RunRows]
      /\ StatusInv /\ PollerMail /\ RunMail /\ RowInv /\ TypeOK /\ RunInv /\ RetryInv
  BY Types DEF IInv, BatchInv
<1>b. /\ \A k \in Keys : Handled(k) => Handled(k)'
      /\ \A k \in Keys : Earned(k) => Earned(k)'
      /\ \A r \in RunIds : evidence'[r] # {} => runs'[r].status # "none"
  BY EarnedKept
<1>c. \A k \in Keys : ledger[k].status = "done" => Earned(k)
  BY DEF EarnedInv, DoneIsEarned, Earned, Handled
<1>d. \A c \in Retriers : retry[c].pc # "idle" =>
          /\ retry[c].from \in RunIds /\ runs[retry[c].from].status # "none"
          /\ \A u \in Uids : MessageKey(retry[c].from, u) \in Keys
  BY <1>a, MessageKept DEF RetryInv, StatusInv
<1>1. \A k \in Keys : ledger'[k].status = "done" => Earned(k)'
  <2> SUFFICES ASSUME NEW k \in Keys, ledger'[k].status = "done", ledger[k].status # "done"
               PROVE  Earned(k)'
    BY <1>b, <1>c
  <2>1. ASSUME NEW r \in RunIds, WorkerSettle(r)
        PROVE  Earned(k)'
    <3> DEFINE D == IF runs[r].status = "completed" THEN runs[r].uids ELSE AlreadyDrafted(r)
    <3>1. ledger[k].run = r /\ ledger[k].status = "claimed" /\ k.uid \in D
      <4> HIDE DEF D
      <4>1. ledger' = Complete(ledger, r, D)
        BY <2>1 DEF WorkerSettle, D
      <4> QED  BY <4>1, <1>a DEF Complete, ClaimedBy, WithStatus, Rows
    <3>2. OfRun(k, r)
      <4>1. poller.pc = "claimed" => poller.run # r
        BY <2>1, <1>a DEF WorkerSettle, RunInv, NotStarted
      <4> QED  BY <3>1, <4>1, <1>a, NoRunAssumption DEF RowInv, JustClaimed
    <3>3. CASE runs[r].status = "completed"
      BY <1>b, <3>1, <3>2, <3>3 DEF OfRun, Earned
    <3>4. CASE runs[r].status # "completed"
      <4>1. Handled(MessageKey(r, k.uid))
        BY <1>a, <3>1, <3>2, <3>4, FamilyHandles DEF OfRun
      <4>2. MessageKey(r, k.uid) = k
        BY <3>2 DEF OfRun, MessageKey, Key, Keys
      <4> QED  BY <1>b, <4>1, <4>2 DEF Earned
    <3> QED  BY <3>3, <3>4
  <2>2. ASSUME NEW c \in Retriers, RetryAdvance(c)
        PROVE  Earned(k)'
    <3> DEFINE from == retry[c].from
    <3>1. retry[c].pc = "building" /\ ledger' = ResolveRetry(ledger, from, Fresh, retry[c].uids, retry[c].done)
      BY <2>2 DEF RetryAdvance
    <3>2. ledger[k].run = from /\ ledger[k].status = "failed" /\ k.uid \in retry[c].done
      BY <3>1, <1>a DEF ResolveRetry, WithStatus, Rows
    <3>3. from \in RunIds /\ from # NoRun
      BY <1>d, <3>1, NoRunAssumption
    <3>4. OfRun(k, from)
      BY <3>2, <3>3, <1>a DEF RowInv, JustClaimed
    <3>5. MessageKey(from, k.uid) = k
      BY <3>4 DEF OfRun, MessageKey, Key, Keys
    <3>6. Handled(k)
      BY <3>1, <3>2, <3>5 DEF EarnedInv
    <3> QED  BY <1>b, <3>6 DEF Earned
  <2>3. CASE /\ \A r \in RunIds : ~WorkerSettle(r)
             /\ \A c \in Retriers : ~RetryAdvance(c)
    <3>1. \/ UNCHANGED ledger
          \/ \E b, g, D, F : ledger' = Record(ledger, b, g, D, F)
          \/ \E r, B : ledger' = Claim(ledger, r, B)
          \/ \E r : ledger' = MarkDispatched(ledger, r)
          \/ \E S : ledger' = Release(ledger, S)
          \/ \E C : ledger' = Abandon(ledger, C)
          \/ \E j \in Keys : ledger' = ReleaseFiltered(ledger, j)
      <4>1. CASE Poll
        <5>1. CASE PollRecord
          BY <5>1 DEF PollRecord
        <5>2. CASE PollClaim \/ PollAdvance
          BY <5>2 DEF PollClaim, PollAdvance
        <5>3. CASE PollEnter \/ PollGivesBack \/ PollSubmitFails
          BY <5>3 DEF PollEnter, PollGivesBack, PollSubmitFails, PassOverlapGuard, GuardOpen,
                      ReleaseStaleRun
        <5>4. CASE PollRebaseline
          BY <5>4 DEF PollRebaseline
        <5>5. CASE \/ PollSkips \/ PollLoad \/ PollBlocked \/ PollCheckFails \/ PollCheck
                   \/ PollBacklog \/ PollDeclines \/ PollSubmit
          BY <5>5 DEF PollSkips, PollLoad, PollBlocked, PollCheckFails, PollCheck, PollBacklog,
                      PollDeclines, PollSubmit, vars
        <5> QED  BY <4>1, <5>1, <5>2, <5>3, <5>4, <5>5 DEF Poll
      <4>2. ASSUME NEW r \in RunIds, Work(r)
            PROVE  UNCHANGED ledger
        BY <2>3, <4>2 DEF Work, WorkerFindsDraft, WorkerScan, WorkerAppend, WorkerAppendFails,
              WorkerTrace, WorkerFinish, WorkerPublish
      <4>3. ASSUME NEW c \in Retriers, Retry(c)
            PROVE  UNCHANGED ledger \/ \E S : ledger' = Release(ledger, S)
        <5>1. CASE RetryEnter(c)
          BY <5>1 DEF RetryEnter, PassOverlapGuard, GuardOpen, ReleaseStaleRun
        <5>2. CASE ~RetryEnter(c)
          BY <2>3, <4>3, <5>2 DEF Retry, RetryGoesOn, RetryBegin, RetryBlocked, RetryRollsBack,
                RetrySubmit, RetrySubmitFails
        <5> QED  BY <5>1, <5>2
      <4>4. CASE Customer
        BY <4>4, <1>a, CustomerFrame
      <4>5. CASE Environment
        BY <4>5, WorldFrame DEF CrashAndRestart, SweepClaims
      <4> QED  BY <4>1, <4>2, <4>3, <4>4, <4>5 DEF Next
    <3>2. ledger'[k].status # "done"
      <4>1. \A b, g, D, F : Record(ledger, b, g, D, F)[k].status # "done"
        BY DEF Record, NoRow
      <4>2. \A r, B : Claim(ledger, r, B)[k].status # "done"
        BY <1>a DEF Claim, Rows
      <4>3. \A r : MarkDispatched(ledger, r)[k].status # "done"
        BY <1>a DEF MarkDispatched, Rows
      <4>4. \A S : Release(ledger, S)[k].status # "done"
        BY <1>a DEF Release, Rows
      <4>5. \A C : Abandon(ledger, C)[k].status # "done"
        BY <1>a DEF Abandon, Rows
      <4>6. \A j \in Keys : ReleaseFiltered(ledger, j)[k].status # "done"
        BY <1>a DEF ReleaseFiltered, Rows
      <4> QED  BY <3>1, <4>1, <4>2, <4>3, <4>4, <4>5, <4>6
    <3> QED  BY <3>2
  <2> QED  BY <2>1, <2>2, <2>3
<1>2. \A c \in Retriers : retry'[c].pc = "building" =>
          \A u \in retry'[c].done : Handled(MessageKey(retry[c].from, u))'
  <2> SUFFICES ASSUME NEW c \in Retriers, retry'[c].pc = "building", NEW u \in retry'[c].done
               PROVE  Handled(MessageKey(retry[c].from, u))'
    OBVIOUS
  <2>1. TypeOK' /\ u \in Uids
    <3>1. retry' \in [Retriers -> RetryStates]
      BY TypeStep DEF TypeOK
    <3> QED  BY <3>1, TypeStep DEF RetryStates
  <2>2. CASE retry'[c] = retry[c]
    <3>1. PICK r \in RunIds : r = retry[c].from
      BY <1>d, <2>2
    <3>2. Handled(MessageKey(r, u)) /\ MessageKey(r, u) \in Keys
      BY <1>d, <2>1, <2>2, <3>1 DEF EarnedInv
    <3>3. PICK k \in Keys : k = MessageKey(r, u)
      BY <3>2
    <3>4. MessageKey(r, u)' = k
      BY <1>a, <1>d, <2>1, <2>2, <3>1, <3>3, MessageKept
    <3>5. Handled(k)'
      BY <1>b, <3>2, <3>3
    <3> QED  BY <2>2, <3>1, <3>4, <3>5
  <2>3. CASE RetryEnter(c)
    <3> DEFINE from == retry[c].from
    <3>1. PICK scanned \in {InDrafts(from), {}} :
            LET done == AlreadyDrafted(from) \cup scanned
                left == runs[from].uids \ done
                flushed == FlushRollover(trigger, retry[c].seen, retry[c].day)
                seen == IF LastRunStale THEN RolledOver(retry[c].seen, retry[c].day)
                                        ELSE retry[c].seen
                refused == \/ AtDailyCap(flushed, retry[c].day)
                           \/ RetryOfRunning(from)
                           \/ left = {}
            IN retry' = [retry EXCEPT ![c] =
                   IF refused THEN RetryIdle
                   ELSE [retry[c] EXCEPT !.pc = "building", !.uids = left, !.done = done,
                                         !.seen = seen]]
      BY <2>3 DEF RetryEnter
    <3>2. retry'[c].from = from /\ u \in AlreadyDrafted(from) \cup scanned
      BY <3>1, <1>a DEF RetryStates
    <3>3. PICK r \in RunIds : r = from /\ runs[r].status # "none"
      BY <1>d, <2>3 DEF RetryEnter
    <3>4. PICK k \in Keys : k = MessageKey(r, u)
      BY <1>d, <2>1, <2>3, <3>3 DEF RetryEnter
    <3>5. Handled(k)
      BY <1>a, <3>2, <3>3, <3>4, FamilyHandles DEF InDrafts, Handled
    <3>6. MessageKey(r, u)' = k
      BY <1>a, <2>1, <3>3, <3>4, MessageKept
    <3>7. Handled(k)'
      BY <1>b, <3>5
    <3> QED  BY <3>2, <3>3, <3>6, <3>7
  <2>4. CASE retry'[c] # retry[c] /\ ~RetryEnter(c)
    <3>1. ASSUME NEW d \in Retriers, Retry(d)
          PROVE  FALSE
      <4>1. d # c => retry'[c] = retry[c]
        BY <3>1, <1>a DEF Retry, RetryGoesOn, RetryBegin, RetryBlocked, RetryEnter, RetryRollsBack,
              RetryAdvance, RetrySubmit, RetrySubmitFails
      <4>2. d = c => retry'[c].pc # "building"
        <5>1. ASSUME NEW r \in RunIds, RetryBegin(c, r)
              PROVE  retry'[c].pc # "building"
          BY <5>1, <1>a DEF RetryBegin, RetryIdle
        <5>2. CASE RetryAdvance(c)
          BY <5>2, <1>a DEF RetryAdvance, RetryStates
        <5>3. CASE \/ RetryBlocked(c) \/ RetryRollsBack(c) \/ RetrySubmit(c) \/ RetrySubmitFails(c)
          BY <5>3, <1>a DEF RetryBlocked, RetryRollsBack, RetrySubmit, RetrySubmitFails
        <5> QED  BY <2>4, <3>1, <5>1, <5>2, <5>3 DEF Retry, RetryGoesOn
      <4> QED  BY <2>4, <4>1, <4>2
    <3>2. CASE CrashAndRestart
      BY <3>2, <1>a DEF CrashAndRestart
    <3>3. CASE Poll \/ Customer \/ (Environment /\ ~CrashAndRestart) \/ \E r \in RunIds : Work(r)
      <4>1. UNCHANGED retry
        BY <3>3, <1>a, CustomerFrame, WorldFrame, WorkFrame DEF Poll, PollSkips, PollLoad, PollBlocked,
              PollEnter, PollCheckFails, PollCheck, PollRebaseline, PollRecord, PollBacklog,
              PollDeclines, PollClaim, PollGivesBack, PollAdvance, PollSubmit, PollSubmitFails,
              pollerKeeps, vars
      <4> QED  BY <2>4, <4>1
    <3> QED  BY <3>1, <3>2, <3>3 DEF Next, Environment
  <2> QED  BY <2>2, <2>3, <2>4
<1> QED  BY <1>b, <1>1, <1>2 DEF EarnedInv, DoneIsEarned, Earned, Handled

----------------------------------------------------------------------------
\* What the settings requests leave of a poll that is under way.

\* The rollover and the dispatch touch the day's counters and last_run_id only.
LEMMA SettingsKept ==
    ASSUME NEW row \in TriggerRows, NEW seen \in TriggerRows, NEW day \in Nat
    PROVE  /\ LET f == FlushRollover(row, seen, day) IN
              f.enabled = row.enabled /\ f.gen = row.gen /\ f.cursor = row.cursor
           /\ LET f == RolledOver(row, day) IN f.gen = row.gen /\ f.cursor = row.cursor
           /\ \A r \in RunIds, n \in Nat : LET f == Advanced(row, r, n) IN
              f.enabled = row.enabled /\ f.gen = row.gen /\ f.cursor = row.cursor
<1>1. LET f == FlushRollover(row, seen, day) IN
      f.enabled = row.enabled /\ f.gen = row.gen /\ f.cursor = row.cursor
  <2>1. CASE seen.date = day
    BY <2>1 DEF FlushRollover
  <2>2. CASE seen.date # day
    <3> DEFINE rt == IF seen.runsToday = 0 THEN row.runsToday ELSE 0
               mt == IF seen.messagesToday = 0 THEN row.messagesToday ELSE 0
    <3>1. FlushRollover(row, seen, day) =
            [row EXCEPT !.runsToday = rt, !.messagesToday = mt, !.date = day]
      BY <2>2 DEF FlushRollover
    <3> HIDE DEF rt, mt
    <3> QED  BY <3>1 DEF TriggerRows
  <2> QED  BY <2>1, <2>2
<1>2. LET f == RolledOver(row, day) IN f.gen = row.gen /\ f.cursor = row.cursor
  BY DEF RolledOver, TriggerRows
<1>3. \A r \in RunIds, n \in Nat : LET f == Advanced(row, r, n) IN
      f.enabled = row.enabled /\ f.gen = row.gen /\ f.cursor = row.cursor
  BY DEF Advanced, TriggerRows
<1> QED  BY <1>1, <1>2, <1>3

\* What the poller and the retries may do to the trigger row.
LEMMA TriggerMove ==
    ASSUME IInv, Next, ~Customer
    PROVE  /\ trigger'.enabled = trigger.enabled
           /\ PollRecord \/ PollRebaseline \/
                (trigger'.gen = trigger.gen /\ trigger'.cursor = trigger.cursor)
<1>a. /\ trigger \in TriggerRows /\ poller \in PollerStates /\ retry \in [Retriers -> RetryStates]
      /\ today \in Nat /\ TypeOK
  BY Types DEF IInv, TypeOK
<1>1. CASE Poll
  <2>1. CASE PollBlocked \/ PollEnter
    <3>1. poller.seen \in TriggerRows /\ poller.day \in Nat
      BY <1>a DEF PollerStates
    <3> QED  BY <2>1, <3>1, <1>a, SettingsKept DEF PollBlocked, PollEnter
  <2>2. CASE PollAdvance
    <3>1. poller.run \in RunIds /\ Cardinality(Batch(poller.run)) \in Nat
      BY <2>2, BatchTyped DEF PollAdvance, IInv, RunInv
    <3> QED  BY <2>2, <3>1, <1>a, SettingsKept DEF PollAdvance
  <2>3. CASE PollRecord \/ PollRebaseline
    BY <2>3, <1>a DEF PollRecord, PollRebaseline, TriggerRows
  <2>4. CASE UNCHANGED trigger
    BY <2>4
  <2> QED  BY <1>1, <2>1, <2>2, <2>3, <2>4 DEF Poll, PollSkips, PollLoad, PollCheckFails, PollCheck,
              PollBacklog, PollDeclines, PollClaim, PollGivesBack, PollSubmit, PollSubmitFails, vars
<1>2. ASSUME NEW c \in Retriers, Retry(c)
      PROVE  trigger'.enabled = trigger.enabled /\ trigger'.gen = trigger.gen
             /\ trigger'.cursor = trigger.cursor
  <2>0. retry[c].seen \in TriggerRows /\ retry[c].day \in Nat
    BY <1>a DEF RetryStates
  <2> DEFINE flushed == FlushRollover(trigger, retry[c].seen, retry[c].day)
  <2>1. CASE RetryEnter(c)
    <3>1. trigger' \in {trigger, flushed}
      BY <2>1 DEF RetryEnter
    <3> QED  BY <3>1, <2>0, <1>a, SettingsKept
  <2>2. CASE RetryBlocked(c)
    BY <2>2, <2>0, <1>a, SettingsKept DEF RetryBlocked
  <2>3. CASE RetryAdvance(c)
    <3>1. flushed \in TriggerRows /\ Fresh \in RunIds /\ trigger' = Advanced(flushed, Fresh, 0)
      BY <2>3, <2>0, <1>a, TriggerTyped, FreshTyped DEF RetryAdvance
    <3>2. /\ flushed.enabled = trigger.enabled /\ flushed.gen = trigger.gen
          /\ flushed.cursor = trigger.cursor
      BY <2>0, <1>a, SettingsKept
    <3> HIDE DEF flushed
    <3>3. /\ trigger'.enabled = flushed.enabled /\ trigger'.gen = flushed.gen
          /\ trigger'.cursor = flushed.cursor
      BY <3>1 DEF Advanced, TriggerRows
    <3> QED  BY <3>2, <3>3
  <2>4. CASE UNCHANGED trigger
    BY <2>4
  <2> QED  BY <1>2, <2>1, <2>2, <2>3, <2>4 DEF Retry, RetryGoesOn, RetryBegin, RetryRollsBack,
              RetrySubmit, RetrySubmitFails
<1>3. CASE Environment \/ \E r \in RunIds : Work(r)
  <2>1. UNCHANGED trigger
    BY <1>3, WorkFrame, WorldFrame DEF CrashAndRestart
  <2> QED  BY <2>1
<1> QED  BY <1>1, <1>2, <1>3 DEF Next

\* Only the settings requests touch the credential, only they and a crash the
\* record of the request, and only they and a re-baseline the baseline.
LEMMA RequestFrame ==
    ASSUME Next, ~Customer
    PROVE  /\ UNCHANGED cred
           /\ UNCHANGED request \/ CrashAndRestart
           /\ UNCHANGED baseline \/ PollRebaseline
<1>1. CASE Poll
  BY <1>1 DEF Poll, PollSkips, PollLoad, PollBlocked, PollEnter, PollCheckFails, PollCheck,
        PollRebaseline, PollRecord, PollBacklog, PollDeclines, PollClaim, PollGivesBack,
        PollAdvance, PollSubmit, PollSubmitFails, vars, pollerKeeps, settings
<1>2. ASSUME NEW r \in RunIds, Work(r)
      PROVE  UNCHANGED <<cred, request, baseline>>
  BY <1>2 DEF Work, WorkerFindsDraft, WorkerScan, WorkerAppend, WorkerAppendFails, WorkerTrace,
        WorkerFinish, WorkerSettle, WorkerPublish, workerKeeps, settings
<1>3. ASSUME NEW c \in Retriers, Retry(c)
      PROVE  UNCHANGED <<cred, request, baseline>>
  BY <1>3 DEF Retry, RetryGoesOn, RetryBegin, RetryBlocked, RetryEnter, RetryRollsBack,
        RetryAdvance, RetrySubmit, RetrySubmitFails, retryKeeps, settings
<1>4. CASE Environment
  BY <1>4 DEF Environment, MailArrives, MailboxRebuilt, DraftLeaves, Midnight, RunBecomesOverdue,
        CrashAndRestart, outsideKeeps, settings
<1> QED  BY <1>1, <1>2, <1>3, <1>4 DEF Next

\* A poll is about the credential it read until it leaves.
LEMMA PollerBox ==
    ASSUME TypeOK, Next
    PROVE  poller'.pc \in {"checked", "recorded", "claimed"} =>
               \/ poller.pc \in {"checked", "recorded", "claimed"} /\ poller'.box = poller.box
               \/ PollCheck /\ poller'.box = cred
<1>a. PollerIdle.pc = "idle" /\ poller \in PollerStates
  BY Types
<1>1. CASE PollCheck
  BY <1>1, <1>a DEF PollCheck, PollerStates
<1>2. CASE PollRecord
  <2>1. PICK last \in Detected : poller' = [poller EXCEPT !.pc = "recorded", !.seen.cursor = last]
    BY <1>2 DEF PollRecord
  <2> QED  BY <1>2, <2>1, <1>a DEF PollRecord, PollerStates
<1>3. CASE PollBacklog \/ PollClaim
  BY <1>3, <1>a DEF PollBacklog, PollClaim, Leave, PollerStates
<1>4. CASE PollLoad \/ PollEnter \/ PollAdvance
  BY <1>4, <1>a DEF PollLoad, PollEnter, PollAdvance, PollerStates
<1>5. CASE \/ PollBlocked \/ PollCheckFails \/ PollRebaseline \/ PollDeclines \/ PollGivesBack
           \/ PollSubmit \/ PollSubmitFails \/ CrashAndRestart
  <2>1. poller' = PollerIdle
    BY <1>5 DEF PollBlocked, PollCheckFails, PollRebaseline, PollDeclines, PollGivesBack,
          PollSubmit, PollSubmitFails, CrashAndRestart, Leave
  <2> QED  BY <2>1, <1>a
<1>6. CASE PollSkips \/ (~Poll /\ ~CrashAndRestart)
  BY <1>6, PollerFrame DEF PollSkips, vars
<1> QED  BY <1>1, <1>2, <1>3, <1>4, <1>5, <1>6 DEF Poll

\* A retry is about the run it was asked for until it leaves.
LEMMA RetryFrom ==
    ASSUME TypeOK, Next, NEW c \in Retriers, retry'[c].pc \in {"loaded", "building"}
    PROVE  \/ retry[c].pc \in {"loaded", "building"} /\ retry'[c].from = retry[c].from
           \/ \E r \in RunIds : RetryBegin(c, r) /\ retry'[c].from = r
<1>a. RetryIdle.pc = "idle" /\ retry \in [Retriers -> RetryStates]
  BY Types
<1>1. CASE retry'[c] = retry[c]
  BY <1>1
<1>2. ASSUME NEW d \in Retriers, Retry(d), retry'[c] # retry[c]
      PROVE  \/ retry[c].pc \in {"loaded", "building"} /\ retry'[c].from = retry[c].from
             \/ \E r \in RunIds : RetryBegin(c, r) /\ retry'[c].from = r
  <2>1. d = c
    BY <1>2, <1>a DEF Retry, RetryGoesOn, RetryBegin, RetryBlocked, RetryEnter, RetryRollsBack,
          RetryAdvance, RetrySubmit, RetrySubmitFails
  <2>2. ASSUME NEW r \in RunIds, RetryBegin(c, r)
        PROVE  retry'[c].from = r
    BY <2>2, <1>a DEF RetryBegin, RetryIdle
  <2>3. CASE RetryEnter(c)
    BY <2>3, <1>a DEF RetryEnter, RetryStates
  <2>4. CASE RetryAdvance(c)
    BY <2>4, <1>a DEF RetryAdvance, RetryStates
  <2>5. CASE RetryBlocked(c) \/ RetryRollsBack(c) \/ RetrySubmit(c) \/ RetrySubmitFails(c)
    BY <2>5, <1>a DEF RetryBlocked, RetryRollsBack, RetrySubmit, RetrySubmitFails
  <2> QED  BY <1>2, <2>1, <2>2, <2>3, <2>4, <2>5 DEF Retry, RetryGoesOn
<1>3. CASE CrashAndRestart
  BY <1>3, <1>a DEF CrashAndRestart
<1>4. CASE Poll \/ Customer \/ (Environment /\ ~CrashAndRestart) \/ \E r \in RunIds : Work(r)
  <2>1. UNCHANGED retry
    BY <1>4, CustomerFrame, WorldFrame, WorkFrame DEF Poll, PollSkips, PollLoad, PollBlocked,
          PollEnter, PollCheckFails, PollCheck, PollRebaseline, PollRecord, PollBacklog,
          PollDeclines, PollClaim, PollGivesBack, PollAdvance, PollSubmit, PollSubmitFails,
          pollerKeeps, vars
  <2> QED  BY <1>1, <2>1
<1> QED  BY <1>1, <1>2, <1>3, <1>4 DEF Next, Environment

\* Without a new enable, a mailbox that is replaced or disconnected stops what
\* is under way for it, once the request has made its second commit.
LEMMA QuietInvStep ==
    ASSUME IInv, BatchInv, QuietInv, "enable" \notin Requests, Next
    PROVE  QuietInv'
<1>a. /\ trigger \in TriggerRows /\ request \in RequestStates
      /\ cred \in Mailboxes \cup {NoMailbox} /\ TypeOK /\ RequestIdle.pc = "idle"
      /\ PollerIdle.pc = "idle" /\ RetryIdle.pc = "idle"
      /\ StatusInv /\ PollerMail /\ RunMail /\ RetryInv
  BY Types DEF IInv, TypeOK, BatchInv, RequestIdle
<1>b. \A c \in Retriers : retry[c].pc \in {"loaded", "building"} =>
          /\ retry[c].from \in RunIds /\ runs[retry[c].from].status # "none"
          /\ runs[retry[c].from].box \in Mailboxes
  BY <1>a DEF StatusInv, RetryInv, RunMail
<1>c. poller.pc \in {"checked", "recorded", "claimed"} => poller.box \in Mailboxes
  BY <1>a DEF PollerMail
<1>1. CASE ~Customer
  <2>1. UNCHANGED cred /\ (UNCHANGED request \/ CrashAndRestart) /\ trigger'.enabled = trigger.enabled
    BY <1>1, RequestFrame, TriggerMove
  <2>2. CASE CrashAndRestart
    BY <2>2, <1>a DEF CrashAndRestart, QuietInv
  <2>3. CASE ~CrashAndRestart
    <3>1. Stopped' <=> Stopped
      BY <2>1, <2>3 DEF Stopped
    <3>2. poller'.pc \in {"checked", "recorded", "claimed"} /\ poller'.box # cred => Stopped
      BY <1>a, PollerBox DEF QuietInv
    <3>3. ASSUME NEW c \in Retriers, retry'[c].pc \in {"loaded", "building"},
                 runs'[retry'[c].from].box # cred
          PROVE  Stopped
      <4>1. PICK r : r = retry'[c].from
        OBVIOUS
      <4>2. CASE retry[c].pc \in {"loaded", "building"} /\ r = retry[c].from
        <5>1. runs'[r].box = runs[r].box
          BY <1>a, <1>b, <4>2, MessageKept
        <5> QED  BY <3>3, <4>1, <4>2, <5>1 DEF QuietInv
      <4>3. CASE r \in RunIds /\ RetryBegin(c, r)
        BY <3>3, <4>1, <4>3 DEF RetryBegin
      <4> QED  BY <1>a, <3>3, <4>1, <4>2, <4>3, RetryFrom
    <3> QED  BY <2>1, <2>3, <3>1, <3>2, <3>3 DEF QuietInv
  <2> QED  BY <2>2, <2>3
<1>2. CASE Customer
  <2>1. UNCHANGED <<poller, retry, runs>>
    BY <1>2, <1>a, CustomerFrame
  <2>2. ASSUME NEW b \in Mailboxes, SaveMailbox(b)
        PROVE  QuietInv'
    <3>1. /\ request.pc = "idle" /\ cred' = b /\ UNCHANGED trigger
          /\ request'.pc = "saved" /\ request'.box = b
          /\ request'.replaced = (cred \notin {NoMailbox, b})
      BY <2>2 DEF SaveMailbox, RequestIdle
    <3>2. cred \in {NoMailbox, b} => \A m \in Mailboxes : m # b => m # cred
      BY NoMailboxAssumption
    <3> QED  BY <2>1, <3>1, <3>2, <1>b, <1>c DEF QuietInv, Stopped
  <2>3. CASE SaveDisables
    <3>1. /\ request.pc = "saved" /\ UNCHANGED cred /\ request'.pc = "disabled"
          /\ trigger'.enabled = (trigger.enabled /\ ~request.replaced)
      BY <2>3, <1>a DEF SaveDisables, settings, RequestStates, TriggerRows
    <3> QED  BY <2>1, <3>1 DEF QuietInv, Stopped
  <2>4. CASE SaveAbandons
    BY <2>1, <2>4, <1>a DEF SaveAbandons, settings, QuietInv, Stopped
  <2>5. CASE ClearMailbox
    BY <2>1, <2>5, <1>a DEF ClearMailbox, RequestIdle, QuietInv, Stopped
  <2>6. CASE ClearDisables
    <3>1. ~trigger'.enabled /\ UNCHANGED cred /\ request'.pc = "idle"
      BY <2>6, <1>a DEF ClearDisables, settings, TriggerRows
    <3> QED  BY <2>1, <3>1 DEF QuietInv, Stopped
  <2>7. CASE EnableProbes \/ EnableWrites \/ EnableAbandons
    BY <2>7 DEF EnableProbes, EnableWrites, EnableAbandons, Change, QuietInv
  <2>8. CASE Disable
    <3>1. ~trigger'.enabled /\ UNCHANGED <<cred, request>>
      BY <2>8, <1>a DEF Disable, settings, TriggerRows
    <3> QED  BY <2>1, <3>1 DEF QuietInv, Stopped
  <2>9. CASE Suspend \/ (\E k \in Keys : ReleaseMessage(k)) \/ \E r \in RunIds : CancelRun(r)
    <3>1. UNCHANGED <<cred, request, trigger>>
      BY <2>9 DEF Suspend, ReleaseMessage, CancelRun, settings
    <3> QED  BY <2>1, <3>1 DEF QuietInv, Stopped
  <2> QED  BY <1>2, <2>2, <2>3, <2>4, <2>5, <2>6, <2>7, <2>8, <2>9 DEF Customer, RequestGoesOn
<1> QED  BY <1>1, <1>2

\* No statement of the ledger removes a row.
LEMMA RowsStay ==
    ASSUME TypeOK, LedgerMove, NEW k \in Keys, ledger[k].status # "absent"
    PROVE  ledger'[k].status # "absent"
<1>a. ledger \in [Keys -> Rows] /\ ledger[k] \in Rows
  BY DEF TypeOK
<1>1. \A b, g, D, F : Record(ledger, b, g, D, F)[k] = ledger[k]
  BY DEF Record
<1>2. \A r, B : Claim(ledger, r, B)[k].status # "absent"
  BY <1>a DEF Claim, Rows
<1>3. \A r : MarkDispatched(ledger, r)[k].status # "absent"
  BY <1>a DEF MarkDispatched, Rows
<1>4. \A r, D : Complete(ledger, r, D)[k].status # "absent"
  BY <1>a DEF Complete, Rows
<1>5. \A S : Release(ledger, S)[k].status # "absent"
  BY <1>a DEF Release, Rows
<1>6. \A C : Abandon(ledger, C)[k].status # "absent"
  BY <1>a DEF Abandon, Rows
<1>7. \A f, t, R, D : ResolveRetry(ledger, f, t, R, D)[k].status # "absent"
  BY <1>a DEF ResolveRetry, Rows
<1>8. \A j \in WithStatus(ledger, "filtered") : ReleaseFiltered(ledger, j)[k].status # "absent"
  BY <1>a DEF ReleaseFiltered, WithStatus, Rows
<1> QED  BY <1>1, <1>2, <1>3, <1>4, <1>5, <1>6, <1>7, <1>8 DEF LedgerMove

\* The row the poller cached stays the trigger's while no request rewrites it.
LEMMA SeenStep ==
    ASSUME IInv, CursorInv, Next, ~Customer
    PROVE  poller'.pc # "idle" => /\ poller'.seen.cursor = trigger'.cursor
                                  /\ poller'.seen.gen = trigger'.gen
<1>a. /\ PollerIdle.pc = "idle" /\ poller \in PollerStates /\ trigger \in TriggerRows
      /\ poller.seen \in TriggerRows /\ poller.day \in Nat
  BY Types DEF IInv, PollerStates
<1>b. poller.pc # "idle" => poller.seen.cursor = trigger.cursor /\ poller.seen.gen = trigger.gen
  BY DEF CursorInv
<1>c. PollRecord \/ PollRebaseline \/ (trigger'.gen = trigger.gen /\ trigger'.cursor = trigger.cursor)
  BY TriggerMove
<1>1. CASE PollLoad
  BY <1>1, <1>a DEF PollLoad, PollerStates
<1>2. CASE PollEnter
  <2>1. /\ poller'.seen = RolledOver(poller.seen, poller.day)
        /\ trigger' = FlushRollover(trigger, poller.seen, poller.day)
    BY <1>2, <1>a DEF PollEnter, PollerStates
  <2>2. /\ poller'.seen.cursor = poller.seen.cursor /\ poller'.seen.gen = poller.seen.gen
    BY <1>a, <2>1, SettingsKept
  <2>3. trigger'.cursor = trigger.cursor /\ trigger'.gen = trigger.gen
    BY <1>a, <2>1, SettingsKept
  <2> QED  BY <1>2, <2>2, <2>3, <1>b DEF PollEnter
<1>3. CASE PollRecord
  <2>1. PICK last \in Detected :
           /\ trigger' = [trigger EXCEPT !.cursor = last]
           /\ poller' = [poller EXCEPT !.pc = "recorded", !.seen.cursor = last]
    BY <1>3 DEF PollRecord
  <2>2. trigger'.cursor = last /\ trigger'.gen = trigger.gen
    BY <2>1, <1>a DEF TriggerRows
  <2>3. poller'.seen.cursor = last /\ poller'.seen.gen = poller.seen.gen
    BY <2>1, <1>a DEF TriggerRows, PollerStates
  <2> QED  BY <1>3, <2>2, <2>3, <1>b DEF PollRecord
<1>4. CASE PollCheck \/ PollBacklog \/ PollClaim \/ PollAdvance
  <2>1. poller'.pc # "idle" => poller'.seen = poller.seen /\ poller.pc # "idle"
    BY <1>4, <1>a DEF PollCheck, PollBacklog, PollClaim, PollAdvance, Leave, PollerStates
  <2>2. ~PollRecord /\ ~PollRebaseline
    <3>1. CASE PollCheck
      BY <3>1 DEF PollCheck, PollRecord, PollRebaseline
    <3>2. CASE PollBacklog
      BY <3>2 DEF PollBacklog, PollRecord, PollRebaseline
    <3>3. CASE PollClaim \/ PollAdvance
      BY <3>3 DEF PollClaim, PollAdvance, PollRecord, PollRebaseline
    <3> QED  BY <1>4, <3>1, <3>2, <3>3
  <2> QED  BY <1>b, <1>c, <2>1, <2>2
<1>5. CASE \/ PollBlocked \/ PollCheckFails \/ PollRebaseline \/ PollDeclines \/ PollGivesBack
           \/ PollSubmit \/ PollSubmitFails \/ CrashAndRestart
  <2>1. poller' = PollerIdle
    BY <1>5 DEF PollBlocked, PollCheckFails, PollRebaseline, PollDeclines, PollGivesBack,
          PollSubmit, PollSubmitFails, CrashAndRestart, Leave
  <2> QED  BY <2>1, <1>a
<1>6. CASE ~PollRecord /\ ~PollRebaseline /\ UNCHANGED poller
  BY <1>b, <1>c, <1>6
<1>7. CASE PollSkips
  BY <1>7, <1>b DEF PollSkips, vars
<1>8. CASE ~Poll /\ ~CrashAndRestart
  <2>1. UNCHANGED poller /\ ~PollRecord /\ ~PollRebaseline
    BY <1>8, PollerFrame DEF Poll, IInv
  <2> QED  BY <1>6, <2>1
<1> QED  BY <1>1, <1>2, <1>3, <1>4, <1>5, <1>7, <1>8 DEF Poll

\* UIDs and cursors are numbers.
LEMMA TopIsNat == Uids \subseteq Nat /\ Top \subseteq Nat
<1>1. Uids \subseteq Nat
  BY UidsAssumption
<1>2. ASSUME NEW u \in Top
      PROVE  u \in Nat
  <2>1. CASE u \in Uids
    BY <1>1, <2>1
  <2>2. CASE u = 0
    BY <2>2
  <2> QED  BY <2>1, <2>2 DEF Top
<1> QED  BY <1>1, <1>2

\* What detection takes is a prefix of what is new.
LEMMA DetectedPrefix ==
    ASSUME TypeOK, NEW u \in NewUids, NEW last \in Detected, u <= last
    PROVE  u \in Detected
<1> DEFINE below(x) == {v \in NewUids : v < x}
           limit == BatchSize * DetectMultiplier
<1>1. IsFiniteSet(NewUids) /\ NewUids \subseteq Nat
  BY UidsAssumption, FS_Subset DEF NewUids
<1>2. last \in NewUids /\ Cardinality(below(last)) < limit /\ limit \in Nat
  BY BatchAssumption DEF Detected, Lowest
<1>3. below(u) \subseteq below(last) /\ below(last) \subseteq NewUids
  <2>1. u \in Nat /\ last \in Nat /\ u <= last
    BY <1>1, <1>2
  <2>2. \A v \in NewUids : v < u => v < last
    BY <1>1, <2>1
  <2> QED  BY <2>2
<1>4. IsFiniteSet(below(last)) /\ IsFiniteSet(below(u))
  BY <1>1, <1>3, FS_Subset
<1>5. /\ Cardinality(below(u)) <= Cardinality(below(last))
      /\ Cardinality(below(u)) \in Nat /\ Cardinality(below(last)) \in Nat
  BY <1>3, <1>4, FS_Subset, FS_CardinalityType
<1>6. Cardinality(below(u)) < limit
  <2> HIDE DEF below, limit
  <2> QED  BY <1>2, <1>5
<1> QED  BY <1>6 DEF Detected, Lowest

\* The durability point: what lies between the old cursor and the new one gets
\* a row in the commit that moves the cursor.
LEMMA RecordedUpToCursor ==
    ASSUME TypeOK, PollRecord, poller.box \in Mailboxes, poller.seen.gen \in Generations,
           NEW u \in Uids, poller.seen.cursor < u, u <= trigger'.cursor
    PROVE  ledger'[Key(poller.box, poller.seen.gen, u)].status # "absent"
<1>a. /\ trigger \in TriggerRows /\ ledger \in [Keys -> Rows]
      /\ poller \in PollerStates
  BY Types
<1>1. PICK last \in Detected :
        /\ \A v \in Detected : v <= last
        /\ trigger' = [trigger EXCEPT !.cursor = last]
  BY DEF PollRecord
<1>2. last \in NewUids /\ trigger'.cursor = last
  BY <1>1, <1>a DEF Detected, Lowest, TriggerRows
<1>3. u \in NewUids
  <2>1. /\ u \in Nat /\ last \in Nat /\ u <= last /\ last <= poller.top
    BY <1>2, UidsAssumption DEF NewUids
  <2>2. poller.top \in Top
    BY <1>a DEF PollerStates
  <2>3. poller.top \in Nat
    BY <2>2, TopIsNat
  <2> QED  BY <2>1, <2>3 DEF NewUids
<1>4. u \in Detected
  BY <1>2, <1>3, DetectedPrefix
<1> DEFINE k == Key(poller.box, poller.seen.gen, u)
<1>5. k \in Keys /\ k.box = poller.box /\ k.gen = poller.seen.gen /\ k.uid = u
  BY DEF Key, Keys
<1>6. PICK F : ledger' = Record(ledger, poller.box, poller.seen.gen, Detected, F)
  BY DEF PollRecord
<1> HIDE DEF k
<1>7. ledger'[k].status # "absent"
  <2>1. CASE ledger[k].status = "absent"
    <3>1. ledger'[k] = [NoRow EXCEPT !.status = IF k.uid \in F THEN "filtered" ELSE "pending"]
      BY <1>4, <1>5, <1>6, <2>1 DEF Record
    <3> QED  BY <3>1 DEF NoRow
  <2>2. CASE ledger[k].status # "absent"
    BY <1>5, <1>6, <2>2 DEF Record
  <2> QED  BY <2>1, <2>2
<1> QED  BY <1>7 DEF k

\* Without a settings request that rewrites the cursor or replaces the mailbox,
\* every step keeps a row for whatever the cursor has passed.
LEMMA CursorStep ==
    ASSUME IInv, PollerMail, CursorInv, "enable" \notin Requests, "save" \notin Requests, Next
    PROVE  CursorInv'
<1> DEFINE Covered(box, gen, low, high, L) ==
        \A u \in Uids : low < u /\ u <= high => L[Key(box, gen, u)].status # "absent"
<1>a. /\ PollerIdle.pc = "idle" /\ poller \in PollerStates /\ trigger \in TriggerRows
      /\ request \in RequestStates /\ RequestIdle.pc = "idle" /\ TypeOK
      /\ cred \in Mailboxes \cup {NoMailbox} /\ baseline \in Top
      /\ mailbox \in [Mailboxes -> Inboxes]
  BY Types DEF IInv, TypeOK, RequestIdle
<1>b. trigger.gen \in Generations /\ request.pc \in {"idle", "cleared"}
  BY <1>a DEF CursorInv, RequestStates
<1>c. cred # NoMailbox => Covered(cred, trigger.gen, baseline, trigger.cursor, ledger)
  BY DEF CursorInv
<1>d. \A u \in Uids : cred # NoMailbox => Key(cred, trigger.gen, u) \in Keys
  BY <1>a, <1>b DEF Key, Keys
<1>e. LedgerMove
  BY LedgerStep
<1>f. ASSUME cred # NoMailbox
      PROVE  Covered(cred, trigger.gen, baseline, trigger.cursor, ledger')
  BY <1>a, <1>c, <1>d, <1>e, <1>f, RowsStay
<1> HIDE DEF Covered
<1>1. CASE Customer
  <2>1. /\ UNCHANGED <<poller, baseline>> /\ cred' \in {cred, NoMailbox}
        /\ trigger'.gen = trigger.gen /\ trigger'.cursor = trigger.cursor
        /\ request'.pc \in {"idle", "cleared"}
    <3>1. UNCHANGED poller
      BY <1>1, <1>a, CustomerFrame
    <3>2. CASE ClearMailbox
      BY <3>1, <3>2 DEF ClearMailbox, RequestIdle
    <3>3. CASE ClearDisables
      BY <3>1, <3>3, <1>a DEF ClearDisables, settings, TriggerRows
    <3>4. CASE Disable
      BY <3>1, <3>4, <1>a, <1>b DEF Disable, settings, TriggerRows
    <3>5. CASE Suspend \/ (\E k \in Keys : ReleaseMessage(k)) \/ \E r \in RunIds : CancelRun(r)
      BY <3>1, <3>5, <1>b DEF Suspend, ReleaseMessage, CancelRun, settings
    <3>6. ~ \/ \E b \in Mailboxes : SaveMailbox(b)
            \/ EnableProbes \/ SaveDisables \/ SaveAbandons \/ EnableWrites \/ EnableAbandons
      BY <1>b DEF SaveMailbox, EnableProbes, SaveDisables, SaveAbandons, EnableWrites,
            EnableAbandons, Change
    <3> QED  BY <1>1, <3>2, <3>3, <3>4, <3>5, <3>6 DEF Customer, RequestGoesOn
  <2>2. cred' # NoMailbox => Covered(cred', trigger'.gen, baseline', trigger'.cursor, ledger')
    BY <2>1, <1>f
  <2> QED  BY <2>1, <2>2, <1>b DEF CursorInv, Covered
<1>2. CASE ~Customer
  <2>1. /\ UNCHANGED cred /\ (UNCHANGED request \/ CrashAndRestart)
        /\ UNCHANGED baseline \/ PollRebaseline
    BY <1>2, RequestFrame
  <2>2. request'.pc \in {"idle", "cleared"}
    BY <2>1, <1>a, <1>b DEF CrashAndRestart
  <2>3. poller'.pc # "idle" => poller'.seen.cursor = trigger'.cursor /\ poller'.seen.gen = trigger'.gen
    BY <1>2, SeenStep
  <2>4. poller'.pc \in {"checked", "recorded", "claimed"} => poller'.box = cred \/ cred = NoMailbox
    BY <1>a, PollerBox DEF CursorInv
  <2>5. /\ trigger'.gen \in Generations
        /\ cred # NoMailbox => Covered(cred, trigger'.gen, baseline', trigger'.cursor, ledger')
    <3>1. CASE PollRebaseline
      <4>1. poller.gen \in Generations /\ trigger'.gen = poller.gen /\ baseline' = trigger'.cursor
        BY <3>1, <1>a DEF PollRebaseline, PollerMail, TriggerRows
      <4>2. trigger'.cursor \in Nat
        BY <3>1, <1>a, UidsAssumption DEF PollRebaseline, TriggerRows, PollerStates, Top
      <4> QED  BY <4>1, <4>2, UidsAssumption DEF Covered
    <3>2. CASE PollRecord
      <4>1. /\ trigger'.gen = trigger.gen /\ trigger'.cursor \in Nat
            /\ poller.seen.gen = trigger.gen /\ poller.seen.cursor = trigger.cursor
            /\ poller.box \in Mailboxes /\ (poller.box = cred \/ cred = NoMailbox)
        <5>1. PICK last \in Detected : trigger' = [trigger EXCEPT !.cursor = last]
          BY <3>2 DEF PollRecord
        <5>2. last \in Nat
          BY <5>1, UidsAssumption DEF Detected, Lowest, NewUids
        <5> QED  BY <3>2, <5>1, <5>2, <1>a DEF PollRecord, PollerMail, CursorInv, TriggerRows
      <4>2. UNCHANGED baseline
        BY <3>2 DEF PollRecord, pollerKeeps, settings
      <4>3. ASSUME cred # NoMailbox, NEW u \in Uids, baseline < u, u <= trigger'.cursor
            PROVE  ledger'[Key(cred, trigger.gen, u)].status # "absent"
        <5>1. CASE u <= trigger.cursor
          BY <4>3, <5>1, <1>f DEF Covered
        <5>2. CASE trigger.cursor < u
          BY <3>2, <4>1, <4>3, <5>2, <1>a, <1>b, RecordedUpToCursor
        <5>3. trigger.cursor \in Top
          BY <1>a DEF TriggerRows
        <5>4. u \in Nat /\ trigger.cursor \in Nat
          BY <4>3, <5>3, TopIsNat
        <5> QED  BY <5>1, <5>2, <5>4
      <4> QED  BY <1>b, <4>1, <4>2, <4>3 DEF Covered
    <3>3. CASE ~PollRebaseline /\ ~PollRecord
      <4>1. trigger'.gen = trigger.gen /\ trigger'.cursor = trigger.cursor /\ UNCHANGED baseline
        BY <1>2, <3>3, <2>1, TriggerMove
      <4> QED  BY <4>1, <1>b, <1>f
    <3> QED  BY <3>1, <3>2, <3>3
  <2> QED  BY <2>1, <2>2, <2>3, <2>4, <2>5 DEF CursorInv, Covered
<1> QED  BY <1>1, <1>2

----------------------------------------------------------------------------
\* The invariants hold at the start and under steps that change nothing.

\* Nothing runs, nothing is recorded and nothing is drafted when the customer
\* has just enabled automatic runs.
LEMMA InitBatch ==
    ASSUME Init
    PROVE  BatchInv /\ DraftInv /\ EarnedInv /\ QuietInv /\ CursorInv
<1>1. PICK b \in Mailboxes, g \in [Mailboxes -> Generations] :
        /\ cred = b
        /\ trigger = [NewTrigger EXCEPT !.enabled = TRUE, !.gen = g[b]]
  BY DEF Init
<1>2. /\ drafts = [k \in Keys |-> 0] /\ ledger = [k \in Keys |-> NoRow]
      /\ runs = [r \in RunIds |-> NoRunRow] /\ evidence = [r \in RunIds |-> {}]
      /\ worker = [r \in RunIds |-> "none"] /\ appending = [r \in RunIds |-> 0]
      /\ poller = PollerIdle /\ retry = [c \in Retriers |-> RetryIdle]
      /\ request = RequestIdle /\ baseline = 0 /\ faults = 0
  BY DEF Init
<1>3. trigger.gen \in Generations /\ trigger.cursor = 0
  BY <1>1 DEF NewTrigger
<1>4. /\ poller.pc = "idle" /\ \A c \in Retriers : retry[c].pc = "idle"
      /\ request.pc = "idle"
      /\ \A k \in Keys : ledger[k].status = "absent" /\ ledger[k].run = NoRun /\ drafts[k] = 0
      /\ \A r \in RunIds : runs[r].status = "none" /\ worker[r] = "none" /\ appending[r] = 0
                           /\ evidence[r] = {}
  BY <1>2 DEF PollerIdle, RetryIdle, RequestIdle, NoRow, NoRunRow
<1>5. StatusInv /\ PollerMail /\ RunMail /\ RowInv
  BY <1>4 DEF StatusInv, PollerMail, RunMail, RowInv
<1>6. ClaimsHaveOwner /\ AutomaticRunsOwnTheirBatch
  BY <1>4 DEF ClaimsHaveOwner, AutomaticRunsOwnTheirBatch
<1>7. DraftInv
  BY <1>2, <1>4 DEF DraftInv, NoDuplicateDraft
<1>8. EarnedInv /\ QuietInv
  BY <1>4 DEF EarnedInv, DoneIsEarned, QuietInv
<1>9. CursorInv
  <2>1. \A u \in Uids : ~(baseline < u /\ u <= trigger.cursor)
    BY <1>2, <1>3, UidsAssumption
  <2> QED  BY <1>3, <1>4, <2>1 DEF CursorInv
<1> QED  BY <1>5, <1>6, <1>7, <1>8, <1>9 DEF BatchInv

\* A step that changes nothing keeps them.
LEMMA StutterBatch ==
    ASSUME UNCHANGED vars
    PROVE  /\ BatchInv => BatchInv'
           /\ DraftInv => DraftInv'
           /\ EarnedInv => EarnedInv'
           /\ QuietInv => QuietInv'
           /\ CursorInv => CursorInv'
<1> USE DEF vars
<1>1. BatchInv => BatchInv'
  BY DEF BatchInv, StatusInv, PollerMail, RunMail, SameMail, RowInv, OfRun, JustClaimed,
         ClaimsHaveOwner, HasOwner, RefusedRetry, AutomaticRunsOwnTheirBatch, OwnsItsBatch, MessageKey
<1>2. DraftInv => DraftInv'
  BY DEF DraftInv, NoDuplicateDraft, MessageKey
<1>3. EarnedInv => EarnedInv'
  BY DEF EarnedInv, DoneIsEarned, Handled, MessageKey
<1>4. QuietInv => QuietInv'
  BY DEF QuietInv, Stopped
<1>5. CursorInv => CursorInv'
  BY DEF CursorInv
<1> QED  BY <1>1, <1>2, <1>3, <1>4, <1>5

----------------------------------------------------------------------------
\* The theorems.

\* Who answers for a claim, what a run may process and how many drafts a message
\* gets do not depend on which requests the customer makes.
LEMMA BatchInductive ==
    ASSUME IInv, BatchInv, DraftInv, [Next]_vars
    PROVE  BatchInv' /\ DraftInv'
<1>1. CASE Next
  <2>1. /\ StatusInv /\ PollerMail /\ RunMail /\ RowInv /\ ClaimsHaveOwner
        /\ AutomaticRunsOwnTheirBatch /\ TypeOK
    BY DEF BatchInv, IInv
  <2>2. StatusInv' /\ PollerMail' /\ RunMail' /\ RowInv'
    BY <1>1, <2>1, StatusStep, PollerMailStep, RunMailStep, RowStep
  <2>3. ClaimsHaveOwner' /\ AutomaticRunsOwnTheirBatch'
    BY <1>1, <2>1, OwnerStep, BatchStep
  <2>4. DraftInv'
    BY <1>1, <2>1, DraftStep
  <2> QED  BY <2>2, <2>3, <2>4 DEF BatchInv
<1>2. CASE UNCHANGED vars
  BY <1>2, StutterBatch
<1> QED  BY <1>1, <1>2

\* Every behaviour keeps a thread responsible for every claim, a batch for every
\* automatic run, and one appender for every message.
THEOREM BatchInvariance == Spec => [](BatchInv /\ DraftInv)
<1>1. Init => BatchInv /\ DraftInv
  BY InitBatch
<1>2. IInv /\ BatchInv /\ DraftInv /\ [Next]_vars => BatchInv' /\ DraftInv'
  BY BatchInductive
<1> QED  BY <1>1, <1>2, Invariance, PTL DEF Spec

\* No claimed message is ever left without a thread that will complete or
\* release it, except under a retry whose submission was refused: the stale-run
\* watchdog, the settings requests and a restart included.
THEOREM ClaimsHaveOwnerHolds == Spec => []ClaimsHaveOwner
<1>1. BatchInv => ClaimsHaveOwner
  BY DEF BatchInv
<1> QED  BY <1>1, BatchInvariance, PTL

\* From its dispatch to its end an automatic run holds the row of every message
\* its tools may touch: no watchdog, second poll, retry or abandonment gives one
\* of them to somebody else while the run is recorded as running.
THEOREM AutomaticRunsOwnTheirBatchHolds == Spec => []AutomaticRunsOwnTheirBatch
<1>1. BatchInv => AutomaticRunsOwnTheirBatch
  BY DEF BatchInv
<1> QED  BY <1>1, BatchInvariance, PTL

\* The source key's lock and the scan of Drafts under it keep a message from
\* getting a second draft, unless an IMAP call failed between them.
THEOREM NoDuplicateDraftHolds == Spec => []NoDuplicateDraft
<1>1. DraftInv => NoDuplicateDraft
  BY DEF DraftInv
<1> QED  BY <1>1, BatchInvariance, PTL

\* While nobody takes drafts out of the folder, a row that is done has a
\* completed run with the message in its batch, a trace that proves a draft, or
\* the draft itself.
THEOREM DoneIsEarnedHolds ==
    ASSUME "send" \notin Requests
    PROVE  Spec => []DoneIsEarned
<1>1. Init => EarnedInv
  BY InitBatch
<1>2. IInv /\ BatchInv /\ EarnedInv /\ [Next]_vars => EarnedInv'
  BY EarnedStep, StutterBatch
<1>3. EarnedInv => DoneIsEarned
  BY DEF EarnedInv
<1> QED  BY <1>1, <1>2, <1>3, Invariance, BatchInvariance, PTL DEF Spec

\* A dispatch is for the connected mailbox, or the request that replaced it is
\* between its two commits.
LEMMA QuietDispatch ==
    ASSUME IInv, BatchInv, QuietInv, Next,
           NEW r \in RunIds, runs[r].status = "none", runs'[r].status # "none"
    PROVE  runs'[r].box = cred \/ request.pc \in {"saved", "cleared"}
<1>a. StatusInv /\ PollerMail
  BY DEF BatchInv
<1>1. CASE PollAdvance
  <2>1. r = poller.run /\ runs'[r].box = poller.box
    BY <1>1, <1>a, PollDispatches
  <2>2. poller.pc = "claimed" /\ trigger.enabled
    BY <1>1 DEF PollAdvance, MayDispatch
  <2> QED  BY <2>1, <2>2 DEF QuietInv, Stopped
<1>2. ASSUME NEW c \in Retriers, RetryAdvance(c)
      PROVE  runs'[r].box = cred \/ request.pc \in {"saved", "cleared"}
  <2>1. runs'[r].box = runs[retry[c].from].box
    BY <1>2, <1>a, RetryDispatches
  <2>2. retry[c].pc = "building" /\ trigger.enabled
    BY <1>2 DEF RetryAdvance, MayDispatch
  <2> QED  BY <2>1, <2>2 DEF QuietInv, Stopped
<1>3. CASE ~PollAdvance /\ \A c \in Retriers : ~RetryAdvance(c)
  BY <1>3, <1>a, RunsStep DEF RunsMove
<1> QED  BY <1>1, <1>2, <1>3

\* As long as the customer does not enable automatic runs again, a mailbox that
\* was replaced or disconnected gets no new run once the request has disabled
\* the trigger, however long a poll or a retry was under way for it.
THEOREM ReplacedMailboxIsQuietHolds ==
    ASSUME "enable" \notin Requests
    PROVE  Spec => ReplacedMailboxIsQuiet
<1>1. Init => QuietInv
  BY InitBatch
<1>2. IInv /\ BatchInv /\ QuietInv /\ [Next]_vars => QuietInv'
  BY QuietInvStep, StutterBatch
<1>3. IInv /\ BatchInv /\ QuietInv /\ [Next]_vars =>
        [\A r \in RunIds : runs[r].status = "none" /\ runs'[r].status # "none"
            => runs'[r].box = cred \/ request.pc \in {"saved", "cleared"}]_vars
  BY QuietDispatch
<1> QED  BY <1>1, <1>2, <1>3, Invariance, BatchInvariance, PTL DEF Spec, ReplacedMailboxIsQuiet

\* As long as no request rewrites the cursor or replaces the mailbox, no message
\* between the baseline and the cursor is without a row: not after a re-baseline,
\* a backlog larger than one detection, a disconnected mailbox or a restart.
THEOREM NothingSkippedHolds ==
    ASSUME "enable" \notin Requests, "save" \notin Requests
    PROVE  Spec => []NothingSkipped
<1>1. Init => CursorInv
  BY InitBatch
<1>2. IInv /\ BatchInv /\ CursorInv /\ [Next]_vars => CursorInv'
  BY CursorStep, StutterBatch DEF BatchInv
<1>3. CursorInv => NothingSkipped
  BY DEF CursorInv, NothingSkipped
<1> QED  BY <1>1, <1>2, <1>3, Invariance, BatchInvariance, PTL DEF Spec

----------------------------------------------------------------------------
\* The caps: what was started, and what the counters say of it.

\* Runs that have a row, and the messages handed to automatic runs on day d.
Used == {r \in RunIds : runs[r].status # "none"}

MessagesOn(d) ==
    {h \in {r \in RunsOn(d) : runs[r].retryOf = NoRun} \X Uids : h[2] \in runs[h[1]].uids}

\* The counters of the trigger row count at least what was started and handed
\* over on the row's day, which is the last day on which anything was.
CountInv ==
    /\ today \in 0..MaxDay /\ trigger.date <= today
    /\ IsFiniteSet(Used) /\ \A r \in Used : runs[r].day <= trigger.date
    /\ Cardinality(RunsOn(trigger.date)) <= trigger.runsToday /\ trigger.runsToday <= DailyCap
    /\ Cardinality(MessagesOn(trigger.date)) <= trigger.messagesToday
    /\ trigger.messagesToday <= MessageCap
    /\ DailyCapHolds /\ MessageCapHolds

\* The poller's cached row is of the trigger's day with the trigger's counters
\* until it rolls over, and under the lock both are of the poll's day.
PollerCountInv ==
    /\ poller.pc # "idle" => trigger.date <= poller.day /\ poller.day <= today
    /\ poller.pc = "loaded" =>
          /\ poller.seen.date = trigger.date
          /\ poller.seen.date # poller.day => poller.seen.runsToday = trigger.runsToday
    /\ poller.pc \in {"locked", "checked", "recorded", "claimed"} => poller.day = trigger.date
    /\ poller.pc \in {"loaded", "locked", "checked", "recorded"} =>
          poller.seen.messagesToday = trigger.messagesToday
    /\ poller.pc = "claimed" =>
          /\ trigger.runsToday < DailyCap
          /\ trigger.messagesToday + Cardinality(Batch(poller.run)) <= MessageCap

\* A retry has looked at the cap under the lock.
RetryCountInv ==
    \A c \in Retriers : retry[c].pc # "idle" =>
        /\ "retry" \in Requests
        /\ retry[c].day <= today /\ retry[c].seen.date <= today
        /\ retry[c].pc = "building" => trigger.runsToday < DailyCap

\* The oldest n of the rows of one mailbox generation are at most n messages.
LEMMA OldestBound ==
    ASSUME NEW W \in SUBSET Keys, \A j, k \in W : j.uid = k.uid => j = k, NEW n \in Nat
    PROVE  LET U == {k.uid : k \in Oldest(W, n)} IN IsFiniteSet(U) /\ Cardinality(U) <= n
<1> DEFINE U == {k.uid : k \in Oldest(W, n)}
           below(u) == {j \in W : j.uid < u}
           rank == [u \in U |-> Cardinality(below(u))]
           uid == [k \in W |-> k.uid]
<1>1. IsFiniteSet(W)
  <2>1. uid \in Injection(W, Uids)
    BY DEF Injection, IsInjective, Keys
  <2> QED  BY <2>1, UidsAssumption, FS_Injection
<1>2. U \subseteq Nat /\ \A k \in W : k.uid \in Nat
  BY UidsAssumption DEF Oldest, Keys
<1>3. \A u : IsFiniteSet(below(u)) /\ Cardinality(below(u)) \in Nat
  <2>1. \A u : below(u) \in SUBSET W
    OBVIOUS
  <2> QED  BY <1>1, <2>1, FS_Subset, FS_CardinalityType
<1>4. \A u \in U : Cardinality(below(u)) < n /\ \E k \in W : k.uid = u
  BY DEF Oldest
<1>5. rank \in [U -> 0..(n - 1)]
  <2>1. \A u \in U : Cardinality(below(u)) \in 0..(n - 1)
    <3> HIDE DEF below
    <3> QED  BY <1>3, <1>4
  <2> QED  BY <2>1
<1>6. ASSUME NEW u \in U, NEW w \in U, u < w
      PROVE  rank[u] # rank[w]
  <2>1. PICK k \in W : k.uid = u
    BY <1>4
  <2>2. k \in below(w) /\ k \notin below(u)
    BY <1>2, <1>6, <2>1
  <2>3. below(u) \in SUBSET below(w)
    BY <1>2, <1>6
  <2>4. Cardinality(below(u)) # Cardinality(below(w))
    BY <1>3, <2>2, <2>3, FS_Subset
  <2> QED  BY <2>4
<1>7. rank \in Injection(U, 0..(n - 1))
  <2>1. ASSUME NEW u \in U, NEW w \in U, rank[u] = rank[w]
        PROVE  u = w
    <3>1. u \in Nat /\ w \in Nat /\ ~(u < w) /\ ~(w < u)
      BY <1>2, <1>6, <2>1
    <3> QED  BY <3>1
  <2> QED  BY <1>5, <2>1 DEF Injection, IsInjective
<1>8. IsFiniteSet(0..(n - 1)) /\ Cardinality(0..(n - 1)) = n
  <2>1. /\ IsFiniteSet(0..(n - 1))
        /\ Cardinality(0..(n - 1)) = IF 0 > n - 1 THEN 0 ELSE (n - 1) - 0 + 1
    BY FS_Interval
  <2> QED  BY <2>1
<1>9. IsFiniteSet(U) /\ Cardinality(U) <= Cardinality(0..(n - 1))
  BY <1>7, <1>8, FS_Injection
<1> QED  BY <1>8, <1>9

\* What a poll claims is within the limit it computed.
LEMMA ClaimWithinLimit ==
    ASSUME IInv, StatusInv, PollClaim
    PROVE  /\ poller'.run = Fresh
           /\ Cardinality(Batch(poller.run)') <= ClaimLimit
<1>a. /\ poller \in PollerStates /\ ledger \in [Keys -> Rows]
      /\ poller.seen.messagesToday \in Nat
  BY Types DEF IInv, PollerStates, TriggerRows
<1>1. Fresh \in RunIds /\ runs[Fresh].status = "none" /\ live[Fresh] = "absent"
  BY FreshTyped DEF PollClaim, CanClaim
<1>2. ClaimLimit \in Nat
  BY <1>a, BatchAssumption, CapAssumption DEF ClaimLimit, Remaining
<1>3. \A k \in Keys : ~(ledger[k].status = "claimed" /\ ledger[k].run = Fresh)
  BY <1>1 DEF IInv, ClaimInv, Begun
<1>4. /\ Waiting \in SUBSET Keys
      /\ \A j, k \in Waiting : j.uid = k.uid => j = k
  BY DEF Waiting, PendingOf, WithStatus, Keys
<1>5. ClaimedBy(ledger', Fresh) = Oldest(Waiting, ClaimLimit)
  <2>1. Oldest(Waiting, ClaimLimit) \subseteq Keys
    BY <1>4 DEF Oldest
  <2>2. \A k \in Keys : ledger'[k] = IF k \in Oldest(Waiting, ClaimLimit)
                                     THEN [ledger[k] EXCEPT !.status = "claimed", !.run = Fresh]
                                     ELSE ledger[k]
    BY DEF PollClaim, Claim
  <2>3. \A k \in Keys : ledger[k] \in Rows
    BY <1>a
  <2>4. \A k \in Oldest(Waiting, ClaimLimit) :
            ledger'[k].status = "claimed" /\ ledger'[k].run = Fresh
    BY <2>1, <2>2, <2>3 DEF Rows
  <2>5. \A k \in Keys \ Oldest(Waiting, ClaimLimit) : ledger'[k] = ledger[k]
    BY <2>2
  <2> QED  BY <2>1, <2>4, <2>5, <1>3 DEF ClaimedBy, WithStatus
<1>6. poller'.run = Fresh
  BY <1>a DEF PollClaim, PollerStates
<1>7. Batch(poller.run)' = {k.uid : k \in Oldest(Waiting, ClaimLimit)}
  BY <1>5, <1>6 DEF Batch
<1> QED  BY <1>2, <1>4, <1>6, <1>7, OldestBound

\* What was started is kept by every step that gives rows another status only.
SameRuns ==
    \A r \in RunIds :
        /\ runs'[r].status = "none" <=> runs[r].status = "none"
        /\ runs'[r].day = runs[r].day /\ runs'[r].uids = runs[r].uids
        /\ runs'[r].retryOf = runs[r].retryOf

LEMMA SameCounts ==
    ASSUME SameRuns
    PROVE  /\ Used' = Used /\ \A r \in Used : runs'[r].day = runs[r].day
           /\ \A d : RunsOn(d)' = RunsOn(d) /\ MessagesOn(d)' = MessagesOn(d)
<1>1. Used' = Used /\ \A r \in Used : runs'[r].day = runs[r].day
  BY DEF Used, SameRuns
<1>2. \A d : RunsOn(d)' = RunsOn(d)
  BY DEF RunsOn, SameRuns
<1>3. ASSUME NEW d
      PROVE  MessagesOn(d)' = MessagesOn(d)
  <2>1. MessagesOn(d)' = {h \in {r \in RunsOn(d) : runs'[r].retryOf = NoRun} \X Uids :
                             h[2] \in runs'[h[1]].uids}
    BY <1>2 DEF MessagesOn
  <2>2. {r \in RunsOn(d) : runs'[r].retryOf = NoRun} = {r \in RunsOn(d) : runs[r].retryOf = NoRun}
    BY DEF RunsOn, SameRuns
  <2>3. \A h \in {r \in RunsOn(d) : runs[r].retryOf = NoRun} \X Uids :
           runs'[h[1]].uids = runs[h[1]].uids
    BY DEF RunsOn, SameRuns
  <2> QED  BY <2>1, <2>2, <2>3 DEF MessagesOn
<1> QED  BY <1>1, <1>2, <1>3

\* What can be counted.
LEMMA Countable ==
    ASSUME IsFiniteSet(Used)
    PROVE  \A d : /\ IsFiniteSet(RunsOn(d)) /\ Cardinality(RunsOn(d)) \in Nat
                  /\ IsFiniteSet(MessagesOn(d)) /\ Cardinality(MessagesOn(d)) \in Nat
<1> TAKE d
<1>1. RunsOn(d) \in SUBSET Used
  BY DEF RunsOn, Used
<1>2. IsFiniteSet(RunsOn(d)) /\ IsFiniteSet(Used \X Uids)
  BY <1>1, UidsAssumption, FS_Subset, FS_Product
<1>3. MessagesOn(d) \in SUBSET (Used \X Uids)
  BY <1>1 DEF MessagesOn
<1> QED  BY <1>2, <1>3, FS_Subset, FS_CardinalityType

\* A step that starts nothing and leaves the day and the counters alone.
LEMMA CountKept ==
    ASSUME CountInv, SameRuns, today' \in today..MaxDay, today \in Nat,
           trigger \in TriggerRows,
           trigger'.date = trigger.date, trigger'.runsToday = trigger.runsToday,
           trigger'.messagesToday = trigger.messagesToday
    PROVE  CountInv'
<1>1. DailyCapHolds' /\ MessageCapHolds'
  <2>1. \A d \in 0..MaxDay : /\ Cardinality(RunsOn(d)') <= DailyCap
                             /\ Cardinality(MessagesOn(d)') <= MessageCap
    BY SameCounts DEF CountInv, DailyCapHolds, MessageCapHolds, MessagesOn
  <2> QED  BY <2>1 DEF DailyCapHolds, MessageCapHolds, MessagesOn
<1>2. /\ RunsOn(trigger.date)' = RunsOn(trigger.date)
      /\ MessagesOn(trigger.date)' = MessagesOn(trigger.date)
  <2>1. \A d : RunsOn(d)' = RunsOn(d) /\ MessagesOn(d)' = MessagesOn(d)
    BY SameCounts
  <2>2. /\ RunsOn(trigger.date)' = {r \in RunIds : runs'[r].status # "none" /\ runs'[r].day = trigger.date}
        /\ RunsOn(trigger.date) = {r \in RunIds : runs[r].status # "none" /\ runs[r].day = trigger.date}
    BY DEF RunsOn
  <2>3. RunsOn(trigger.date)' = RunsOn(trigger.date)
    BY <2>2 DEF SameRuns
  <2> QED  BY <2>1, <2>3 DEF MessagesOn
<1>3. today' \in 0..MaxDay /\ trigger'.date <= today'
  BY BoundsAssumption DEF CountInv, TriggerRows
<1> QED  BY <1>1, <1>2, <1>3, SameCounts DEF CountInv

\* The first rollover of a day starts both counters at zero; nothing has been
\* started on that day.
LEMMA RolloverCounts ==
    ASSUME TypeOK, CountInv, SameRuns, UNCHANGED today,
           NEW seen \in TriggerRows, NEW day \in Nat,
           trigger.date <= day, day <= today, seen.date = trigger.date,
           seen.date # day => seen.runsToday = trigger.runsToday,
           seen.messagesToday = trigger.messagesToday,
           trigger' = FlushRollover(trigger, seen, day)
    PROVE  /\ CountInv' /\ trigger'.date = day
           /\ trigger'.messagesToday = RolledOver(seen, day).messagesToday
<1>a. today \in Nat /\ trigger \in TriggerRows /\ runs \in [RunIds -> RunRows]
  BY DEF TypeOK
<1>1. CASE seen.date = day
  <2>1. trigger' = trigger /\ RolledOver(seen, day) = seen
    BY <1>1 DEF FlushRollover, RolledOver
  <2>2. today' \in today..MaxDay
    BY <1>a, BoundsAssumption DEF CountInv
  <2> QED  BY <1>a, <1>1, <2>1, <2>2, CountKept
<1>2. CASE seen.date # day
  <2>1. trigger.date < day
    BY <1>a, <1>2 DEF TriggerRows
  <2>2. trigger'.date = day /\ trigger'.runsToday = 0 /\ trigger'.messagesToday = 0
    <3> DEFINE rt == IF seen.runsToday = 0 THEN trigger.runsToday ELSE 0
               mt == IF seen.messagesToday = 0 THEN trigger.messagesToday ELSE 0
    <3>1. trigger' = [trigger EXCEPT !.runsToday = rt, !.messagesToday = mt, !.date = day]
      BY <1>2 DEF FlushRollover
    <3>2. rt = 0 /\ mt = 0
      BY <1>2
    <3> HIDE DEF rt, mt
    <3> QED  BY <1>a, <3>1, <3>2 DEF TriggerRows
  <2>3. RolledOver(seen, day).messagesToday = 0
    BY <1>2 DEF RolledOver, TriggerRows
  <2>4. \A r \in Used : runs'[r].day <= trigger.date
    BY SameCounts DEF CountInv
  <2>5. RunsOn(trigger.date)' = {} /\ MessagesOn(trigger.date)' = {}
    <3>1. RunsOn(trigger.date)' = {r \in RunIds : runs'[r].status # "none" /\ runs'[r].day = day}
      BY <2>2 DEF RunsOn
    <3>2. \A r \in RunIds : runs'[r].status # "none" => r \in Used
      BY DEF SameRuns, Used
    <3>3. RunsOn(trigger.date)' = {}
      BY <1>a, <3>1, <3>2, <2>1, <2>4 DEF TriggerRows
    <3> QED  BY <3>3 DEF MessagesOn
  <2>6. DailyCapHolds' /\ MessageCapHolds'
    <3>1. \A d \in 0..MaxDay : /\ Cardinality(RunsOn(d)') <= DailyCap
                               /\ Cardinality(MessagesOn(d)') <= MessageCap
      BY SameCounts DEF CountInv, DailyCapHolds, MessageCapHolds, MessagesOn
    <3> QED  BY <3>1 DEF DailyCapHolds, MessageCapHolds, MessagesOn
  <2>7. IsFiniteSet(Used') /\ \A r \in Used' : runs'[r].day <= trigger'.date
    <3>1. \A r \in Used : runs'[r].day <= day
      <4> SUFFICES ASSUME NEW r \in Used
                   PROVE  runs'[r].day <= day
        OBVIOUS
      <4>1. runs'[r].day <= trigger.date /\ runs'[r].day \in Nat
        BY <1>a, <2>4, SameCounts DEF Used, RunRows
      <4> QED  BY <1>a, <4>1, <2>1 DEF TriggerRows
    <3> QED  BY <3>1, <2>2, SameCounts DEF CountInv
  <2>8. Cardinality({}) = 0
    BY FS_EmptySet
  <2> QED  BY <2>2, <2>3, <2>5, <2>6, <2>7, <2>8, BoundsAssumption, CapAssumption DEF CountInv
<1> QED  BY <1>1, <1>2

\* A dispatch counts the run it starts, and the messages it hands over.
LEMMA DispatchCounts ==
    ASSUME CountInv, TypeOK, UNCHANGED today,
           NEW r \in RunIds, runs[r].status = "none",
           \A s \in RunIds : s # r => runs'[s] = runs[s],
           runs'[r].status = "running", runs'[r].day = trigger.date,
           NEW n \in Nat,
           runs'[r].retryOf = NoRun =>
              /\ runs'[r].uids \subseteq Uids
              /\ Cardinality(runs'[r].uids) <= n,
           trigger.runsToday < DailyCap, trigger.messagesToday + n <= MessageCap,
           trigger' = Advanced(trigger, r, n)
    PROVE  CountInv'
<1>a. /\ trigger \in TriggerRows /\ trigger.runsToday \in Nat /\ trigger.messagesToday \in Nat
      /\ trigger.date \in Nat
  BY DEF TypeOK, TriggerRows
<1>1. /\ trigger'.runsToday = trigger.runsToday + 1 /\ trigger'.date = trigger.date
      /\ trigger'.messagesToday = trigger.messagesToday + n
  BY <1>a DEF Advanced, TriggerRows
<1>2. Used' = Used \cup {r}
  BY DEF Used
<1>3. IsFiniteSet(Used) /\ \A s \in Used : runs[s].day <= trigger.date
  BY DEF CountInv
<1>4. IsFiniteSet(Used') /\ \A s \in Used' : runs'[s].day <= trigger'.date
  <2>1. \A s \in Used : s # r /\ s \in RunIds
    BY DEF Used
  <2> QED  BY <1>a, <1>1, <1>2, <1>3, <2>1, FS_AddElement
<1> DEFINE day == trigger.date
           auto(d) == {s \in RunsOn(d) : runs[s].retryOf = NoRun}
<1>5. \A d : RunsOn(d)' = IF d = day THEN RunsOn(d) \cup {r} ELSE RunsOn(d)
  BY DEF RunsOn
<1>6. r \notin RunsOn(day) /\ \A d : \A s \in RunsOn(d) : s # r /\ s \in RunIds
  BY DEF RunsOn
<1>7. /\ Cardinality(RunsOn(day) \cup {r}) <= trigger'.runsToday
      /\ Cardinality(RunsOn(day) \cup {r}) \in Nat
  <2>1. IsFiniteSet(RunsOn(day)) /\ Cardinality(RunsOn(day)) \in Nat
    BY <1>3, Countable
  <2>2. Cardinality(RunsOn(day) \cup {r}) = Cardinality(RunsOn(day)) + 1
    BY <1>6, <2>1, FS_AddElement
  <2>3. Cardinality(RunsOn(day)) <= trigger.runsToday
    BY DEF CountInv
  <2> QED  BY <1>a, <1>1, <2>1, <2>2, <2>3
<1>8. \A d : MessagesOn(d)' = IF d = day /\ runs'[r].retryOf = NoRun
                               THEN MessagesOn(d) \cup ({r} \X runs'[r].uids)
                               ELSE MessagesOn(d)
  <2>1. ASSUME NEW d
        PROVE  MessagesOn(d)' = {h \in {s \in RunsOn(d)' : runs'[s].retryOf = NoRun} \X Uids :
                                    h[2] \in runs'[h[1]].uids}
    BY DEF MessagesOn
  <2>2. ASSUME NEW d, ~(d = day /\ runs'[r].retryOf = NoRun)
        PROVE  MessagesOn(d)' = MessagesOn(d)
    <3>1. {s \in RunsOn(d)' : runs'[s].retryOf = NoRun} = auto(d)
      BY <1>5, <1>6, <2>2
    <3>2. \A h \in auto(d) \X Uids : runs'[h[1]].uids = runs[h[1]].uids
      BY <1>6
    <3> QED  BY <2>1, <3>1, <3>2 DEF MessagesOn
  <2>3. CASE runs'[r].retryOf = NoRun
    <3>1. {s \in RunsOn(day) \cup {r} : runs'[s].retryOf = NoRun} = auto(day) \cup {r}
      BY <1>6, <2>3
    <3>2. \A h \in auto(day) \X Uids : runs'[h[1]].uids = runs[h[1]].uids
      BY <1>6
    <3>3. {h \in (auto(day) \cup {r}) \X Uids : h[2] \in runs'[h[1]].uids} =
             {h \in auto(day) \X Uids : h[2] \in runs[h[1]].uids} \cup ({r} \X runs'[r].uids)
      <4>1. runs'[r].uids \subseteq Uids
        BY <2>3
      <4> HIDE DEF auto
      <4> QED  BY <3>2, <4>1
    <3>4. RunsOn(day) \cup {r} = {s \in RunIds : runs'[s].status # "none" /\ runs'[s].day = day}
      BY DEF RunsOn
    <3>5. \A d : d = day => MessagesOn(d)' = MessagesOn(d) \cup ({r} \X runs'[r].uids)
      BY <2>1, <1>5, <3>1, <3>3 DEF MessagesOn
    <3> QED  BY <2>2, <3>5
  <2> QED  BY <2>2, <2>3
<1>9. Cardinality(MessagesOn(day)) \in Nat /\ IsFiniteSet(MessagesOn(day))
  BY <1>3, Countable
<1>10. /\ runs'[r].retryOf = NoRun =>
             Cardinality(MessagesOn(day) \cup ({r} \X runs'[r].uids)) <= trigger'.messagesToday
       /\ Cardinality(MessagesOn(day)) <= trigger'.messagesToday
  <2>1. Cardinality(MessagesOn(day)) <= trigger.messagesToday
    BY DEF CountInv
  <2>2. CASE runs'[r].retryOf = NoRun
    <3> DEFINE batch == {r} \X runs'[r].uids
    <3>1. IsFiniteSet(runs'[r].uids) /\ Cardinality(runs'[r].uids) \in Nat
      BY <2>2, UidsAssumption, FS_Subset, FS_CardinalityType
    <3>2. IsFiniteSet({r}) /\ Cardinality({r}) = 1
      BY FS_Singleton
    <3>3. IsFiniteSet(batch) /\ Cardinality(batch) = 1 * Cardinality(runs'[r].uids)
      BY <3>1, <3>2, FS_Product
    <3>4. Cardinality(batch) <= n /\ Cardinality(batch) \in Nat
      BY <2>2, <3>1, <3>3
    <3>5. IsFiniteSet(MessagesOn(day) \cap batch) /\ Cardinality(MessagesOn(day) \cap batch) \in Nat
      BY <1>9, FS_Intersection, FS_CardinalityType
    <3>6. Cardinality(MessagesOn(day) \cup batch) =
             Cardinality(MessagesOn(day)) + Cardinality(batch) - Cardinality(MessagesOn(day) \cap batch)
      BY <1>9, <3>3, FS_Union
    <3> HIDE DEF batch
    <3>7. Cardinality(MessagesOn(day) \cup batch) <= trigger'.messagesToday
      BY <1>a, <1>1, <1>9, <2>1, <3>4, <3>5, <3>6
    <3> QED  BY <1>a, <1>1, <1>9, <2>1, <3>7 DEF batch
  <2>3. CASE runs'[r].retryOf # NoRun
    BY <1>a, <1>1, <1>9, <2>1, <2>3
  <2> QED  BY <2>2, <2>3
<1>11. trigger'.runsToday <= DailyCap /\ trigger'.messagesToday <= MessageCap
  BY <1>a, <1>1, CapAssumption
<1>12. /\ Cardinality(RunsOn(trigger.date)') <= trigger'.runsToday
       /\ Cardinality(MessagesOn(trigger.date)') <= trigger'.messagesToday
  <2>1. \A d : d = day => /\ RunsOn(d)' = RunsOn(day) \cup {r}
                          /\ MessagesOn(d)' = IF runs'[r].retryOf = NoRun
                                              THEN MessagesOn(day) \cup ({r} \X runs'[r].uids)
                                              ELSE MessagesOn(day)
    BY <1>5, <1>8
  <2>2. RunsOn(trigger.date)' = RunsOn(day) \cup {r}
    <3>1. {s \in RunIds : runs'[s].status # "none" /\ runs'[s].day = day} = RunsOn(day) \cup {r}
      BY DEF RunsOn
    <3> QED  BY <1>1, <3>1 DEF RunsOn
  <2>3. MessagesOn(trigger.date)' =
           {h \in {s \in RunsOn(day) \cup {r} : runs'[s].retryOf = NoRun} \X Uids :
               h[2] \in runs'[h[1]].uids}
    BY <2>2 DEF MessagesOn
  <2>4. \A d : d = day =>
           MessagesOn(d)' = {h \in {s \in RunsOn(day) \cup {r} : runs'[s].retryOf = NoRun} \X Uids :
                                h[2] \in runs'[h[1]].uids}
    BY <1>5 DEF MessagesOn
  <2>5. MessagesOn(trigger.date)' = IF runs'[r].retryOf = NoRun
                                    THEN MessagesOn(day) \cup ({r} \X runs'[r].uids)
                                    ELSE MessagesOn(day)
    BY <2>1, <2>3, <2>4
  <2> QED  BY <1>7, <1>10, <2>2, <2>5
<1>13. DailyCapHolds'
  <2>1. \A d \in 0..MaxDay : Cardinality(RunsOn(d)') <= DailyCap
    <3> SUFFICES ASSUME NEW d \in 0..MaxDay
                 PROVE  Cardinality(RunsOn(d)') <= DailyCap
      OBVIOUS
    <3>1. CASE d = day
      BY <1>1, <1>5, <1>7, <1>11, <1>a, <3>1, CapAssumption
    <3>2. CASE d # day
      BY <1>5, <3>2 DEF CountInv, DailyCapHolds
    <3> QED  BY <3>1, <3>2
  <2> QED  BY <2>1 DEF DailyCapHolds
<1>14. MessageCapHolds'
  <2>1. \A d \in 0..MaxDay : Cardinality(MessagesOn(d)') <= MessageCap
    <3> SUFFICES ASSUME NEW d \in 0..MaxDay
                 PROVE  Cardinality(MessagesOn(d)') <= MessageCap
      OBVIOUS
    <3>1. Cardinality(MessagesOn(d)) <= MessageCap
      BY DEF CountInv, MessageCapHolds, MessagesOn
    <3>2. CASE d = day /\ runs'[r].retryOf = NoRun
      <4>1. MessagesOn(d)' = MessagesOn(day) \cup ({r} \X runs'[r].uids)
        BY <1>8, <3>2
      <4>2. /\ IsFiniteSet(MessagesOn(day) \cup ({r} \X runs'[r].uids))
            /\ Cardinality(MessagesOn(day) \cup ({r} \X runs'[r].uids)) \in Nat
        <5>1. IsFiniteSet(runs'[r].uids)
          BY <3>2, UidsAssumption, FS_Subset
        <5>2. IsFiniteSet({r} \X runs'[r].uids)
          BY <5>1, FS_Singleton, FS_Product
        <5> QED  BY <1>9, <5>2, FS_Union, FS_CardinalityType
      <4> QED  BY <1>1, <1>10, <1>11, <1>a, <3>2, <4>1, <4>2, CapAssumption
    <3>3. CASE ~(d = day /\ runs'[r].retryOf = NoRun)
      BY <1>8, <3>1, <3>3
    <3> QED  BY <3>2, <3>3
  <2> QED  BY <2>1 DEF MessageCapHolds, MessagesOn
<1> QED  BY <1>a, <1>1, <1>4, <1>11, <1>12, <1>13, <1>14 DEF CountInv

\* With one day only, a retry's rollover writes nothing.
LEMMA RetryFlushesNothing ==
    ASSUME IInv, CountInv, RetryCountInv, MaxDay = 0 \/ "retry" \notin Requests,
           NEW c \in Retriers, retry[c].pc # "idle"
    PROVE  /\ FlushRollover(trigger, retry[c].seen, retry[c].day) = trigger
           /\ MaxDay = 0 /\ today = 0 /\ trigger.date = 0 /\ retry[c].day = 0
<1>1. /\ trigger.date \in Nat /\ retry[c].seen.date \in Nat /\ retry[c].day \in Nat
      /\ today \in Nat
  BY Types DEF IInv, TypeOK, TriggerRows, RetryStates
<1>2. MaxDay = 0 /\ retry[c].day <= today /\ retry[c].seen.date <= today
  BY DEF RetryCountInv
<1>3. today = 0
  BY <1>2 DEF CountInv
<1>4. trigger.date = 0 /\ retry[c].day = 0 /\ retry[c].seen.date = 0
  BY <1>1, <1>2, <1>3 DEF CountInv
<1> QED  BY <1>2, <1>3, <1>4 DEF FlushRollover

\* Only midnight moves the day.
LEMMA DaysMove ==
    ASSUME CountInv, Next
    PROVE  /\ today' \in today..MaxDay
           /\ UNCHANGED today \/ Environment
<1>1. today \in 0..MaxDay /\ MaxDay \in Nat
  BY BoundsAssumption DEF CountInv
<1>2. Environment \/ UNCHANGED today
  <2>1. CASE Poll
    BY <2>1 DEF Poll, PollSkips, PollLoad, PollBlocked, PollEnter, PollCheckFails, PollCheck,
          PollRebaseline, PollRecord, PollBacklog, PollDeclines, PollClaim, PollGivesBack,
          PollAdvance, PollSubmit, PollSubmitFails, vars, pollerKeeps, outside
  <2>2. ASSUME NEW r \in RunIds, Work(r)
        PROVE  UNCHANGED today
    BY <2>2 DEF Work, WorkerFindsDraft, WorkerScan, WorkerAppend, WorkerAppendFails, WorkerTrace,
          WorkerFinish, WorkerSettle, WorkerPublish, workerKeeps
  <2>3. ASSUME NEW c \in Retriers, Retry(c)
        PROVE  UNCHANGED today
    BY <2>3 DEF Retry, RetryGoesOn, RetryBegin, RetryBlocked, RetryEnter, RetryRollsBack,
          RetryAdvance, RetrySubmit, RetrySubmitFails, retryKeeps, outside
  <2>4. CASE Customer
    BY <2>4 DEF Customer, RequestGoesOn, SaveMailbox, SaveDisables, SaveAbandons, ClearMailbox,
          ClearDisables, EnableProbes, EnableWrites, EnableAbandons, Disable, Suspend,
          ReleaseMessage, CancelRun, requestKeeps, outside
  <2> QED  BY <2>1, <2>2, <2>3, <2>4 DEF Next
<1>3. CASE Environment
  BY <1>1, <1>3 DEF Environment, MailArrives, MailboxRebuilt, DraftLeaves, Midnight,
        RunBecomesOverdue, CrashAndRestart, outside
<1> QED  BY <1>1, <1>2, <1>3

\* Only a rollover and a dispatch change the counters.
LEMMA CountersKept ==
    ASSUME IInv, CountInv, RetryCountInv, MaxDay = 0 \/ "retry" \notin Requests, Next,
           ~PollBlocked, ~PollEnter, ~PollAdvance, \A c \in Retriers : ~RetryAdvance(c)
    PROVE  /\ trigger'.date = trigger.date /\ trigger'.runsToday = trigger.runsToday
           /\ trigger'.messagesToday = trigger.messagesToday
<1>a. trigger \in TriggerRows
  BY Types DEF IInv
<1>1. CASE Poll
  BY <1>1, <1>a DEF Poll, PollSkips, PollLoad, PollCheckFails, PollCheck, PollRebaseline,
        PollRecord, PollBacklog, PollDeclines, PollClaim, PollGivesBack, PollSubmit,
        PollSubmitFails, vars, TriggerRows
<1>2. ASSUME NEW c \in Retriers, Retry(c)
      PROVE  UNCHANGED trigger
  <2>1. CASE retry[c].pc # "idle"
    <3>1. FlushRollover(trigger, retry[c].seen, retry[c].day) = trigger
      BY <2>1, RetryFlushesNothing
    <3>2. CASE RetryEnter(c)
      BY <3>1, <3>2 DEF RetryEnter
    <3>3. CASE RetryBlocked(c)
      BY <3>1, <3>3 DEF RetryBlocked
    <3> QED  BY <1>2, <3>2, <3>3 DEF Retry, RetryGoesOn, RetryBegin, RetryRollsBack,
                RetrySubmit, RetrySubmitFails
  <2>2. CASE retry[c].pc = "idle"
    BY <1>2, <2>2 DEF Retry, RetryGoesOn, RetryBegin, RetryBlocked, RetryEnter, RetryRollsBack,
          RetryAdvance, RetrySubmit, RetrySubmitFails
  <2> QED  BY <2>1, <2>2
<1>3. CASE Customer
  BY <1>3, <1>a DEF Customer, RequestGoesOn, SaveMailbox, SaveDisables, SaveAbandons,
        ClearMailbox, ClearDisables, EnableProbes, EnableWrites, EnableAbandons, Disable, Suspend,
        ReleaseMessage, CancelRun, TriggerRows
<1>4. CASE Environment \/ \E r \in RunIds : Work(r)
  <2>1. UNCHANGED trigger
    BY <1>4, WorkFrame, WorldFrame DEF CrashAndRestart
  <2> QED  BY <2>1
<1> QED  BY <1>1, <1>2, <1>3, <1>4 DEF Next

\* The counters count every dispatch.
LEMMA CountStep ==
    ASSUME IInv, StatusInv, PollerMail, CountInv, PollerCountInv, RetryCountInv,
           MaxDay = 0 \/ "retry" \notin Requests, Next
    PROVE  CountInv'
<1>a. /\ TypeOK /\ trigger \in TriggerRows /\ poller \in PollerStates
      /\ retry \in [Retriers -> RetryStates] /\ today \in Nat
  BY Types DEF IInv, TypeOK
<1>b. today' \in today..MaxDay
  BY DaysMove
<1>1. CASE PollAdvance
  <2> DEFINE r == poller.run
             n == Cardinality(Batch(r))
  <2>1. /\ r \in RunIds /\ runs[r].status = "none"
        /\ runs'[r].status = "running" /\ runs'[r].uids = Batch(r)
        /\ \A s \in RunIds : s # r => runs'[s] = runs[s]
    BY <1>1, PollDispatches
  <2>2. n \in Nat /\ Batch(r) \subseteq Uids
    BY BatchTyped
  <2>3. runs'[r].day = trigger.date
    <3>1. poller.day = trigger.date
      BY <1>1 DEF PollAdvance, PollerCountInv
    <3>2. runs \in [RunIds -> RunRows]
      BY Types DEF IInv
    <3> QED  BY <1>1, <2>1, <3>1, <3>2 DEF PollAdvance
  <2>4. trigger.runsToday < DailyCap /\ trigger.messagesToday + n <= MessageCap
    BY <1>1 DEF PollAdvance, PollerCountInv
  <2>5. trigger' = Advanced(trigger, r, n) /\ UNCHANGED today
    BY <1>1 DEF PollAdvance, pollerKeeps, outside
  <2>6. Cardinality(runs'[r].uids) <= n /\ runs'[r].uids \subseteq Uids
    BY <2>1, <2>2
  <2> HIDE DEF n, r
  <2> QED  BY <1>a, <2>1, <2>2, <2>3, <2>4, <2>5, <2>6, DispatchCounts
<1>2. ASSUME NEW c \in Retriers, RetryAdvance(c)
      PROVE  CountInv'
  <2>1. /\ Fresh \in RunIds /\ runs[Fresh].status = "none"
        /\ runs'[Fresh].status = "running" /\ runs'[Fresh].retryOf = retry[c].from
        /\ retry[c].from \in RunIds
        /\ \A s \in RunIds : s # Fresh => runs'[s] = runs[s]
    BY <1>2, RetryDispatches
  <2>2. retry[c].pc = "building"
    BY <1>2 DEF RetryAdvance
  <2>3. /\ FlushRollover(trigger, retry[c].seen, retry[c].day) = trigger
        /\ retry[c].day = trigger.date
    BY <2>2, RetryFlushesNothing
  <2>4. trigger' = Advanced(trigger, Fresh, 0) /\ UNCHANGED today
    BY <1>2, <2>3 DEF RetryAdvance, retryKeeps, outside
  <2>5. runs'[Fresh].day = trigger.date
    <3>1. runs \in [RunIds -> RunRows]
      BY Types DEF IInv
    <3> QED  BY <1>2, <2>1, <2>3, <3>1 DEF RetryAdvance, RunRows
  <2>6. trigger.runsToday < DailyCap
    BY <2>2 DEF RetryCountInv
  <2>7. trigger.messagesToday + 0 <= MessageCap
    BY <1>a DEF CountInv, TriggerRows
  <2>8. runs'[Fresh].retryOf # NoRun
    BY <2>1, NoRunAssumption
  <2> QED  BY <1>a, <2>1, <2>4, <2>5, <2>6, <2>7, <2>8, DispatchCounts
<1>3. CASE ~PollAdvance /\ \A c \in Retriers : ~RetryAdvance(c)
  <2>1. SameRuns
    BY <1>3, RunsStep DEF RunsMove, SameRuns
  <2>2. CASE PollBlocked \/ PollEnter
    <3>1. /\ poller.pc = "loaded" /\ trigger' = FlushRollover(trigger, poller.seen, poller.day)
          /\ UNCHANGED today
      BY <2>2 DEF PollBlocked, PollEnter, pollerKeeps, outside
    <3>2. poller.seen \in TriggerRows /\ poller.day \in Nat
      BY <1>a DEF PollerStates
    <3> QED  BY <1>a, <2>1, <3>1, <3>2, RolloverCounts DEF PollerCountInv
  <2>3. CASE ~PollBlocked /\ ~PollEnter
    BY <1>3, <1>a, <1>b, <2>1, <2>3, CountersKept, CountKept
  <2> QED  BY <2>2, <2>3
<1> QED  BY <1>1, <1>2, <1>3

\* What the poller has claimed only loses messages until it dispatches.
LEMMA ClaimedBatchShrinks ==
    ASSUME IInv, Next, ~Poll, ~CrashAndRestart, poller.pc = "claimed"
    PROVE  /\ UNCHANGED poller /\ Cardinality(Batch(poller.run)') <= Cardinality(Batch(poller.run))
           /\ \A c \in Retriers : ~RetryAdvance(c)
<1>a. ledger \in [Keys -> Rows] /\ WaitingLeft(ledger) /\ LockInv /\ TypeOK
  BY Types DEF IInv, ClaimInv
<1>b. lock = "poller" /\ \A c \in Retriers : retry[c].pc \notin {"building", "submitting"}
  BY <1>a, OneInside DEF LockInv, PollerHolds
<1>1. UNCHANGED poller
  BY <1>a, PollerFrame
<1>2. \A c \in Retriers : ~RetryAdvance(c)
  BY <1>b DEF RetryAdvance
<1>3. NoNewClaims(ledger, ledger')
  <2>1. CASE UNCHANGED ledger
    BY <2>1 DEF NoNewClaims
  <2>2. ASSUME NEW r \in RunIds, Work(r)
        PROVE  NoNewClaims(ledger, ledger')
    <3>1. UNCHANGED ledger \/ \E D : ledger' = Complete(ledger, r, D)
      BY <2>2 DEF Work, WorkerFindsDraft, WorkerScan, WorkerAppend, WorkerAppendFails,
            WorkerTrace, WorkerFinish, WorkerSettle, WorkerPublish
    <3> QED  BY <1>a, <2>1, <3>1, LedgerKeeps
  <2>3. ASSUME NEW c \in Retriers, Retry(c)
        PROVE  UNCHANGED ledger
    BY <1>b, <2>3 DEF Retry, RetryGoesOn, RetryBegin, RetryBlocked, RetryEnter, RetryRollsBack,
          RetryAdvance, RetrySubmit, RetrySubmitFails
  <2>4. CASE Customer
    BY <1>a, <2>1, <2>4, CustomerFrame, LedgerKeeps
  <2>5. CASE Environment
    BY <2>1, <2>5, WorldFrame
  <2> QED  BY <2>1, <2>2, <2>3, <2>4, <2>5 DEF Next
<1>4. Batch(poller.run)' \in SUBSET Batch(poller.run)
  <2>1. ClaimedBy(ledger, poller.run)' \subseteq ClaimedBy(ledger, poller.run)
    BY <1>1, <1>3 DEF NoNewClaims, ClaimedBy, WithStatus
  <2> QED  BY <2>1 DEF Batch
<1>5. IsFiniteSet(Batch(poller.run))
  BY BatchTyped, UidsAssumption, FS_Subset
<1>6. Cardinality(Batch(poller.run)') <= Cardinality(Batch(poller.run))
  BY <1>4, <1>5, FS_Subset
<1> QED  BY <1>1, <1>2, <1>6

\* The poll's cached day and counters are those it will dispatch with.
LEMMA PollerCountStep ==
    ASSUME IInv, StatusInv, CountInv, PollerCountInv, RetryCountInv,
           MaxDay = 0 \/ "retry" \notin Requests, Next
    PROVE  PollerCountInv'
<1>a. /\ PollerIdle.pc = "idle" /\ poller \in PollerStates
      /\ trigger \in TriggerRows /\ today \in Nat /\ TypeOK
  BY Types DEF IInv, TypeOK
<1>b. today' \in today..MaxDay /\ (UNCHANGED today \/ Environment)
  BY DaysMove
<1>0. CASE poller' = PollerIdle
  BY <1>0, <1>a DEF PollerCountInv
<1>1. CASE PollLoad
  <2>1. poller'.pc = "loaded" /\ poller'.seen = trigger /\ poller'.day = today
    BY <1>1, <1>a DEF PollLoad, PollerStates
  <2>2. UNCHANGED <<trigger, today>>
    BY <1>1 DEF PollLoad, pollerKeeps, outside
  <2>3. trigger.date <= today /\ today <= today
    BY <1>a DEF CountInv
  <2> QED  BY <2>1, <2>2, <2>3 DEF PollerCountInv
<1>2. CASE PollEnter
  <2>1. /\ poller.pc = "loaded" /\ trigger' = FlushRollover(trigger, poller.seen, poller.day)
        /\ UNCHANGED today
        /\ poller' = [poller EXCEPT !.pc = "locked", !.seen = RolledOver(@, poller.day)]
    BY <1>2 DEF PollEnter, pollerKeeps, outside
  <2>2. poller.seen \in TriggerRows /\ poller.day \in Nat
    BY <1>a DEF PollerStates
  <2>3. SameRuns
    <3>1. runs \in [RunIds -> RunRows]
      BY Types DEF IInv
    <3> QED  BY <1>2, <3>1 DEF PollEnter, PassOverlapGuard, GuardOpen, ReleaseStaleRun, RunRows,
                SameRuns
  <2>4. trigger'.date = poller.day
        /\ trigger'.messagesToday = RolledOver(poller.seen, poller.day).messagesToday
    BY <1>a, <2>1, <2>2, <2>3, RolloverCounts DEF PollerCountInv
  <2>5. /\ poller'.pc = "locked" /\ poller'.day = poller.day
        /\ poller'.seen = RolledOver(poller.seen, poller.day)
    BY <1>a, <2>1 DEF PollerStates
  <2>6. poller.day <= poller.day /\ poller.day <= today
    BY <1>a, <2>1, <2>2 DEF PollerCountInv
  <2> QED  BY <2>1, <2>4, <2>5, <2>6 DEF PollerCountInv
<1>3. CASE PollCheck \/ PollBacklog
  <2>1. /\ UNCHANGED <<trigger, today>>
        /\ poller' = PollerIdle \/
             (/\ poller.pc \in {"locked", "checked"} /\ poller'.pc \in {"checked", "recorded"}
              /\ poller'.day = poller.day /\ poller'.seen = poller.seen)
    BY <1>3, <1>a DEF PollCheck, PollBacklog, pollerKeeps, outside, PollerStates, Leave
  <2> QED  BY <1>0, <2>1 DEF PollerCountInv
<1>4. CASE PollRecord
  <2>1. PICK last \in Detected :
           /\ trigger' = [trigger EXCEPT !.cursor = last]
           /\ poller' = [poller EXCEPT !.pc = "recorded", !.seen.cursor = last]
    BY <1>4 DEF PollRecord
  <2>2. /\ trigger'.date = trigger.date /\ trigger'.messagesToday = trigger.messagesToday
        /\ poller'.pc = "recorded" /\ poller'.day = poller.day
        /\ poller'.seen.messagesToday = poller.seen.messagesToday
    BY <1>a, <2>1 DEF TriggerRows, PollerStates
  <2>3. poller.pc = "checked" /\ UNCHANGED today
    BY <1>4 DEF PollRecord, pollerKeeps, outside
  <2> QED  BY <2>2, <2>3 DEF PollerCountInv
<1>5. CASE PollClaim
  <2>1. Cardinality(Batch(poller.run)') <= ClaimLimit
    BY <1>5, ClaimWithinLimit
  <2>2. /\ poller'.pc = "claimed" /\ poller'.day = poller.day /\ UNCHANGED <<trigger, today>>
        /\ poller.pc = "recorded"
    BY <1>5, <1>a DEF PollClaim, pollerKeeps, outside, PollerStates
  <2>3. /\ ~AtDailyCap(trigger, poller.day) /\ poller.day = trigger.date
        /\ poller.seen.messagesToday = trigger.messagesToday
    BY <1>5, <2>2 DEF PollClaim, CanClaim, PollerCountInv
  <2>4. trigger.runsToday < DailyCap
    BY <1>a, <2>3, CapAssumption DEF AtDailyCap, TriggerRows
  <2>5. Cardinality(Batch(poller.run)') \in Nat
    <3>1. Batch(poller.run)' \in SUBSET Uids
      BY DEF Batch, ClaimedBy, WithStatus, Keys
    <3> QED  BY <3>1, UidsAssumption, FS_Subset, FS_CardinalityType
  <2>6. trigger.messagesToday + Cardinality(Batch(poller.run)') <= MessageCap
    <3>1. trigger.messagesToday \in Nat /\ trigger.messagesToday <= MessageCap
      BY <1>a DEF CountInv, TriggerRows
    <3>2. ClaimLimit <= MessageCap - trigger.messagesToday /\ ClaimLimit \in Nat
      BY <2>3, <3>1, BatchAssumption, CapAssumption DEF ClaimLimit, Remaining
    <3> QED  BY <2>1, <2>5, <3>1, <3>2, CapAssumption
  <2>7. trigger.date <= poller.day /\ poller.day <= today
    BY <2>2 DEF PollerCountInv
  <2> QED  BY <2>2, <2>3, <2>4, <2>6, <2>7 DEF PollerCountInv
<1>6. CASE PollAdvance
  <2>1. /\ poller'.pc = "advanced" /\ poller'.day = poller.day /\ poller.pc = "claimed"
        /\ UNCHANGED today
    BY <1>6, <1>a DEF PollAdvance, pollerKeeps, outside, PollerStates
  <2>2. trigger'.date = trigger.date
    BY <1>6, <1>a DEF PollAdvance, Advanced, TriggerRows
  <2> QED  BY <2>1, <2>2 DEF PollerCountInv
<1>7. CASE \/ PollBlocked \/ PollCheckFails \/ PollRebaseline \/ PollDeclines \/ PollGivesBack
           \/ PollSubmit \/ PollSubmitFails \/ CrashAndRestart
  <2>1. poller' = PollerIdle
    BY <1>7 DEF PollBlocked, PollCheckFails, PollRebaseline, PollDeclines, PollGivesBack,
          PollSubmit, PollSubmitFails, CrashAndRestart, Leave
  <2> QED  BY <1>0, <2>1
<1>8. CASE PollSkips
  BY <1>8 DEF PollSkips, vars, PollerCountInv, Batch
<1>9. ASSUME ~Poll, ~CrashAndRestart, NEW c \in Retriers, RetryAdvance(c)
      PROVE  PollerCountInv'
  <2>1. UNCHANGED poller
    BY <1>9, <1>a, PollerFrame
  <2>2. retry[c].pc = "building"
    BY <1>9 DEF RetryAdvance
  <2>3. poller.pc \in {"idle", "loaded"}
    BY <1>a, <2>2, OneInside DEF IInv, PollerStates
  <2>4. /\ FlushRollover(trigger, retry[c].seen, retry[c].day) = trigger
        /\ MaxDay = 0 /\ today = 0 /\ trigger.date = 0
    BY <2>2, RetryFlushesNothing
  <2>5. trigger' = Advanced(trigger, Fresh, 0) /\ UNCHANGED today
    BY <1>9, <2>4 DEF RetryAdvance, retryKeeps, outside
  <2>6. trigger'.date = trigger.date /\ trigger'.messagesToday = trigger.messagesToday
    BY <1>a, <2>5 DEF Advanced, TriggerRows
  <2>7. poller.pc = "loaded" => poller.day = 0
    BY <1>a, <2>4 DEF PollerCountInv, PollerStates
  <2> QED  BY <2>1, <2>3, <2>4, <2>5, <2>6, <2>7 DEF PollerCountInv
<1>10. ASSUME ~Poll, ~CrashAndRestart, \A c \in Retriers : ~RetryAdvance(c)
       PROVE  PollerCountInv'
  <2>1. UNCHANGED poller
    BY <1>10, <1>a, PollerFrame
  <2>2. /\ trigger'.date = trigger.date /\ trigger'.runsToday = trigger.runsToday
        /\ trigger'.messagesToday = trigger.messagesToday
    BY <1>10, CountersKept DEF Poll
  <2>3. today <= today' /\ today' \in Nat
    BY <1>a, <1>b, BoundsAssumption
  <2>4. poller.pc # "idle" => trigger'.date <= poller'.day /\ poller'.day <= today'
    BY <1>a, <2>1, <2>2, <2>3 DEF PollerCountInv, PollerStates
  <2>5. poller.pc = "claimed" => Cardinality(Batch(poller.run)') <= Cardinality(Batch(poller.run))
    BY <1>10, ClaimedBatchShrinks
  <2>6. poller.pc = "claimed" =>
           trigger.messagesToday + Cardinality(Batch(poller.run)') <= MessageCap
    <3>1. /\ Batch(poller.run)' \in SUBSET Uids
          /\ Cardinality(Batch(poller.run)) \in Nat
      BY BatchTyped DEF Batch, ClaimedBy, WithStatus, Keys
    <3>2. Cardinality(Batch(poller.run)') \in Nat
      BY <3>1, UidsAssumption, FS_Subset, FS_CardinalityType
    <3>3. poller.pc = "claimed" =>
             trigger.messagesToday + Cardinality(Batch(poller.run)) <= MessageCap
      BY DEF PollerCountInv
    <3> QED  BY <1>a, <2>5, <3>1, <3>2, <3>3, CapAssumption DEF TriggerRows
  <2> QED  BY <2>1, <2>2, <2>4, <2>6 DEF PollerCountInv
<1> QED  BY <1>1, <1>2, <1>3, <1>4, <1>5, <1>6, <1>7, <1>8, <1>9, <1>10 DEF Poll

\* A retry that has passed the cap under the lock keeps what it saw.
LEMMA RetryCountStep ==
    ASSUME IInv, CountInv, RetryCountInv, MaxDay = 0 \/ "retry" \notin Requests, Next
    PROVE  RetryCountInv'
<1>a. /\ RetryIdle.pc = "idle" /\ retry \in [Retriers -> RetryStates]
      /\ trigger \in TriggerRows /\ today \in Nat /\ TypeOK /\ LockInv
  BY Types DEF IInv, TypeOK
<1>b. today' \in today..MaxDay /\ (UNCHANGED today \/ Environment)
  BY DaysMove
<1>c. today <= today' /\ today' \in Nat
  BY <1>a, <1>b, BoundsAssumption
<1> DEFINE Keeps(c) == retry'[c].pc # "idle" =>
              /\ "retry" \in Requests
              /\ retry'[c].day <= today' /\ retry'[c].seen.date <= today'
              /\ retry'[c].pc = "building" => trigger'.runsToday < DailyCap
<1>1. ASSUME NEW c \in Retriers, retry'[c] = retry[c],
             retry[c].pc = "building" => trigger'.runsToday = trigger.runsToday
      PROVE  Keeps(c)
  <2>1. retry[c].day \in Nat /\ retry[c].seen.date \in Nat
    BY <1>a DEF RetryStates, TriggerRows
  <2> QED  BY <1>a, <1>c, <1>1, <2>1 DEF RetryCountInv
<1>2. CASE UNCHANGED retry /\ ~PollBlocked /\ ~PollEnter /\ ~PollAdvance
           /\ \A c \in Retriers : ~RetryAdvance(c)
  <2>1. trigger'.runsToday = trigger.runsToday
    BY <1>2, CountersKept
  <2> QED  BY <1>1, <1>2, <2>1 DEF RetryCountInv
<1>3. CASE PollBlocked \/ PollEnter \/ PollAdvance
  <2>1. UNCHANGED retry
    BY <1>3 DEF PollBlocked, PollEnter, PollAdvance, pollerKeeps
  <2>2. \A c \in Retriers : retry[c].pc # "building"
    <3>1. lock = "free" \/ poller.pc = "claimed"
      BY <1>3 DEF PollBlocked, PollEnter, PollAdvance
    <3> QED  BY <1>a, <3>1, OneInside, RetriersAssumption DEF LockInv, RetryHolds
  <2> QED  BY <1>1, <2>1, <2>2 DEF RetryCountInv
<1>4. ASSUME NEW c \in Retriers, Retry(c)
      PROVE  RetryCountInv'
  <2>0. UNCHANGED today
    BY <1>4 DEF Retry, RetryGoesOn, RetryBegin, RetryBlocked, RetryEnter, RetryRollsBack,
          RetryAdvance, RetrySubmit, RetrySubmitFails, retryKeeps, outside
  <2>1. \A d \in Retriers : d # c => retry'[d] = retry[d]
    BY <1>a, <1>4 DEF Retry, RetryGoesOn, RetryBegin, RetryBlocked, RetryEnter, RetryRollsBack,
          RetryAdvance, RetrySubmit, RetrySubmitFails
  <2>2. \A d \in Retriers : d # c /\ retry[d].pc = "building" =>
           trigger'.runsToday = trigger.runsToday
    <3>1. SUFFICES ASSUME NEW d \in Retriers, d # c, retry[d].pc = "building"
                   PROVE  trigger' = trigger
      OBVIOUS
    <3>2. lock # "free" /\ retry[c].pc \notin {"building", "submitting"}
      BY <1>a, <3>1, OneInside, RetriersAssumption DEF LockInv, RetryHolds
    <3> QED  BY <1>4, <3>2 DEF Retry, RetryGoesOn, RetryBegin, RetryBlocked, RetryEnter,
                RetryRollsBack, RetryAdvance, RetrySubmit, RetrySubmitFails
  <2>3. \A d \in Retriers : d # c => Keeps(d)
    BY <1>1, <2>1, <2>2
  <2>4. CASE retry'[c] = RetryIdle
    BY <1>a, <2>3, <2>4 DEF RetryCountInv
  <2>5. ASSUME NEW r \in RunIds, RetryBegin(c, r)
        PROVE  RetryCountInv'
    <3>1. /\ "retry" \in Requests /\ UNCHANGED trigger
          /\ retry'[c] = [RetryIdle EXCEPT !.pc = "loaded", !.from = r, !.seen = trigger,
                                           !.day = today]
      BY <1>a, <2>5 DEF RetryBegin, Change
    <3>2. retry'[c].pc = "loaded" /\ retry'[c].seen = trigger /\ retry'[c].day = today
      BY <3>1 DEF RetryIdle
    <3>3. Keeps(c)
      BY <1>a, <2>0, <3>1, <3>2 DEF CountInv
    <3> QED  BY <2>3, <3>3 DEF RetryCountInv
  <2>6. CASE RetryEnter(c) /\ retry'[c] # RetryIdle
    <3> DEFINE seen == IF LastRunStale THEN RolledOver(retry[c].seen, retry[c].day)
                       ELSE retry[c].seen
    <3>1. retry[c].pc = "loaded"
      BY <2>6 DEF RetryEnter
    <3>2. /\ FlushRollover(trigger, retry[c].seen, retry[c].day) = trigger
          /\ MaxDay = 0 /\ today = 0 /\ trigger.date = 0 /\ retry[c].day = 0
      BY <3>1, RetryFlushesNothing
    <3>3. /\ trigger' = trigger /\ ~AtDailyCap(trigger, retry[c].day)
          /\ \E left, done : retry'[c] = [retry[c] EXCEPT !.pc = "building", !.uids = left,
                                             !.done = done, !.seen = seen]
      <4>1. PICK left, done, refused :
              /\ refused \in BOOLEAN /\ (AtDailyCap(trigger, retry[c].day) => refused)
              /\ trigger' = IF refused \/ LastRunStale THEN trigger ELSE trigger
              /\ retry' = [retry EXCEPT ![c] =
                    IF refused THEN RetryIdle
                    ELSE [retry[c] EXCEPT !.pc = "building", !.uids = left, !.done = done,
                                          !.seen = seen]]
        <5>1. PICK scanned \in {InDrafts(retry[c].from), {}} :
                LET from == retry[c].from
                    done == AlreadyDrafted(from) \cup scanned
                    left == runs[from].uids \ done
                    refused == \/ AtDailyCap(trigger, retry[c].day)
                               \/ RetryOfRunning(from)
                               \/ left = {}
                IN /\ trigger' = IF refused \/ LastRunStale THEN trigger ELSE trigger
                   /\ retry' = [retry EXCEPT ![c] =
                         IF refused THEN RetryIdle
                         ELSE [retry[c] EXCEPT !.pc = "building", !.uids = left, !.done = done,
                                               !.seen = seen]]
          BY <2>6, <3>2 DEF RetryEnter
        <5> DEFINE done == AlreadyDrafted(retry[c].from) \cup scanned
                   left == runs[retry[c].from].uids \ done
                   refused == \/ AtDailyCap(trigger, retry[c].day)
                              \/ RetryOfRunning(retry[c].from)
                              \/ left = {}
        <5>2. refused \in BOOLEAN /\ (AtDailyCap(trigger, retry[c].day) => refused)
          OBVIOUS
        <5>3. /\ trigger' = IF refused \/ LastRunStale THEN trigger ELSE trigger
              /\ retry' = [retry EXCEPT ![c] =
                    IF refused THEN RetryIdle
                    ELSE [retry[c] EXCEPT !.pc = "building", !.uids = left, !.done = done,
                                          !.seen = seen]]
          BY <5>1, Zenon
        <5> HIDE DEF refused, left, done, seen
        <5> QED  BY <5>2, <5>3, Zenon
      <4>2. retry'[c] = IF refused THEN RetryIdle
                        ELSE [retry[c] EXCEPT !.pc = "building", !.uids = left, !.done = done,
                                              !.seen = seen]
        BY <1>a, <4>1
      <4>3. ~refused
        BY <2>6, <4>2
      <4> QED  BY <4>1, <4>2, <4>3
    <3>4. seen \in TriggerRows /\ seen.date = 0
      <4>1. retry[c].seen \in TriggerRows /\ retry[c].seen.date \in Nat
        BY <1>a DEF RetryStates, TriggerRows
      <4>2. retry[c].seen.date = 0
        BY <3>1, <3>2, <4>1 DEF RetryCountInv
      <4> QED  BY <3>2, <4>1, <4>2 DEF RolledOver
    <3> HIDE DEF seen
    <3>5. retry'[c].day = 0 /\ retry'[c].seen.date = 0
      BY <1>a, <3>2, <3>3, <3>4 DEF RetryStates
    <3>6. trigger'.runsToday < DailyCap
      BY <1>a, <3>2, <3>3, CapAssumption DEF AtDailyCap, TriggerRows
    <3>7. "retry" \in Requests
      BY <3>1 DEF RetryCountInv
    <3>8. Keeps(c)
      BY <2>0, <3>2, <3>5, <3>6, <3>7
    <3> QED  BY <2>3, <3>8 DEF RetryCountInv
  <2>7. CASE RetryAdvance(c)
    <3>1. /\ retry[c].pc = "building"
          /\ retry'[c] = [retry[c] EXCEPT !.pc = "submitting", !.run = Fresh]
      BY <1>a, <2>7 DEF RetryAdvance
    <3>2. /\ retry'[c].pc = "submitting" /\ retry'[c].day = retry[c].day
          /\ retry'[c].seen = retry[c].seen
      BY <1>a, <3>1 DEF RetryStates
    <3>3. Keeps(c)
      BY <2>0, <3>1, <3>2 DEF RetryCountInv
    <3> QED  BY <2>3, <3>3 DEF RetryCountInv
  <2> QED  BY <1>4, <1>a, <2>4, <2>5, <2>6, <2>7 DEF Retry, RetryGoesOn, RetryBlocked, RetryEnter,
              RetryRollsBack, RetrySubmit, RetrySubmitFails
<1>5. CASE CrashAndRestart
  BY <1>5, <1>a DEF CrashAndRestart, RetryCountInv
<1>6. CASE Poll \/ Customer \/ (Environment /\ ~CrashAndRestart) \/ \E r \in RunIds : Work(r)
  <2>1. UNCHANGED retry
    BY <1>a, <1>6, WorkFrame, CustomerFrame, WorldFrame DEF Poll, PollSkips, PollLoad, PollBlocked,
       PollEnter, PollCheckFails, PollCheck, PollRebaseline, PollRecord, PollBacklog, PollDeclines,
       PollClaim, PollGivesBack, PollAdvance, PollSubmit, PollSubmitFails, vars, pollerKeeps
  <2>2. \A c \in Retriers : ~RetryAdvance(c)
    <3> SUFFICES ASSUME NEW c \in Retriers, RetryAdvance(c)
                 PROVE  FALSE
      OBVIOUS
    <3>1. retry[c].pc = "building" /\ retry'[c].pc = "submitting"
      BY <1>a DEF RetryAdvance, RetryStates
    <3> QED  BY <2>1, <3>1
  <2> QED  BY <1>2, <1>3, <2>1, <2>2
<1> QED  BY <1>4, <1>5, <1>6 DEF Next

\* A new trigger has counted nothing, and nothing has been started.
LEMMA InitCount ==
    ASSUME Init
    PROVE  CountInv /\ PollerCountInv /\ RetryCountInv
<1>1. PICK g \in Generations :
        trigger = [NewTrigger EXCEPT !.enabled = TRUE, !.gen = g]
  BY DEF Init
<1>2. trigger.date = 0 /\ trigger.runsToday = 0 /\ trigger.messagesToday = 0
  BY <1>1 DEF NewTrigger
<1>3. /\ \A r \in RunIds : runs[r].status = "none"
      /\ today = 0 /\ poller.pc = "idle" /\ \A c \in Retriers : retry[c].pc = "idle"
  BY DEF Init, NoRunRow, PollerIdle, RetryIdle
<1>4. Used = {} /\ \A d : RunsOn(d) = {} /\ MessagesOn(d) = {}
  BY <1>3 DEF Used, RunsOn, MessagesOn
<1>5. IsFiniteSet({}) /\ Cardinality({}) = 0
  BY FS_EmptySet
<1>6. DailyCapHolds /\ MessageCapHolds
  BY <1>4, <1>5, CapAssumption DEF DailyCapHolds, MessageCapHolds, MessagesOn
<1>7. CountInv
  BY <1>2, <1>3, <1>4, <1>5, <1>6, CapAssumption, BoundsAssumption DEF CountInv
<1> QED  BY <1>3, <1>7 DEF PollerCountInv, RetryCountInv

\* The counters are exact enough for both caps, as long as no retry can hold a
\* row of an earlier day.
LEMMA CountInductive ==
    ASSUME IInv, BatchInv, CountInv, PollerCountInv, RetryCountInv,
           MaxDay = 0 \/ "retry" \notin Requests, [Next]_vars
    PROVE  CountInv' /\ PollerCountInv' /\ RetryCountInv'
<1>1. CASE Next
  <2>1. StatusInv /\ PollerMail
    BY DEF BatchInv
  <2> QED  BY <1>1, <2>1, CountStep, PollerCountStep, RetryCountStep
<1>2. CASE UNCHANGED vars
  <2>1. CountInv'
    BY <1>2 DEF CountInv, Used, RunsOn, MessagesOn, DailyCapHolds, MessageCapHolds, vars
  <2>2. PollerCountInv' /\ RetryCountInv'
    BY <1>2 DEF PollerCountInv, RetryCountInv, Batch, vars
  <2> QED  BY <2>1, <2>2
<1> QED  BY <1>1, <1>2

\* The operator's rail holds on every day: no poll, watchdog, restart or
\* settings request lets an organisation start more than DailyCap runs, with
\* retries on one day and without them over any number of days.  (A retry that
\* spans midnight can pass it: the run CapLost.)
THEOREM DailyCapIsKept ==
    ASSUME MaxDay = 0 \/ "retry" \notin Requests
    PROVE  Spec => []DailyCapHolds
<1>1. Init => CountInv /\ PollerCountInv /\ RetryCountInv
  BY InitCount
<1>2. IInv /\ BatchInv /\ CountInv /\ PollerCountInv /\ RetryCountInv /\ [Next]_vars =>
        CountInv' /\ PollerCountInv' /\ RetryCountInv'
  BY CountInductive
<1>3. CountInv => DailyCapHolds
  BY DEF CountInv
<1> QED  BY <1>1, <1>2, <1>3, Invariance, BatchInvariance, PTL DEF Spec

\* Automatic runs are never handed more messages a day than the customer allows,
\* under the same condition: what a poll claims fits what is left of the day it
\* dispatches on.
THEOREM MessageCapIsKept ==
    ASSUME MaxDay = 0 \/ "retry" \notin Requests
    PROVE  Spec => []MessageCapHolds
<1>1. Init => CountInv /\ PollerCountInv /\ RetryCountInv
  BY InitCount
<1>2. IInv /\ BatchInv /\ CountInv /\ PollerCountInv /\ RetryCountInv /\ [Next]_vars =>
        CountInv' /\ PollerCountInv' /\ RetryCountInv'
  BY CountInductive
<1>3. CountInv => MessageCapHolds
  BY DEF CountInv
<1> QED  BY <1>1, <1>2, <1>3, Invariance, BatchInvariance, PTL DEF Spec
=============================================================================
