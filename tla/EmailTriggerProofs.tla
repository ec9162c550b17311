------------------------- MODULE EmailTriggerProofs -------------------------
(***************************************************************************)
(* Theorems of EmailTrigger for every number of mailboxes, messages, runs, *)
(* retry requests, days, faults and requests.                              *)
(***************************************************************************)
EXTENDS EmailTrigger, FiniteSetTheorems, TLAPS

----------------------------------------------------------------------------
\* The inductive invariant, by what each part is about.

PollerHolds == poller.pc \in {"locked", "checked", "recorded", "claimed", "advanced"}
RetryHolds(c) == retry[c].pc \in {"building", "submitting"}

\* Who is inside the dispatch section is who has the lock.
LockInv ==
    /\ lock = "poller" <=> PollerHolds
    /\ \A c \in Retriers : lock = c <=> RetryHolds(c)

NotStarted(r) == live[r] = "running" /\ worker[r] = "none"

\* A run between its registration and its worker, and a run with a worker.
RunInv ==
    /\ poller.pc \in {"claimed", "advanced"} => poller.run \in RunIds /\ NotStarted(poller.run)
    /\ \A c \in Retriers : retry[c].pc = "submitting" =>
          retry[c].run \in RunIds /\ NotStarted(retry[c].run)
    /\ \A r \in RunIds : worker[r] # "none" => live[r] = "running"
    /\ \A r \in RunIds : worker[r] \in {"settling", "publishing"} => runs[r].status # "running"

\* Why the overlap guard works: a running row is the last run's, the registry
\* knows it, and there is none between the guard and the dispatch.
GuardInv ==
    /\ \A r \in RunIds : runs[r].status = "running" =>
          r = trigger.lastRun /\ live[r] = "running"
    /\ poller.pc \in {"locked", "checked", "recorded", "claimed"} =>
          \A r \in RunIds : runs[r].status # "running"
    /\ \A c \in Retriers : retry[c].pc = "building" =>
          \A r \in RunIds : runs[r].status # "running"

\* A retry that has begun is of a run that exists.
RetryInv ==
    \A c \in Retriers : retry[c].pc # "idle" => retry[c].from \in RunIds

\* A row that waits has an attempt left, and so has one that is about to.
WaitingLeft(L) ==
    \A k \in Keys : L[k].status \in {"absent", "pending", "filtered"} =>
        L[k].attempts < MaxAttempts

Begun(r) == runs[r].status # "none" \/ live[r] # "absent"

\* Claims belong to runs that exist, so a fresh run has none, and attempts are
\* charged between the claim and the worker, to rows that waited.
ClaimInv ==
    /\ WaitingLeft(ledger)
    /\ \A k \in Keys : ledger[k].status = "claimed" =>
          ledger[k].run \in RunIds /\ Begun(ledger[k].run)
    /\ poller.pc = "claimed" => \A k \in Keys :
          ledger[k].status = "claimed" /\ ledger[k].run = poller.run =>
              ledger[k].attempts < MaxAttempts

IInv == TypeOK /\ LockInv /\ RunInv /\ RetryInv /\ GuardInv /\ ClaimInv

----------------------------------------------------------------------------
\* Every statement of the ledger leaves a ledger.

LEMMA LedgerTyped ==
    ASSUME NEW L \in [Keys -> Rows]
    PROVE  /\ \A b, g, D, F : Record(L, b, g, D, F) \in [Keys -> Rows]
           /\ \A B : \A r \in RunIds : Claim(L, r, B) \in [Keys -> Rows]
           /\ \A r, D : Complete(L, r, D) \in [Keys -> Rows]
           /\ \A S : Release(L, S) \in [Keys -> Rows]
           /\ \A C : Abandon(L, C) \in [Keys -> Rows]
           /\ \A f, R, D : \A t \in RunIds : ResolveRetry(L, f, t, R, D) \in [Keys -> Rows]
           /\ \A k \in Keys : ReleaseFiltered(L, k) \in [Keys -> Rows]
<1>1. \A b, g, D, F : Record(L, b, g, D, F) \in [Keys -> Rows]
  BY MaxAttemptsAssumption DEF Record, NoRow, Rows, Statuses
<1>2. \A B : \A r \in RunIds : Claim(L, r, B) \in [Keys -> Rows]
  BY DEF Claim, Rows, Statuses
<1>3. \A r, D : Complete(L, r, D) \in [Keys -> Rows]
  BY DEF Complete, Rows, Statuses
<1>4. \A S : Release(L, S) \in [Keys -> Rows]
  BY DEF Release, Rows, Statuses
<1>5. \A C : Abandon(L, C) \in [Keys -> Rows]
  BY DEF Abandon, Rows, Statuses
<1>6. \A f, R, D : \A t \in RunIds : ResolveRetry(L, f, t, R, D) \in [Keys -> Rows]
  BY MaxAttemptsAssumption DEF ResolveRetry, Rows, Statuses
<1>7. \A k \in Keys : ReleaseFiltered(L, k) \in [Keys -> Rows]
  BY DEF ReleaseFiltered, Rows, Statuses
<1> QED  BY <1>1, <1>2, <1>3, <1>4, <1>5, <1>6, <1>7

\* An attempt can be charged to rows that have one left.
LEMMA MarkDispatchedTyped ==
    ASSUME NEW L \in [Keys -> Rows], NEW r,
           \A k \in ClaimedBy(L, r) : L[k].attempts < MaxAttempts
    PROVE  MarkDispatched(L, r) \in [Keys -> Rows]
  BY MaxAttemptsAssumption DEF MarkDispatched, Rows

\* The trigger row stays one under the rollover and the dispatch.
LEMMA TriggerTyped ==
    ASSUME NEW row \in TriggerRows, NEW seen \in TriggerRows, NEW day \in Nat
    PROVE  /\ RolledOver(row, day) \in TriggerRows
           /\ FlushRollover(row, seen, day) \in TriggerRows
           /\ \A r \in RunIds, n \in Nat : Advanced(row, r, n) \in TriggerRows
<1>1. RolledOver(row, day) \in TriggerRows
  BY DEF RolledOver, TriggerRows
<1>2. FlushRollover(row, seen, day) \in TriggerRows
  <2>1. CASE seen.date = day
    BY <2>1 DEF FlushRollover
  <2>2. CASE seen.date # day
    <3> DEFINE rt == IF seen.runsToday = 0 THEN row.runsToday ELSE 0
               mt == IF seen.messagesToday = 0 THEN row.messagesToday ELSE 0
    <3>1. rt \in Nat /\ mt \in Nat
      BY DEF TriggerRows
    <3>2. FlushRollover(row, seen, day) =
            [row EXCEPT !.runsToday = rt, !.messagesToday = mt, !.date = day]
      BY <2>2 DEF FlushRollover
    <3>3. \A x, y \in Nat :
            [row EXCEPT !.runsToday = x, !.messagesToday = y, !.date = day] \in TriggerRows
      BY DEF TriggerRows
    <3> HIDE DEF rt, mt
    <3> QED  BY <3>1, <3>2, <3>3
  <2> QED  BY <2>1, <2>2
<1>3. \A r \in RunIds, n \in Nat : Advanced(row, r, n) \in TriggerRows
  <2> SUFFICES ASSUME NEW r \in RunIds, NEW n \in Nat
               PROVE  Advanced(row, r, n) \in TriggerRows
    OBVIOUS
  <2>1. row.runsToday + 1 \in Nat /\ row.messagesToday + n \in Nat
    BY DEF TriggerRows
  <2>2. \A x, y \in Nat :
          [row EXCEPT !.runsToday = x, !.messagesToday = y, !.lastRun = r] \in TriggerRows
    BY DEF TriggerRows
  <2> QED  BY <2>1, <2>2 DEF Advanced
<1> QED  BY <1>1, <1>2, <1>3

----------------------------------------------------------------------------
\* Every step keeps the types.

\* The records of a thread that is doing nothing are well typed.
LEMMA IdleTyped ==
    PollerIdle \in PollerStates /\ RetryIdle \in RetryStates /\ RequestIdle \in RequestStates
<1>1. NewTrigger \in TriggerRows
  BY DEF NewTrigger, TriggerRows, Top
<1> QED  BY <1>1 DEF PollerIdle, PollerStates, RetryIdle, RetryStates, RequestIdle,
             RequestStates, Top

\* A fault is counted in a natural number.
LEMMA FaultTyped ==
    ASSUME faults \in Nat, Fault \/ UNCHANGED faults
    PROVE  faults' \in Nat
  BY DEF Fault

\* A customer request is counted in a natural number.
LEMMA ChangeTyped ==
    ASSUME changes \in Nat, NEW kind, Change(kind)
    PROVE  changes' \in Nat
  BY DEF Change

\* What passing the overlap guard may change.
LEMMA GuardTyped ==
    ASSUME TypeOK, PassOverlapGuard
    PROVE  /\ ledger' \in [Keys -> Rows]
           /\ runs' \in [RunIds -> RunRows]
           /\ cancelled' \in SUBSET RunIds
<1>1. CASE GuardOpen
  BY <1>1 DEF GuardOpen, TypeOK
<1>2. CASE ReleaseStaleRun
  <2>1. trigger.lastRun \in RunIds
    BY <1>2 DEF ReleaseStaleRun, LastRunStale, LastRunExecuting, TypeOK, TriggerRows
  <2>2. ledger' \in [Keys -> Rows]
    BY <1>2, LedgerTyped DEF ReleaseStaleRun, TypeOK
  <2>3. runs' \in [RunIds -> RunRows]
    BY <1>2, <2>1 DEF ReleaseStaleRun, TypeOK, RunRows
  <2> QED  BY <1>2, <2>1, <2>2, <2>3 DEF ReleaseStaleRun, TypeOK
<1> QED  BY <1>1, <1>2 DEF PassOverlapGuard

\* The run id a dispatch takes is one no row and no registry entry has.
LEMMA FreshTyped ==
    ASSUME FreshRuns # {}
    PROVE  Fresh \in RunIds /\ runs[Fresh].status = "none" /\ live[Fresh] = "absent"
  BY DEF FreshRuns, Fresh

\* Giving a run a final status leaves a run row.
LEMMA StatusTyped ==
    ASSUME NEW R \in [RunIds -> RunRows], NEW r \in RunIds,
           NEW status \in {"none", "running", "completed", "failed", "cancelled"}
    PROVE  [R EXCEPT ![r].status = status] \in [RunIds -> RunRows]
  BY DEF RunRows

\* A batch can be counted.
LEMMA BatchTyped ==
    ASSUME NEW r
    PROVE  Batch(r) \in SUBSET Uids /\ Cardinality(Batch(r)) \in Nat
<1>1. Batch(r) \in SUBSET Uids
  BY DEF Batch, ClaimedBy, WithStatus, Keys
<1> QED  BY <1>1, UidsAssumption, FS_Subset, FS_CardinalityType

\* Every step of the poller keeps the types.
LEMMA PollTyped ==
    ASSUME TypeOK, RunInv, ClaimInv, Poll
    PROVE  TypeOK'
<1> USE DEF pollerKeeps, outside, settings, workers
<1>a. /\ trigger \in TriggerRows /\ poller \in PollerStates /\ ledger \in [Keys -> Rows]
      /\ today \in Nat /\ cred \in Mailboxes \cup {NoMailbox}
      /\ mailbox \in [Mailboxes -> Inboxes] /\ faults \in Nat
      /\ runs \in [RunIds -> RunRows] /\ baseline \in Top
      /\ live \in [RunIds -> {"absent", "running", "terminal"}]
      /\ worker \in [RunIds -> {"none", "working", "settling", "publishing"}]
  BY DEF TypeOK
<1>b. /\ poller.seen \in TriggerRows /\ poller.day \in Nat
      /\ FlushRollover(trigger, poller.seen, poller.day) \in TriggerRows
      /\ RolledOver(poller.seen, poller.day) \in TriggerRows
  BY <1>a, TriggerTyped DEF PollerStates
<1>1. CASE PollSkips
  BY <1>1 DEF PollSkips, TypeOK, vars
<1>2. CASE PollLoad
  <2>1. poller' \in PollerStates
    BY <1>2, <1>a DEF PollLoad, PollerStates
  <2> QED  BY <1>2, <2>1 DEF PollLoad, TypeOK
<1>3. CASE PollBlocked
  BY <1>3, <1>b, IdleTyped DEF PollBlocked, Leave, TypeOK
<1>4. CASE PollEnter
  <2>1. poller' \in PollerStates
    BY <1>4, <1>a, <1>b DEF PollEnter, PollerStates
  <2>2. PassOverlapGuard
    BY <1>4 DEF PollEnter
  <2> QED  BY <1>4, <1>b, <2>1, <2>2, GuardTyped DEF PollEnter, TypeOK
<1>5. CASE PollCheckFails
  <2>1. faults' \in Nat
    BY <1>5, <1>a, FaultTyped DEF PollCheckFails
  <2> QED  BY <1>5, <2>1, IdleTyped DEF PollCheckFails, Leave, TypeOK
<1>6. CASE PollCheck
  <2>1. cred \in Mailboxes /\ mailbox[cred] \in Inboxes
    BY <1>6, <1>a DEF PollCheck
  <2>2. poller' \in PollerStates
    BY <1>6, <1>a, <2>1 DEF PollCheck, PollerStates, Inboxes
  <2> QED  BY <1>6, <2>2 DEF PollCheck, TypeOK
<1>7. CASE PollRebaseline
  <2>1. poller.gen \in Generations \cup {NoGeneration} /\ poller.top \in Top
    BY <1>a DEF PollerStates
  <2>2. trigger' \in TriggerRows
    BY <1>7, <1>a, <2>1 DEF PollRebaseline, TriggerRows
  <2>3. baseline' \in Top
    BY <1>7, <2>2 DEF PollRebaseline, TriggerRows
  <2>4. ledger' \in [Keys -> Rows]
    BY <1>7, <1>a, LedgerTyped DEF PollRebaseline
  <2> QED  BY <1>7, <2>2, <2>3, <2>4, IdleTyped DEF PollRebaseline, Leave, TypeOK
<1>8. CASE PollRecord
  <2>1. PICK last \in Detected :
          /\ trigger' = [trigger EXCEPT !.cursor = last]
          /\ poller' = [poller EXCEPT !.pc = "recorded", !.seen.cursor = last]
    BY <1>8 DEF PollRecord
  <2>2. last \in Top
    BY DEF Detected, Lowest, NewUids, Top
  <2>3. trigger' \in TriggerRows
    BY <1>a, <2>1, <2>2 DEF TriggerRows
  <2>4. [poller.seen EXCEPT !.cursor = last] \in TriggerRows
    BY <1>b, <2>2 DEF TriggerRows
  <2>5. poller' \in PollerStates
    BY <1>a, <2>1, <2>4 DEF PollerStates
  <2>6. ledger' \in [Keys -> Rows]
    BY <1>8, <1>a, LedgerTyped DEF PollRecord
  <2> QED  BY <1>8, <2>3, <2>5, <2>6 DEF PollRecord, TypeOK
<1>9. CASE PollBacklog
  <2>1. poller' \in PollerStates /\ lock' \in {lock, "free"}
    BY <1>9, <1>a, IdleTyped DEF PollBacklog, Leave, PollerStates
  <2> QED  BY <1>9, <2>1 DEF PollBacklog, TypeOK
<1>10. CASE PollDeclines
  <2>1. faults' \in Nat
    BY <1>10, <1>a, FaultTyped DEF PollDeclines
  <2> QED  BY <1>10, <2>1, IdleTyped DEF PollDeclines, Leave, TypeOK
<1>11. CASE PollClaim
  <2>1. Fresh \in RunIds
    BY <1>11, FreshTyped DEF PollClaim, CanClaim
  <2>2. poller' \in PollerStates
    BY <1>11, <1>a, <2>1 DEF PollClaim, PollerStates
  <2>3. ledger' \in [Keys -> Rows]
    BY <1>11, <1>a, <2>1, LedgerTyped DEF PollClaim
  <2>4. live' \in [RunIds -> {"absent", "running", "terminal"}]
    BY <1>11, <1>a, <2>1 DEF PollClaim
  <2> QED  BY <1>11, <2>2, <2>3, <2>4 DEF PollClaim, TypeOK
<1>12. CASE PollGivesBack
  <2>1. faults' \in Nat
    BY <1>12, <1>a, FaultTyped DEF PollGivesBack
  <2>2. ledger' \in [Keys -> Rows]
    BY <1>12, <1>a, LedgerTyped DEF PollGivesBack
  <2>3. live' \in [RunIds -> {"absent", "running", "terminal"}]
    BY <1>12, <1>a DEF PollGivesBack
  <2> QED  BY <1>12, <2>1, <2>2, <2>3, IdleTyped DEF PollGivesBack, Leave, TypeOK
<1>13. CASE PollAdvance
  <2> DEFINE r == poller.run
  <2>1. r \in RunIds /\ poller.box \in Mailboxes \cup {NoMailbox}
        /\ poller.seen.gen \in Generations \cup {NoGeneration}
    BY <1>13, <1>a, <1>b DEF PollerStates, TriggerRows, PollAdvance, RunInv
  <2>2. trigger' \in TriggerRows
    <3>1. Advanced(trigger, r, Cardinality(Batch(r))) \in TriggerRows
      BY <1>13, <1>a, TriggerTyped, BatchTyped, <2>1
    <3> QED  BY <1>13, <3>1 DEF PollAdvance
  <2>3. ledger' \in [Keys -> Rows]
    <3>1. \A k \in ClaimedBy(ledger, r) : ledger[k].attempts < MaxAttempts
      BY <1>13 DEF PollAdvance, ClaimInv, ClaimedBy, WithStatus
    <3> QED  BY <1>13, <1>a, <3>1, MarkDispatchedTyped DEF PollAdvance
  <2>4. runs' \in [RunIds -> RunRows]
    <3>1. r \in RunIds =>
           [status |-> "running", box |-> poller.box, gen |-> poller.seen.gen,
            uids |-> Batch(r), retryOf |-> NoRun, family |-> r, day |-> poller.day] \in RunRows
      BY <1>b, <2>1, BatchTyped DEF RunRows
    <3> QED  BY <1>13, <1>a, <3>1 DEF PollAdvance
  <2>5. poller' \in PollerStates
    BY <1>13, <1>a DEF PollAdvance, PollerStates
  <2> QED  BY <1>13, <2>2, <2>3, <2>4, <2>5 DEF PollAdvance, TypeOK
<1>14. CASE PollSubmit
  <2>1. worker' \in [RunIds -> {"none", "working", "settling", "publishing"}]
    BY <1>14, <1>a DEF PollSubmit
  <2> QED  BY <1>14, <2>1, IdleTyped DEF PollSubmit, Leave, TypeOK
<1>15. CASE PollSubmitFails
  <2>1. faults' \in Nat
    BY <1>15, <1>a, FaultTyped DEF PollSubmitFails
  <2>2. ledger' \in [Keys -> Rows]
    BY <1>15, <1>a, LedgerTyped DEF PollSubmitFails
  <2>3. live' \in [RunIds -> {"absent", "running", "terminal"}]
    BY <1>15, <1>a DEF PollSubmitFails
  <2>4. runs' \in [RunIds -> RunRows]
    BY <1>15, <1>a, StatusTyped DEF PollSubmitFails, RunInv
  <2> QED  BY <1>15, <2>1, <2>2, <2>3, <2>4, IdleTyped DEF PollSubmitFails, Leave, TypeOK
<1> QED  BY <1>1, <1>2, <1>3, <1>4, <1>5, <1>6, <1>7, <1>8, <1>9, <1>10, <1>11, <1>12,
            <1>13, <1>14, <1>15 DEF Poll

\* Every step of a run's worker keeps the types.
LEMMA WorkTyped ==
    ASSUME TypeOK, NEW r \in RunIds, Work(r)
    PROVE  TypeOK'
<1> USE DEF workerKeeps, settings
<1>a. /\ drafts \in [Keys -> Nat] /\ faults \in Nat /\ ledger \in [Keys -> Rows]
      /\ drafted \in [RunIds -> SUBSET Uids] /\ evidence \in [RunIds -> SUBSET Uids]
      /\ runs \in [RunIds -> RunRows] /\ appending \in [RunIds -> Top]
      /\ live \in [RunIds -> {"absent", "running", "terminal"}]
      /\ worker \in [RunIds -> {"none", "working", "settling", "publishing"}]
  BY DEF TypeOK
<1>d. \A k : \A n \in Nat : [drafts EXCEPT ![k] = @ + n] \in [Keys -> Nat]
  <2> SUFFICES ASSUME NEW k, NEW n \in Nat
               PROVE  [drafts EXCEPT ![k] = @ + n] \in [Keys -> Nat]
    OBVIOUS
  <2>1. CASE k \in Keys
    <3>1. drafts[k] + n \in Nat
      BY <1>a, <2>1
    <3> QED  BY <1>a, <3>1
  <2>2. CASE k \notin Keys
    BY <1>a, <2>2
  <2> QED  BY <2>1, <2>2
<1>1. ASSUME NEW u \in Uids, WorkerFindsDraft(r, u)
      PROVE  TypeOK'
  <2>1. drafted' \in [RunIds -> SUBSET Uids]
    BY <1>1, <1>a DEF WorkerFindsDraft
  <2> QED  BY <1>1, <2>1 DEF WorkerFindsDraft, TypeOK
<1>2. ASSUME NEW u \in Uids, WorkerScan(r, u)
      PROVE  TypeOK'
  <2>1. faults' \in Nat
    BY <1>2, <1>a, FaultTyped DEF WorkerScan
  <2>2. appending' \in [RunIds -> Top]
    BY <1>2, <1>a DEF WorkerScan, Top
  <2> QED  BY <1>2, <2>1, <2>2 DEF WorkerScan, TypeOK
<1>3. CASE WorkerAppend(r)
  <2>1. appending[r] \in Uids
    BY <1>3, <1>a DEF WorkerAppend, Top
  <2>2. drafts' \in [Keys -> Nat]
    BY <1>3, <1>d DEF WorkerAppend
  <2>3. drafted' \in [RunIds -> SUBSET Uids] /\ appending' \in [RunIds -> Top]
    BY <1>3, <1>a, <2>1 DEF WorkerAppend, Top
  <2> QED  BY <1>3, <2>2, <2>3 DEF WorkerAppend, TypeOK
<1>4. CASE WorkerAppendFails(r)
  <2>1. faults' \in Nat
    BY <1>4, <1>a, FaultTyped DEF WorkerAppendFails
  <2>2. drafts' \in [Keys -> Nat]
    BY <1>4, <1>d DEF WorkerAppendFails
  <2>3. appending' \in [RunIds -> Top]
    BY <1>4, <1>a DEF WorkerAppendFails, Top
  <2> QED  BY <1>4, <2>1, <2>2, <2>3 DEF WorkerAppendFails, TypeOK
<1>5. CASE WorkerTrace(r)
  <2>1. drafted' \in [RunIds -> SUBSET Uids] /\ evidence' \in [RunIds -> SUBSET Uids]
    BY <1>5, <1>a DEF WorkerTrace
  <2> QED  BY <1>5, <2>1 DEF WorkerTrace, TypeOK
<1>6. ASSUME NEW outcome \in {"completed", "failed", "cancelled"}, WorkerFinish(r, outcome)
      PROVE  TypeOK'
  <2>1. runs' \in [RunIds -> RunRows]
    BY <1>6, <1>a, StatusTyped DEF WorkerFinish
  <2>2. /\ drafted' \in [RunIds -> SUBSET Uids]
        /\ worker' \in [RunIds -> {"none", "working", "settling", "publishing"}]
    BY <1>6, <1>a DEF WorkerFinish
  <2> QED  BY <1>6, <2>1, <2>2 DEF WorkerFinish, TypeOK
<1>7. CASE WorkerSettle(r)
  <2>1. ledger' \in [Keys -> Rows]
    BY <1>7, <1>a, LedgerTyped DEF WorkerSettle
  <2>2. worker' \in [RunIds -> {"none", "working", "settling", "publishing"}]
    BY <1>7, <1>a DEF WorkerSettle
  <2> QED  BY <1>7, <2>1, <2>2 DEF WorkerSettle, TypeOK
<1>8. CASE WorkerPublish(r)
  <2>1. /\ worker' \in [RunIds -> {"none", "working", "settling", "publishing"}]
        /\ live' \in [RunIds -> {"absent", "running", "terminal"}]
    BY <1>8, <1>a DEF WorkerPublish
  <2> QED  BY <1>8, <2>1 DEF WorkerPublish, TypeOK
<1> QED  BY <1>1, <1>2, <1>3, <1>4, <1>5, <1>6, <1>7, <1>8 DEF Work

\* Every step of a retry request keeps the types.
LEMMA RetryTyped ==
    ASSUME TypeOK, RunInv, RetryInv, NEW c \in Retriers, Retry(c)
    PROVE  TypeOK'
<1> USE DEF retryKeeps, outside, settings
<1>a. /\ trigger \in TriggerRows /\ retry \in [Retriers -> RetryStates]
      /\ ledger \in [Keys -> Rows] /\ today \in Nat /\ faults \in Nat /\ changes \in Nat
      /\ runs \in [RunIds -> RunRows] /\ evidence \in [RunIds -> SUBSET Uids]
      /\ live \in [RunIds -> {"absent", "running", "terminal"}]
      /\ worker \in [RunIds -> {"none", "working", "settling", "publishing"}]
  BY DEF TypeOK
<1>b. /\ retry[c] \in RetryStates
      /\ retry[c].seen \in TriggerRows /\ retry[c].day \in Nat
      /\ retry[c].uids \in SUBSET Uids
      /\ FlushRollover(trigger, retry[c].seen, retry[c].day) \in TriggerRows
      /\ RolledOver(retry[c].seen, retry[c].day) \in TriggerRows
  BY <1>a, TriggerTyped DEF RetryStates
<1>c. [retry EXCEPT ![c] = RetryIdle] \in [Retriers -> RetryStates]
  BY <1>a, IdleTyped
<1>1. ASSUME NEW r \in RunIds, RetryBegin(c, r)
      PROVE  TypeOK'
  <2>1. changes' \in Nat
    BY <1>1, <1>a, ChangeTyped DEF RetryBegin
  <2>2. [RetryIdle EXCEPT !.pc = "loaded", !.from = r, !.seen = trigger, !.day = today]
            \in RetryStates
    BY <1>a, IdleTyped DEF RetryStates
  <2>3. retry' \in [Retriers -> RetryStates]
    BY <1>1, <1>a, <2>2 DEF RetryBegin
  <2> QED  BY <1>1, <2>1, <2>3 DEF RetryBegin, TypeOK
<1>2. CASE RetryBlocked(c)
  BY <1>2, <1>b, <1>c DEF RetryBlocked, TypeOK
<1>3. CASE RetryEnter(c)
  <2> DEFINE from == retry[c].from
             flushed == FlushRollover(trigger, retry[c].seen, retry[c].day)
  <2> DEFINE seen == IF LastRunStale THEN RolledOver(retry[c].seen, retry[c].day)
                                     ELSE retry[c].seen
  <2>1. PICK scanned \in {InDrafts(from), {}} :
          LET done == AlreadyDrafted(from) \cup scanned
              left == runs[from].uids \ done
              refused == \/ AtDailyCap(flushed, retry[c].day)
                         \/ RetryOfRunning(from)
                         \/ left = {}
          IN /\ IF scanned = InDrafts(from) THEN UNCHANGED faults ELSE Fault
             /\ lock' = IF refused THEN "free" ELSE c
             /\ trigger' = IF refused \/ LastRunStale THEN flushed ELSE trigger
             /\ retry' = [retry EXCEPT ![c] =
                   IF refused THEN RetryIdle
                   ELSE [retry[c] EXCEPT !.pc = "building", !.uids = left, !.done = done,
                                         !.seen = seen]]
    BY <1>3 DEF RetryEnter
  <2> DEFINE done == AlreadyDrafted(from) \cup scanned
             left == runs[from].uids \ done
             entered == [retry[c] EXCEPT !.pc = "building", !.uids = left, !.done = done,
                                         !.seen = seen]
  <2>2. faults' \in Nat
    BY <2>1, <1>a, FaultTyped
  <2>3. lock' \in {"free"} \cup Retriers /\ trigger' \in TriggerRows
    BY <2>1, <1>a, <1>b
  <2>4. from \in RunIds
    BY <1>3 DEF RetryEnter, RetryInv
  <2>5. done \in SUBSET Uids /\ left \in SUBSET Uids
    <3>1. runs[from].uids \in SUBSET Uids
      BY <1>a, <2>4 DEF RunRows
    <3> QED  BY <3>1 DEF AlreadyDrafted, InDrafts
  <2>6. seen \in TriggerRows
    BY <1>b
  <2> HIDE DEF done, left, seen
  <2>7. entered \in RetryStates
    BY <1>b, <2>5, <2>6 DEF RetryStates
  <2>8. retry' \in {[retry EXCEPT ![c] = RetryIdle], [retry EXCEPT ![c] = entered]}
    BY <2>1 DEF done, left, seen
  <2>9. retry' \in [Retriers -> RetryStates]
    BY <1>a, <1>c, <2>7, <2>8
  <2>10. PassOverlapGuard
    BY <1>3 DEF RetryEnter
  <2> QED  BY <1>3, <2>2, <2>3, <2>9, <2>10, GuardTyped DEF RetryEnter, TypeOK
<1>4. CASE RetryRollsBack(c)
  <2>1. faults' \in Nat
    BY <1>4, <1>a, FaultTyped DEF RetryRollsBack
  <2> QED  BY <1>4, <1>c, <2>1 DEF RetryRollsBack, TypeOK
<1>5. CASE RetryAdvance(c)
  <2> DEFINE from == retry[c].from
  <2>1. Fresh \in RunIds
    BY <1>5, FreshTyped DEF RetryAdvance
  <2>2. trigger' \in TriggerRows
    BY <1>5, <1>b, <2>1, TriggerTyped DEF RetryAdvance
  <2>3. ledger' \in [Keys -> Rows]
    BY <1>5, <1>a, <2>1, LedgerTyped DEF RetryAdvance
  <2>4. runs' \in [RunIds -> RunRows]
    <3>1. from \in RunIds
      BY <1>5 DEF RetryAdvance, RetryInv
    <3>2. [runs[from] EXCEPT !.status = "running", !.uids = retry[c].uids,
                             !.retryOf = from, !.day = retry[c].day] \in RunRows
      <4>1. \A row \in RunRows, U \in SUBSET Uids, d \in Nat :
              [row EXCEPT !.status = "running", !.uids = U, !.retryOf = from, !.day = d]
                  \in RunRows
        BY <3>1 DEF RunRows
      <4> QED  BY <1>a, <1>b, <3>1, <4>1
    <3> QED  BY <1>5, <1>a, <2>1, <3>2 DEF RetryAdvance
  <2>5. live' \in [RunIds -> {"absent", "running", "terminal"}]
    BY <1>5, <1>a DEF RetryAdvance
  <2>6. retry' \in [Retriers -> RetryStates]
    <3>1. [retry[c] EXCEPT !.pc = "submitting", !.run = Fresh] \in RetryStates
      BY <1>b, <2>1 DEF RetryStates
    <3>2. retry' = [retry EXCEPT ![c] = [retry[c] EXCEPT !.pc = "submitting", !.run = Fresh]]
      BY <1>5, <1>a DEF RetryAdvance
    <3> QED  BY <1>a, <3>1, <3>2
  <2> QED  BY <1>5, <2>2, <2>3, <2>4, <2>5, <2>6 DEF RetryAdvance, TypeOK
<1>6. CASE RetrySubmit(c)
  <2>1. worker' \in [RunIds -> {"none", "working", "settling", "publishing"}]
    BY <1>6, <1>a DEF RetrySubmit
  <2> QED  BY <1>6, <1>c, <2>1 DEF RetrySubmit, TypeOK
<1>7. CASE RetrySubmitFails(c)
  <2>1. faults' \in Nat
    BY <1>7, <1>a, FaultTyped DEF RetrySubmitFails
  <2>2. live' \in [RunIds -> {"absent", "running", "terminal"}]
    BY <1>7, <1>a DEF RetrySubmitFails
  <2>3. runs' \in [RunIds -> RunRows]
    BY <1>7, <1>a, StatusTyped DEF RetrySubmitFails, RunInv
  <2> QED  BY <1>7, <1>c, <2>1, <2>2, <2>3 DEF RetrySubmitFails, TypeOK
<1> QED  BY <1>1, <1>2, <1>3, <1>4, <1>5, <1>6, <1>7 DEF Retry, RetryGoesOn

\* Every customer and operator request keeps the types.
LEMMA CustomerTyped ==
    ASSUME TypeOK, Customer
    PROVE  TypeOK'
<1> USE DEF requestKeeps, outside, workers, settings
<1>a. /\ trigger \in TriggerRows /\ request \in RequestStates /\ ledger \in [Keys -> Rows]
      /\ cred \in Mailboxes \cup {NoMailbox} /\ mailbox \in [Mailboxes -> Inboxes]
      /\ changes \in Nat /\ orgActive \in BOOLEAN
  BY DEF TypeOK
<1>b. /\ request.gen \in Generations \cup {NoGeneration} /\ request.top \in Top
      /\ request.replaced \in BOOLEAN
  BY <1>a DEF RequestStates
<1>1. ASSUME NEW b \in Mailboxes, SaveMailbox(b)
      PROVE  TypeOK'
  <2>1. changes' \in Nat
    BY <1>1, <1>a, ChangeTyped DEF SaveMailbox
  <2>2. request' \in RequestStates
    BY <1>1, IdleTyped DEF SaveMailbox, RequestStates
  <2> QED  BY <1>1, <2>1, <2>2 DEF SaveMailbox, TypeOK
<1>2. CASE SaveDisables
  <2>1. trigger' \in TriggerRows
    BY <1>2, <1>a, <1>b DEF SaveDisables, TriggerRows
  <2>2. request' \in RequestStates
    BY <1>2, <1>a DEF SaveDisables, RequestStates
  <2> QED  BY <1>2, <2>1, <2>2 DEF SaveDisables, TypeOK
<1>3. CASE SaveAbandons
  <2>1. ledger' \in [Keys -> Rows]
    BY <1>3, <1>a, LedgerTyped DEF SaveAbandons
  <2> QED  BY <1>3, <2>1, IdleTyped DEF SaveAbandons, TypeOK
<1>4. CASE ClearMailbox
  <2>1. changes' \in Nat
    BY <1>4, <1>a, ChangeTyped DEF ClearMailbox
  <2>2. request' \in RequestStates
    BY <1>4, IdleTyped DEF ClearMailbox, RequestStates
  <2> QED  BY <1>4, <2>1, <2>2 DEF ClearMailbox, TypeOK
<1>5. CASE ClearDisables
  <2>1. trigger' \in TriggerRows
    BY <1>5, <1>a DEF ClearDisables, TriggerRows
  <2> QED  BY <1>5, <2>1, IdleTyped DEF ClearDisables, TypeOK
<1>6. CASE EnableProbes
  <2>1. changes' \in Nat
    BY <1>6, <1>a, ChangeTyped DEF EnableProbes
  <2>2. cred \in Mailboxes /\ mailbox[cred] \in Inboxes
    BY <1>6, <1>a DEF EnableProbes
  <2>3. request' \in RequestStates
    BY <1>6, <2>2, IdleTyped DEF EnableProbes, RequestStates, Inboxes
  <2> QED  BY <1>6, <2>1, <2>3 DEF EnableProbes, TypeOK
<1>7. CASE EnableWrites
  <2>1. trigger' \in TriggerRows
    BY <1>7, <1>a, <1>b DEF EnableWrites, TriggerRows
  <2>2. request' \in RequestStates
    BY <1>7, <1>a DEF EnableWrites, RequestStates
  <2> QED  BY <1>7, <1>b, <2>1, <2>2 DEF EnableWrites, TypeOK
<1>8. CASE EnableAbandons
  <2>1. ledger' \in [Keys -> Rows]
    BY <1>8, <1>a, LedgerTyped DEF EnableAbandons
  <2> QED  BY <1>8, <2>1, IdleTyped DEF EnableAbandons, TypeOK
<1>9. CASE Disable
  <2>1. changes' \in Nat
    BY <1>9, <1>a, ChangeTyped DEF Disable
  <2>2. trigger' \in TriggerRows
    BY <1>9, <1>a DEF Disable, TriggerRows
  <2> QED  BY <1>9, <2>1, <2>2 DEF Disable, TypeOK
<1>10. CASE Suspend
  <2>1. changes' \in Nat
    BY <1>10, <1>a, ChangeTyped DEF Suspend
  <2> QED  BY <1>10, <1>a, <2>1 DEF Suspend, TypeOK
<1>11. ASSUME NEW k \in Keys, ReleaseMessage(k)
       PROVE  TypeOK'
  <2>1. changes' \in Nat
    BY <1>11, <1>a, ChangeTyped DEF ReleaseMessage
  <2>2. ledger' \in [Keys -> Rows]
    BY <1>11, <1>a, LedgerTyped DEF ReleaseMessage
  <2> QED  BY <1>11, <2>1, <2>2 DEF ReleaseMessage, TypeOK
<1>12. ASSUME NEW r \in RunIds, CancelRun(r)
       PROVE  TypeOK'
  <2>1. changes' \in Nat
    BY <1>12, <1>a, ChangeTyped DEF CancelRun
  <2> QED  BY <1>12, <2>1 DEF CancelRun, TypeOK
<1> QED  BY <1>1, <1>2, <1>3, <1>4, <1>5, <1>6, <1>7, <1>8, <1>9, <1>10, <1>11, <1>12
         DEF Customer, RequestGoesOn

\* Mail, rebuilds, sent drafts, midnight, time and a crash keep the types.
LEMMA EnvironmentTyped ==
    ASSUME TypeOK, Environment
    PROVE  TypeOK'
<1> USE DEF outsideKeeps, settings, workers
<1>a. /\ mailbox \in [Mailboxes -> Inboxes] /\ drafts \in [Keys -> Nat] /\ today \in Nat
      /\ changes \in Nat /\ faults \in Nat /\ ledger \in [Keys -> Rows]
      /\ runs \in [RunIds -> RunRows]
  BY DEF TypeOK
<1>1. ASSUME NEW b \in Mailboxes, MailArrives(b)
      PROVE  TypeOK'
  <2>1. mailbox' \in [Mailboxes -> Inboxes]
    <3>1. [mailbox[b] EXCEPT !.top = @ + 1] \in Inboxes
      BY <1>1, <1>a DEF MailArrives, Inboxes, Top
    <3>2. mailbox' = [mailbox EXCEPT ![b] = [mailbox[b] EXCEPT !.top = @ + 1]]
      BY <1>1, <1>a DEF MailArrives
    <3> QED  BY <1>a, <3>1, <3>2
  <2> QED  BY <1>1, <2>1 DEF MailArrives, TypeOK
<1>2. ASSUME NEW b \in Mailboxes, NEW g \in Generations, NEW top \in Top,
             MailboxRebuilt(b, g, top)
      PROVE  TypeOK'
  <2>1. changes' \in Nat
    BY <1>2, <1>a, ChangeTyped DEF MailboxRebuilt
  <2>2. mailbox' \in [Mailboxes -> Inboxes]
    BY <1>2, <1>a DEF MailboxRebuilt, Inboxes
  <2> QED  BY <1>2, <2>1, <2>2 DEF MailboxRebuilt, TypeOK
<1>3. ASSUME NEW k \in Keys, DraftLeaves(k)
      PROVE  TypeOK'
  <2>1. changes' \in Nat
    BY <1>3, <1>a, ChangeTyped DEF DraftLeaves
  <2>2. drafts' \in [Keys -> Nat]
    BY <1>3, <1>a DEF DraftLeaves
  <2> QED  BY <1>3, <2>1, <2>2 DEF DraftLeaves, TypeOK
<1>4. CASE Midnight
  BY <1>4, <1>a DEF Midnight, TypeOK
<1>5. ASSUME NEW r \in RunIds, RunBecomesOverdue(r)
      PROVE  TypeOK'
  BY <1>5 DEF RunBecomesOverdue, TypeOK
<1>6. CASE CrashAndRestart
  <2>1. faults' \in Nat
    BY <1>6, <1>a, FaultTyped DEF CrashAndRestart
  <2>2. runs' \in [RunIds -> RunRows]
    BY <1>6, <1>a DEF CrashAndRestart, RunRows
  <2>3. ledger' \in [Keys -> Rows]
    BY <1>6, <1>a, LedgerTyped DEF CrashAndRestart, SweepClaims
  <2>4. 0 \in Top
    BY DEF Top
  <2> QED  BY <1>6, <2>1, <2>2, <2>3, <2>4, IdleTyped DEF CrashAndRestart, outside, TypeOK
<1> QED  BY <1>1, <1>2, <1>3, <1>4, <1>5, <1>6 DEF Environment

----------------------------------------------------------------------------
\* The dispatch lock.

\* The dispatch lock is held by exactly the thread that is between taking and
\* leaving it, and every step keeps that.
LEMMA LockStep ==
    ASSUME TypeOK, LockInv, Next
    PROVE  LockInv'
<1> USE DEF PollerHolds, RetryHolds
<1>a. \A c \in Retriers : c # "free" /\ c # "poller"
  BY RetriersAssumption
<1>b. /\ PollerIdle.pc = "idle" /\ RetryIdle.pc = "idle"
      /\ poller \in PollerStates /\ retry \in [Retriers -> RetryStates]
  BY DEF PollerIdle, RetryIdle, TypeOK
<1>1. CASE Poll
  <2> USE DEF LockInv, pollerKeeps
  <2>1. CASE PollSkips
    BY <2>1, <1>a, <1>b DEF PollSkips, Leave, PollerStates, vars
  <2>2. CASE PollLoad
    BY <2>2, <1>a, <1>b DEF PollLoad, Leave, PollerStates
  <2>3. CASE PollBlocked
    BY <2>3, <1>a, <1>b DEF PollBlocked, Leave, PollerStates
  <2>4. CASE PollEnter
    BY <2>4, <1>a, <1>b DEF PollEnter, Leave, PollerStates
  <2>5. CASE PollCheckFails
    BY <2>5, <1>a, <1>b DEF PollCheckFails, Leave, PollerStates
  <2>6. CASE PollCheck
    BY <2>6, <1>a, <1>b DEF PollCheck, Leave, PollerStates
  <2>7. CASE PollRebaseline
    BY <2>7, <1>a, <1>b DEF PollRebaseline, Leave, PollerStates
  <2>8. CASE PollRecord
    BY <2>8, <1>a, <1>b DEF PollRecord, Leave, PollerStates
  <2>9. CASE PollBacklog
    BY <2>9, <1>a, <1>b DEF PollBacklog, Leave, PollerStates
  <2>10. CASE PollDeclines
    BY <2>10, <1>a, <1>b DEF PollDeclines, Leave, PollerStates
  <2>11. CASE PollClaim
    BY <2>11, <1>a, <1>b DEF PollClaim, Leave, PollerStates
  <2>12. CASE PollGivesBack
    BY <2>12, <1>a, <1>b DEF PollGivesBack, Leave, PollerStates
  <2>13. CASE PollAdvance
    BY <2>13, <1>a, <1>b DEF PollAdvance, Leave, PollerStates
  <2>14. CASE PollSubmit
    BY <2>14, <1>a, <1>b DEF PollSubmit, Leave, PollerStates
  <2>15. CASE PollSubmitFails
    BY <2>15, <1>a, <1>b DEF PollSubmitFails, Leave, PollerStates
  <2> QED  BY <1>1, <2>1, <2>2, <2>3, <2>4, <2>5, <2>6, <2>7, <2>8,
              <2>9, <2>10, <2>11, <2>12, <2>13, <2>14, <2>15 DEF Poll
<1>2. ASSUME NEW r \in RunIds, Work(r)
      PROVE  LockInv'
  <2>1. UNCHANGED <<lock, poller, retry>>
    BY <1>2 DEF Work, WorkerFindsDraft, WorkerScan, WorkerAppend, WorkerAppendFails,
                WorkerTrace, WorkerFinish, WorkerSettle, WorkerPublish, workerKeeps
  <2> QED  BY <2>1 DEF LockInv
<1>3. ASSUME NEW c \in Retriers, Retry(c)
      PROVE  LockInv'
  <2> USE DEF LockInv, retryKeeps
  <2>1. ASSUME NEW r \in RunIds, RetryBegin(c, r)
        PROVE  LockInv'
    BY <2>1, <1>a, <1>b DEF RetryBegin, RetryIdle
  <2>2. CASE RetryBlocked(c)
    BY <2>2, <1>a, <1>b DEF RetryBlocked, RetryStates
  <2>3. CASE RetryEnter(c)
    BY <2>3, <1>a, <1>b DEF RetryEnter, RetryStates
  <2>4. CASE RetryRollsBack(c)
    BY <2>4, <1>a, <1>b DEF RetryRollsBack, RetryStates
  <2>5. CASE RetryAdvance(c)
    BY <2>5, <1>a, <1>b DEF RetryAdvance, RetryStates
  <2>6. CASE RetrySubmit(c)
    BY <2>6, <1>a, <1>b DEF RetrySubmit, RetryStates
  <2>7. CASE RetrySubmitFails(c)
    BY <2>7, <1>a, <1>b DEF RetrySubmitFails, RetryStates
  <2> QED  BY <1>3, <2>1, <2>2, <2>3, <2>4, <2>5, <2>6, <2>7 DEF Retry, RetryGoesOn
<1>4. CASE Customer
  <2>1. UNCHANGED <<lock, poller, retry>>
    BY <1>4 DEF Customer, RequestGoesOn, SaveMailbox, SaveDisables, SaveAbandons, ClearMailbox,
                ClearDisables, EnableProbes, EnableWrites, EnableAbandons, Disable, Suspend,
                ReleaseMessage, CancelRun, requestKeeps
  <2> QED  BY <2>1 DEF LockInv
<1>5. CASE Environment
  <2>1. CASE CrashAndRestart
    BY <2>1, <1>a, <1>b DEF CrashAndRestart, LockInv
  <2>2. CASE ~CrashAndRestart
    <3>1. UNCHANGED <<lock, poller, retry>>
      BY <1>5, <2>2 DEF Environment, MailArrives, MailboxRebuilt, DraftLeaves, Midnight,
                        RunBecomesOverdue, outsideKeeps
    <3> QED  BY <3>1 DEF LockInv
  <2> QED  BY <2>1, <2>2
<1> QED  BY <1>1, <1>2, <1>3, <1>4, <1>5 DEF Next

----------------------------------------------------------------------------
\* What the steps outside the dispatch section leave alone.

\* At most one thread is inside the dispatch section.
LEMMA Exclusion ==
    ASSUME LockInv
    PROVE  /\ PollerHolds => \A c \in Retriers : ~RetryHolds(c)
           /\ \A c, d \in Retriers : RetryHolds(c) /\ RetryHolds(d) => c = d
  BY RetriersAssumption DEF LockInv

\* A worker touches neither the trigger, the lock nor the two dispatchers.
LEMMA WorkFrame ==
    ASSUME NEW r \in RunIds, Work(r)
    PROVE  UNCHANGED <<lock, poller, retry, trigger, request>>
  BY DEF Work, WorkerFindsDraft, WorkerScan, WorkerAppend, WorkerAppendFails, WorkerTrace,
         WorkerFinish, WorkerSettle, WorkerPublish, workerKeeps

\* A customer request touches neither the runs, the workers nor the dispatchers,
\* and leaves the trigger's last run alone.
LEMMA CustomerFrame ==
    ASSUME TypeOK, Customer
    PROVE  /\ UNCHANGED <<lock, poller, retry, live, worker, runs>>
           /\ trigger'.lastRun = trigger.lastRun
           /\ \/ UNCHANGED ledger
              \/ \E C : ledger' = Abandon(ledger, C)
              \/ \E k \in Keys : ledger[k].status = "filtered" /\ ledger' = ReleaseFiltered(ledger, k)
<1>1. trigger \in TriggerRows
  BY DEF TypeOK
<1>2. UNCHANGED <<lock, poller, retry, live, worker, runs>>
  BY DEF Customer, RequestGoesOn, SaveMailbox, SaveDisables, SaveAbandons, ClearMailbox,
         ClearDisables, EnableProbes, EnableWrites, EnableAbandons, Disable, Suspend,
         ReleaseMessage, CancelRun, requestKeeps, workers
<1>3. trigger'.lastRun = trigger.lastRun
  BY <1>1 DEF Customer, RequestGoesOn, SaveMailbox, SaveDisables, SaveAbandons, ClearMailbox,
         ClearDisables, EnableProbes, EnableWrites, EnableAbandons, Disable, Suspend,
         ReleaseMessage, CancelRun, TriggerRows
<1>4. \/ UNCHANGED ledger
      \/ \E C : ledger' = Abandon(ledger, C)
      \/ \E k \in Keys : ledger[k].status = "filtered" /\ ledger' = ReleaseFiltered(ledger, k)
  BY DEF Customer, RequestGoesOn, SaveMailbox, SaveDisables, SaveAbandons, ClearMailbox,
         ClearDisables, EnableProbes, EnableWrites, EnableAbandons, Disable, Suspend,
         ReleaseMessage, CancelRun
<1> QED  BY <1>2, <1>3, <1>4

\* The outside world touches nothing of the process or the database.
LEMMA WorldFrame ==
    ASSUME Environment, ~CrashAndRestart
    PROVE  UNCHANGED <<lock, poller, retry, live, worker, runs, trigger, ledger>>
  BY DEF Environment, MailArrives, MailboxRebuilt, DraftLeaves, Midnight, RunBecomesOverdue,
         outsideKeeps, workers

----------------------------------------------------------------------------
\* Runs before and after their worker.

\* A run that is dispatched but not submitted is in the registry without a
\* worker, a run with a worker is in the registry, and one whose worker settles
\* is no longer recorded as running: every step keeps that.
LEMMA RunStep ==
    ASSUME TypeOK, LockInv, RunInv, Next
    PROVE  RunInv'
<1> USE DEF NotStarted
<1>a. /\ PollerIdle.pc = "idle" /\ RetryIdle.pc = "idle"
      /\ poller \in PollerStates /\ retry \in [Retriers -> RetryStates]
      /\ live \in [RunIds -> {"absent", "running", "terminal"}]
      /\ worker \in [RunIds -> {"none", "working", "settling", "publishing"}]
      /\ runs \in [RunIds -> RunRows]
  BY DEF PollerIdle, RetryIdle, TypeOK
<1>b. /\ PollerHolds => \A c \in Retriers : retry[c].pc # "submitting"
      /\ \A c, d \in Retriers : RetryHolds(c) /\ retry[d].pc = "submitting" => c = d
      /\ \A c \in Retriers : RetryHolds(c) => ~PollerHolds
  BY Exclusion DEF RetryHolds
<1>1. CASE Poll
  <2> USE DEF RunInv, pollerKeeps
  <2>1. CASE PollSkips
    BY <2>1, <1>a, <1>b DEF PollSkips, Leave, PollerStates, vars, workers
  <2>2. CASE PollLoad
    BY <2>2, <1>a, <1>b DEF PollLoad, Leave, PollerStates, workers
  <2>3. CASE PollBlocked
    BY <2>3, <1>a, <1>b DEF PollBlocked, Leave, PollerStates, workers
  <2>4. CASE PollEnter
    BY <2>4, <1>a, <1>b DEF PollEnter, Leave, PollerStates, PassOverlapGuard,
                            GuardOpen, ReleaseStaleRun, RunRows, workers
  <2>5. CASE PollCheckFails
    BY <2>5, <1>a, <1>b DEF PollCheckFails, Leave, PollerStates, workers
  <2>6. CASE PollCheck
    BY <2>6, <1>a, <1>b DEF PollCheck, Leave, PollerStates, workers
  <2>7. CASE PollRebaseline
    BY <2>7, <1>a, <1>b DEF PollRebaseline, Leave, PollerStates, workers
  <2>8. CASE PollRecord
    BY <2>8, <1>a, <1>b DEF PollRecord, Leave, PollerStates, workers
  <2>9. CASE PollBacklog
    BY <2>9, <1>a, <1>b DEF PollBacklog, Leave, PollerStates, workers
  <2>10. CASE PollDeclines
    BY <2>10, <1>a, <1>b DEF PollDeclines, Leave, PollerStates, workers
  <2>11. CASE PollClaim
    BY <2>11, <1>a, <1>b, FreshTyped DEF PollClaim, Leave, PollerStates, CanClaim, workers
  <2>12. CASE PollGivesBack
    BY <2>12, <1>a, <1>b DEF PollGivesBack, Leave, PollerStates, workers, PollerHolds
  <2>13. CASE PollAdvance
    BY <2>13, <1>a, <1>b DEF PollAdvance, Leave, PollerStates, workers, RunRows, PollerHolds
  <2>14. CASE PollSubmit
    BY <2>14, <1>a, <1>b DEF PollSubmit, Leave, PollerStates, workers, PollerHolds
  <2>15. CASE PollSubmitFails
    BY <2>15, <1>a, <1>b DEF PollSubmitFails, Leave, PollerStates, workers, RunRows, PollerHolds
  <2> QED  BY <1>1, <2>1, <2>2, <2>3, <2>4, <2>5, <2>6, <2>7, <2>8,
              <2>9, <2>10, <2>11, <2>12, <2>13, <2>14, <2>15 DEF Poll
<1>2. ASSUME NEW r \in RunIds, Work(r)
      PROVE  RunInv'
  <2>1. UNCHANGED <<poller, retry>>
    BY <1>2, WorkFrame
  <2>2. CASE UNCHANGED <<live, worker, runs>>
    BY <2>1, <2>2 DEF RunInv
  <2>3. ASSUME NEW outcome \in {"completed", "failed", "cancelled"}, WorkerFinish(r, outcome)
        PROVE  RunInv'
    BY <2>1, <2>3, <1>a DEF RunInv, WorkerFinish, RunRows
  <2>4. CASE WorkerSettle(r)
    BY <2>1, <2>4, <1>a DEF RunInv, WorkerSettle
  <2>5. CASE WorkerPublish(r)
    BY <2>1, <2>5, <1>a DEF RunInv, WorkerPublish
  <2> QED  BY <1>2, <2>2, <2>3, <2>4, <2>5 DEF Work, WorkerFindsDraft, WorkerScan, WorkerAppend,
                WorkerAppendFails, WorkerTrace
<1>3. ASSUME NEW c \in Retriers, Retry(c)
      PROVE  RunInv'
  <2> USE DEF RunInv, retryKeeps
  <2>1. ASSUME NEW r \in RunIds, RetryBegin(c, r)
        PROVE  RunInv'
    BY <2>1, <1>a DEF RetryBegin, RetryIdle
  <2>2. CASE RetryBlocked(c)
    BY <2>2, <1>a DEF RetryBlocked, RetryStates
  <2>3. CASE RetryEnter(c)
    BY <2>3, <1>a DEF RetryEnter, RetryStates, PassOverlapGuard, GuardOpen, ReleaseStaleRun, RunRows
  <2>4. CASE RetryRollsBack(c)
    BY <2>4, <1>a DEF RetryRollsBack, RetryStates
  <2>5. CASE RetryAdvance(c)
    BY <2>5, <1>a, <1>b, FreshTyped DEF RetryAdvance, RetryStates, RunRows, RetryHolds, PollerHolds
  <2>6. CASE RetrySubmit(c)
    BY <2>6, <1>a, <1>b DEF RetrySubmit, RetryStates, RetryHolds, PollerHolds
  <2>7. CASE RetrySubmitFails(c)
    BY <2>7, <1>a, <1>b DEF RetrySubmitFails, RetryStates, RetryHolds, PollerHolds, RunRows
  <2> QED  BY <1>3, <2>1, <2>2, <2>3, <2>4, <2>5, <2>6, <2>7 DEF Retry, RetryGoesOn
<1>4. CASE Customer
  BY <1>4, CustomerFrame DEF RunInv
<1>5. CASE Environment
  <2>1. CASE CrashAndRestart
    BY <2>1, <1>a DEF CrashAndRestart, RunInv
  <2>2. CASE ~CrashAndRestart
    BY <1>5, <2>2, WorldFrame DEF RunInv
  <2> QED  BY <2>1, <2>2
<1> QED  BY <1>1, <1>2, <1>3, <1>4, <1>5 DEF Next
----------------------------------------------------------------------------
\* The overlap guard.

\* A retry that is under way works on a run that exists.
LEMMA RetryFromStep ==
    ASSUME TypeOK, RetryInv, Next
    PROVE  RetryInv'
<1>a. RetryIdle.pc = "idle" /\ retry \in [Retriers -> RetryStates]
  BY DEF RetryIdle, TypeOK
<1>1. CASE Poll
  BY <1>1 DEF Poll, PollSkips, PollLoad, PollBlocked, PollEnter, PollCheckFails, PollCheck,
        PollRebaseline, PollRecord, PollBacklog, PollDeclines, PollClaim, PollGivesBack,
        PollAdvance, PollSubmit, PollSubmitFails, pollerKeeps, vars, RetryInv
<1>2. ASSUME NEW r \in RunIds, Work(r)
      PROVE  RetryInv'
  BY <1>2, WorkFrame DEF RetryInv
<1>3. ASSUME NEW c \in Retriers, Retry(c)
      PROVE  RetryInv'
  <2> USE DEF RetryInv
  <2>1. ASSUME NEW r \in RunIds, RetryBegin(c, r)
        PROVE  RetryInv'
    BY <2>1, <1>a DEF RetryBegin, RetryIdle
  <2>2. CASE RetryBlocked(c)
    BY <2>2, <1>a DEF RetryBlocked
  <2>3. CASE RetryEnter(c)
    <3>1. \/ retry' = [retry EXCEPT ![c] = RetryIdle]
          \/ \E x : retry' = [retry EXCEPT ![c] = x] /\ x.from = retry[c].from
      BY <2>3, <1>a DEF RetryEnter, RetryStates
    <3>2. retry[c].from \in RunIds
      BY <2>3 DEF RetryEnter
    <3> QED  BY <3>1, <3>2, <1>a
  <2>4. CASE RetryRollsBack(c)
    BY <2>4, <1>a DEF RetryRollsBack
  <2>5. CASE RetryAdvance(c)
    BY <2>5, <1>a DEF RetryAdvance, RetryStates
  <2>6. CASE RetrySubmit(c)
    BY <2>6, <1>a DEF RetrySubmit
  <2>7. CASE RetrySubmitFails(c)
    BY <2>7, <1>a DEF RetrySubmitFails
  <2> QED  BY <1>3, <2>1, <2>2, <2>3, <2>4, <2>5, <2>6, <2>7 DEF Retry, RetryGoesOn
<1>4. CASE Customer
  BY <1>4, CustomerFrame DEF RetryInv
<1>5. CASE Environment
  BY <1>5, <1>a, WorldFrame DEF RetryInv, CrashAndRestart
<1> QED  BY <1>1, <1>2, <1>3, <1>4, <1>5 DEF Next

\* Whoever passes the guard finds no run recorded as running: either the last
\* run is not executing, or its row has just been failed.
LEMMA GuardPassed ==
    ASSUME TypeOK, GuardInv, PassOverlapGuard
    PROVE  \A r \in RunIds : runs'[r].status # "running"
<1>1. CASE GuardOpen
  BY <1>1, NoRunAssumption DEF GuardOpen, LastRunExecuting, GuardInv
<1>2. CASE ReleaseStaleRun
  BY <1>2 DEF ReleaseStaleRun, GuardInv, TypeOK, RunRows
<1> QED  BY <1>1, <1>2 DEF PassOverlapGuard

\* The rollover and the dispatch of another thread leave last_run_id alone.
LEMMA LastRunKept ==
    ASSUME NEW row \in TriggerRows, NEW seen, NEW day
    PROVE  FlushRollover(row, seen, day).lastRun = row.lastRun
<1>1. CASE seen.date = day
  BY <1>1 DEF FlushRollover
<1>2. CASE seen.date # day
  <2> DEFINE rt == IF seen.runsToday = 0 THEN row.runsToday ELSE 0
             mt == IF seen.messagesToday = 0 THEN row.messagesToday ELSE 0
  <2>1. FlushRollover(row, seen, day) =
          [row EXCEPT !.runsToday = rt, !.messagesToday = mt, !.date = day]
    BY <1>2 DEF FlushRollover
  <2> HIDE DEF rt, mt
  <2> QED  BY <2>1 DEF TriggerRows
<1> QED  BY <1>1, <1>2

\* Every step keeps GuardInv: the run recorded as running is the trigger's last
\* run and the registry knows it.
LEMMA GuardStep ==
    ASSUME TypeOK, LockInv, RunInv, GuardInv, Next
    PROVE  GuardInv'
<1>a. /\ PollerIdle.pc = "idle" /\ RetryIdle.pc = "idle"
      /\ poller \in PollerStates /\ retry \in [Retriers -> RetryStates]
      /\ trigger \in TriggerRows /\ runs \in [RunIds -> RunRows]
      /\ live \in [RunIds -> {"absent", "running", "terminal"}]
  BY DEF PollerIdle, RetryIdle, TypeOK
<1>b. /\ PollerHolds => \A c \in Retriers : retry[c].pc # "building"
      /\ \A c, d \in Retriers : RetryHolds(c) /\ retry[d].pc = "building" => c = d
      /\ \A c \in Retriers : RetryHolds(c) => ~PollerHolds
      /\ lock = "free" => ~PollerHolds /\ \A c \in Retriers : ~RetryHolds(c)
  BY Exclusion, RetriersAssumption DEF RetryHolds, LockInv
<1>1. CASE Poll
  <2> USE DEF GuardInv, pollerKeeps
  <2>1. CASE PollSkips
    BY <2>1 DEF PollSkips, vars
  <2>2. CASE PollLoad
    BY <2>2, <1>a DEF PollLoad, PollerStates
  <2>3. CASE PollBlocked
    BY <2>3, <1>a, LastRunKept DEF PollBlocked, Leave
  <2>4. CASE PollEnter
    BY <2>4, <1>a, GuardPassed DEF PollEnter
  <2>5. CASE PollCheckFails
    BY <2>5, <1>a DEF PollCheckFails, Leave
  <2>6. CASE PollCheck
    BY <2>6, <1>a DEF PollCheck, PollerStates
  <2>7. CASE PollRebaseline
    BY <2>7, <1>a DEF PollRebaseline, Leave
  <2>8. CASE PollRecord
    BY <2>8, <1>a DEF PollRecord, PollerStates
  <2>9. CASE PollBacklog
    BY <2>9, <1>a DEF PollBacklog, Leave, PollerStates
  <2>10. CASE PollDeclines
    BY <2>10, <1>a DEF PollDeclines, Leave
  <2>11. CASE PollClaim
    BY <2>11, <1>a DEF PollClaim, PollerStates
  <2>12. CASE PollGivesBack
    BY <2>12, <1>a DEF PollGivesBack, Leave
  <2>13. CASE PollAdvance
    <3>1. poller.run \in RunIds /\ live[poller.run] = "running"
      BY <2>13 DEF PollAdvance, RunInv, NotStarted
    <3>2. trigger'.lastRun = poller.run
      BY <2>13, <1>a DEF PollAdvance, Advanced, TriggerRows
    <3>3. \A r \in RunIds : runs'[r].status = "running" => r = poller.run
      BY <2>13, <1>a DEF PollAdvance
    <3>4. poller'.pc = "advanced" /\ \A c \in Retriers : retry'[c].pc # "building"
      BY <2>13, <1>a, <1>b DEF PollAdvance, PollerStates, PollerHolds
    <3> QED  BY <2>13, <3>1, <3>2, <3>3, <3>4 DEF PollAdvance
  <2>14. CASE PollSubmit
    BY <2>14, <1>a DEF PollSubmit, Leave
  <2>15. CASE PollSubmitFails
    <3>1. \A r \in RunIds : runs'[r].status = "running" =>
            r # poller.run /\ runs[r].status = "running"
      BY <2>15, <1>a DEF PollSubmitFails, RunRows
    <3>2. \A r \in RunIds : r # poller.run => live'[r] = live[r]
      BY <2>15, <1>a DEF PollSubmitFails
    <3> QED  BY <2>15, <3>1, <3>2, <1>a DEF PollSubmitFails, Leave
  <2> QED  BY <1>1, <2>1, <2>2, <2>3, <2>4, <2>5, <2>6, <2>7, <2>8, <2>9, <2>10, <2>11, <2>12,
              <2>13, <2>14, <2>15 DEF Poll
<1>2. ASSUME NEW r \in RunIds, Work(r)
      PROVE  GuardInv'
  <2>1. UNCHANGED <<poller, retry, trigger>>
    BY <1>2, WorkFrame
  <2>2. CASE UNCHANGED <<live, runs>>
    BY <2>1, <2>2 DEF GuardInv
  <2>3. ASSUME NEW outcome \in {"completed", "failed", "cancelled"}, WorkerFinish(r, outcome)
        PROVE  GuardInv'
    BY <2>1, <2>3, <1>a DEF GuardInv, WorkerFinish, RunRows
  <2>4. CASE WorkerPublish(r)
    BY <2>1, <2>4, <1>a DEF GuardInv, RunInv, WorkerPublish
  <2> QED  BY <1>2, <2>2, <2>3, <2>4 DEF Work, WorkerFindsDraft, WorkerScan, WorkerAppend,
                WorkerAppendFails, WorkerTrace, WorkerSettle
<1>3. ASSUME NEW c \in Retriers, Retry(c)
      PROVE  GuardInv'
  <2> USE DEF GuardInv, retryKeeps
  <2>1. ASSUME NEW r \in RunIds, RetryBegin(c, r)
        PROVE  GuardInv'
    BY <2>1, <1>a DEF RetryBegin, RetryIdle
  <2>2. CASE RetryBlocked(c)
    BY <2>2, <1>a, LastRunKept DEF RetryBlocked
  <2>3. CASE RetryEnter(c)
    <3>1. \A r \in RunIds : runs'[r].status # "running"
      BY <2>3, GuardPassed DEF RetryEnter
    <3> QED  BY <3>1
  <2>4. CASE RetryRollsBack(c)
    BY <2>4, <1>a DEF RetryRollsBack
  <2>5. CASE RetryAdvance(c)
    <3>1. Fresh \in RunIds
      BY <2>5, FreshTyped DEF RetryAdvance
    <3>2. trigger'.lastRun = Fresh
      <4>1. \A row, n : Advanced(row, Fresh, n).lastRun = Fresh \/ row \notin TriggerRows
        BY DEF Advanced, TriggerRows
      <4>2. FlushRollover(trigger, retry[c].seen, retry[c].day) \in TriggerRows
        BY <1>a, TriggerTyped DEF RetryStates
      <4> QED  BY <2>5, <4>1, <4>2 DEF RetryAdvance
    <3>3. \A r \in RunIds : runs'[r].status = "running" => r = Fresh
      BY <2>5, <1>a DEF RetryAdvance
    <3>4. live'[Fresh] = "running"
      BY <2>5, <3>1, <1>a DEF RetryAdvance
    <3>5. ~PollerHolds /\ \A d \in Retriers : retry'[d].pc # "building"
      BY <2>5, <1>a, <1>b DEF RetryAdvance, RetryStates, RetryHolds
    <3> QED  BY <2>5, <3>2, <3>3, <3>4, <3>5 DEF RetryAdvance, PollerHolds
  <2>6. CASE RetrySubmit(c)
    BY <2>6, <1>a DEF RetrySubmit
  <2>7. CASE RetrySubmitFails(c)
    <3>1. \A r \in RunIds : runs'[r].status = "running" =>
            r # retry[c].run /\ runs[r].status = "running"
      BY <2>7, <1>a DEF RetrySubmitFails, RunRows
    <3>2. \A r \in RunIds : r # retry[c].run => live'[r] = live[r]
      BY <2>7, <1>a DEF RetrySubmitFails
    <3> QED  BY <2>7, <3>1, <3>2, <1>a DEF RetrySubmitFails
  <2> QED  BY <1>3, <2>1, <2>2, <2>3, <2>4, <2>5, <2>6, <2>7 DEF Retry, RetryGoesOn
<1>4. CASE Customer
  BY <1>4, CustomerFrame DEF GuardInv
<1>5. CASE Environment
  <2>1. CASE CrashAndRestart
    <3>1. \A r \in RunIds : runs'[r].status # "running"
      BY <2>1, <1>a DEF CrashAndRestart, RunRows
    <3> QED  BY <3>1 DEF GuardInv
  <2>2. CASE ~CrashAndRestart
    BY <1>5, <2>2, WorldFrame DEF GuardInv
  <2> QED  BY <2>1, <2>2
<1> QED  BY <1>1, <1>2, <1>3, <1>4, <1>5 DEF Next
----------------------------------------------------------------------------
\* Claims and attempts.

NoNewClaims(L, M) == \A k \in Keys : M[k].status = "claimed" => M[k] = L[k]

\* Every statement but the claim, the dispatch and the retry: nothing waits
\* without an attempt left, and nothing is claimed that was not.
LEMMA LedgerKeeps ==
    ASSUME NEW L \in [Keys -> Rows], WaitingLeft(L)
    PROVE  /\ \A b, g, D, F : LET M == Record(L, b, g, D, F) IN WaitingLeft(M) /\ NoNewClaims(L, M)
           /\ \A r, D : LET M == Complete(L, r, D) IN WaitingLeft(M) /\ NoNewClaims(L, M)
           /\ \A S : LET M == Release(L, S) IN
                 /\ WaitingLeft(M) /\ NoNewClaims(L, M)
                 /\ \A k \in Keys : M[k].status = "claimed" => M[k].run \notin S
           /\ \A C : LET M == Abandon(L, C) IN WaitingLeft(M) /\ NoNewClaims(L, M)
           /\ \A k \in Keys : L[k].status = "filtered" =>
                 LET M == ReleaseFiltered(L, k) IN WaitingLeft(M) /\ NoNewClaims(L, M)
<1> USE DEF WaitingLeft, NoNewClaims
<1>1. \A b, g, D, F : LET M == Record(L, b, g, D, F) IN WaitingLeft(M) /\ NoNewClaims(L, M)
  BY MaxAttemptsAssumption DEF Record, NoRow
<1>2. \A r, D : LET M == Complete(L, r, D) IN WaitingLeft(M) /\ NoNewClaims(L, M)
  BY DEF Complete, ClaimedBy, WithStatus, Rows
<1>3. \A S : LET M == Release(L, S) IN
          /\ WaitingLeft(M) /\ NoNewClaims(L, M)
          /\ \A k \in Keys : M[k].status = "claimed" => M[k].run \notin S
  <2> SUFFICES ASSUME NEW S, NEW k \in Keys
               PROVE  LET row == Release(L, S)[k] IN
                      /\ row.status \in {"absent", "pending", "filtered"} =>
                            row.attempts < MaxAttempts
                      /\ row.status = "claimed" => row = L[k] /\ row.run \notin S
    BY Zenon
  <2>1. L[k] \in Rows /\ L[k].attempts \in Nat
    BY MaxAttemptsAssumption DEF Rows
  <2>2. CASE L[k].status = "claimed" /\ L[k].run \in S /\ L[k].attempts >= MaxAttempts
    <3>1. Release(L, S)[k] = [L[k] EXCEPT !.status = "failed"]
      BY <2>2 DEF Release, WithStatus
    <3> QED  BY <3>1, <2>1 DEF Rows
  <2>3. CASE L[k].status = "claimed" /\ L[k].run \in S /\ ~(L[k].attempts >= MaxAttempts)
    <3>1. Release(L, S)[k] = [L[k] EXCEPT !.status = "pending", !.run = NoRun]
      BY <2>3 DEF Release, WithStatus
    <3> QED  BY <3>1, <2>1, <2>3, MaxAttemptsAssumption DEF Rows
  <2>4. CASE ~(L[k].status = "claimed" /\ L[k].run \in S)
    <3>1. Release(L, S)[k] = L[k]
      BY <2>4 DEF Release, WithStatus
    <3> QED  BY <3>1, <2>4
  <2> QED  BY <2>2, <2>3, <2>4
<1>4. \A C : LET M == Abandon(L, C) IN WaitingLeft(M) /\ NoNewClaims(L, M)
  BY DEF Abandon, Rows
<1>5. \A k \in Keys : L[k].status = "filtered" =>
          LET M == ReleaseFiltered(L, k) IN WaitingLeft(M) /\ NoNewClaims(L, M)
  BY DEF ReleaseFiltered, Rows
<1> QED  BY <1>1, <1>2, <1>3, <1>4, <1>5

\* A step that claims nothing and ends no run keeps ClaimInv.
LEMMA QuietStep ==
    ASSUME ClaimInv, WaitingLeft(ledger'), NoNewClaims(ledger, ledger'),
           \A r \in RunIds : Begun(r) => runs'[r].status # "none" \/ live'[r] # "absent",
           poller'.pc = "claimed" => poller.pc = "claimed" /\ poller'.run = poller.run
    PROVE  ClaimInv'
<1>1. \A k \in Keys : ledger'[k].status = "claimed" => ledger'[k] = ledger[k]
  BY DEF NoNewClaims
<1>2. \A k \in Keys : ledger'[k].status = "claimed" =>
          ledger'[k].run \in RunIds /\ Begun(ledger'[k].run)
  BY <1>1 DEF ClaimInv
<1> QED  BY <1>1, <1>2 DEF ClaimInv, WaitingLeft, Begun

\* Every step keeps ClaimInv: what waits has an attempt left, and what is
\* claimed belongs to a run that has begun or is being dispatched.
LEMMA ClaimStep ==
    ASSUME TypeOK, LockInv, RunInv, GuardInv, ClaimInv, Next
    PROVE  ClaimInv'
<1>a. /\ PollerIdle.pc = "idle" /\ poller \in PollerStates
      /\ retry \in [Retriers -> RetryStates]
      /\ ledger \in [Keys -> Rows] /\ runs \in [RunIds -> RunRows]
      /\ live \in [RunIds -> {"absent", "running", "terminal"}]
  BY DEF PollerIdle, TypeOK
<1>b. WaitingLeft(ledger) /\ NoNewClaims(ledger, ledger)
  BY DEF ClaimInv, NoNewClaims
<1>c. ASSUME PassOverlapGuard
      PROVE  /\ WaitingLeft(ledger') /\ NoNewClaims(ledger, ledger')
             /\ \A r \in RunIds : runs[r].status # "none" => runs'[r].status # "none"
  <2>1. CASE GuardOpen
    BY <2>1, <1>b DEF GuardOpen
  <2>2. CASE ReleaseStaleRun
    BY <2>2, <1>a, <1>b, LedgerKeeps DEF ReleaseStaleRun, RunRows
  <2> QED  BY <1>c, <2>1, <2>2 DEF PassOverlapGuard
<1>d. \A c \in Retriers : RetryHolds(c) => ~PollerHolds
  BY Exclusion
<1>1. CASE Poll
  <2> USE DEF pollerKeeps, Begun
  <2>1. CASE PollSkips
    BY <2>1, <1>b, QuietStep DEF PollSkips, vars
  <2>2. CASE PollLoad
    BY <2>2, <1>a, <1>b, QuietStep DEF PollLoad, PollerStates
  <2>3. CASE PollBlocked
    BY <2>3, <1>a, <1>b, QuietStep DEF PollBlocked, Leave
  <2>4. CASE PollEnter
    <3>1. PassOverlapGuard /\ poller'.pc # "claimed" /\ live' = live
      BY <2>4, <1>a DEF PollEnter, PollerStates
    <3> QED  BY <3>1, <1>c, QuietStep
  <2>5. CASE PollCheckFails
    BY <2>5, <1>a, <1>b, QuietStep DEF PollCheckFails, Leave
  <2>6. CASE PollCheck
    BY <2>6, <1>a, <1>b, QuietStep DEF PollCheck, PollerStates
  <2>7. CASE PollRebaseline
    BY <2>7, <1>a, <1>b, LedgerKeeps, QuietStep DEF PollRebaseline, Leave
  <2>8. CASE PollRecord
    <3>1. WaitingLeft(ledger') /\ NoNewClaims(ledger, ledger')
      BY <2>8, <1>a, <1>b, LedgerKeeps DEF PollRecord
    <3> QED  BY <2>8, <3>1, <1>a, QuietStep DEF PollRecord, PollerStates
  <2>9. CASE PollBacklog
    BY <2>9, <1>a, <1>b, QuietStep DEF PollBacklog, Leave, PollerStates
  <2>10. CASE PollDeclines
    BY <2>10, <1>a, <1>b, QuietStep DEF PollDeclines, Leave
  <2>11. CASE PollClaim
    <3>1. Fresh \in RunIds /\ ~Begun(Fresh)
      BY <2>11, FreshTyped DEF PollClaim, CanClaim
    <3>2. poller'.run = Fresh /\ live'[Fresh] = "running" /\ runs' = runs
      BY <2>11, <3>1, <1>a DEF PollClaim, PollerStates
    <3>3. \A r \in RunIds : Begun(r) => live'[r] = live[r]
      BY <2>11, <3>1, <1>a DEF PollClaim
    <3>4. \A k \in Keys :
            \/ ledger'[k] = ledger[k]
            \/ ledger[k].status = "pending" /\ ledger'[k].run = Fresh
               /\ ledger'[k].status = "claimed" /\ ledger'[k].attempts = ledger[k].attempts
      BY <2>11, <1>a DEF PollClaim, Claim, Oldest, Waiting, PendingOf, WithStatus, Rows
    <3>5. \A k \in Keys : ledger[k].status = "claimed" => ledger[k].run # Fresh
      BY <3>1 DEF ClaimInv
    <3> QED  BY <3>1, <3>2, <3>3, <3>4, <3>5 DEF ClaimInv, WaitingLeft
  <2>12. CASE PollGivesBack
    <3>1. /\ WaitingLeft(ledger') /\ NoNewClaims(ledger, ledger')
          /\ \A k \in Keys : ledger'[k].status = "claimed" => ledger'[k].run # poller.run
      BY <2>12, <1>a, <1>b, LedgerKeeps DEF PollGivesBack
    <3>2. \A r \in RunIds : r # poller.run => live'[r] = live[r]
      BY <2>12, <1>a DEF PollGivesBack
    <3> QED  BY <2>12, <3>1, <3>2, <1>a DEF PollGivesBack, Leave, ClaimInv, NoNewClaims
  <2>13. CASE PollAdvance
    <3>1. poller'.pc = "advanced" /\ live' = live
      BY <2>13, <1>a DEF PollAdvance, PollerStates
    <3>2. \A r \in RunIds : runs[r].status # "none" => runs'[r].status # "none"
      BY <2>13, <1>a DEF PollAdvance
    <3>3. \A k \in Keys : /\ ledger'[k].status = ledger[k].status
                          /\ ledger'[k].run = ledger[k].run
                          /\ ledger[k].status # "claimed" => ledger'[k] = ledger[k]
      BY <2>13, <1>a DEF PollAdvance, MarkDispatched, ClaimedBy, WithStatus, Rows
    <3> QED  BY <3>1, <3>2, <3>3 DEF ClaimInv, WaitingLeft
  <2>14. CASE PollSubmit
    BY <2>14, <1>a, <1>b, QuietStep DEF PollSubmit, Leave
  <2>15. CASE PollSubmitFails
    <3>1. WaitingLeft(ledger') /\ NoNewClaims(ledger, ledger')
      BY <2>15, <1>a, <1>b, LedgerKeeps DEF PollSubmitFails
    <3>2. \A r \in RunIds : Begun(r) => runs'[r].status # "none" \/ live'[r] # "absent"
      BY <2>15, <1>a DEF PollSubmitFails, RunRows
    <3>3. poller'.pc # "claimed"
      BY <2>15, <1>a DEF PollSubmitFails, Leave
    <3> QED  BY <3>1, <3>2, <3>3, QuietStep
  <2> QED  BY <1>1, <2>1, <2>2, <2>3, <2>4, <2>5, <2>6, <2>7, <2>8, <2>9, <2>10, <2>11, <2>12,
              <2>13, <2>14, <2>15 DEF Poll
<1>2. ASSUME NEW r \in RunIds, Work(r)
      PROVE  ClaimInv'
  <2>1. UNCHANGED poller
    BY <1>2, WorkFrame
  <2>2. CASE UNCHANGED <<live, runs, ledger>>
    BY <2>1, <2>2, <1>b, QuietStep DEF Begun
  <2>3. ASSUME NEW outcome \in {"completed", "failed", "cancelled"}, WorkerFinish(r, outcome)
        PROVE  ClaimInv'
    BY <2>1, <2>3, <1>a, <1>b, QuietStep DEF WorkerFinish, Begun, RunRows
  <2>4. CASE WorkerSettle(r)
    <3>1. WaitingLeft(ledger') /\ NoNewClaims(ledger, ledger')
      BY <2>4, <1>a, <1>b, LedgerKeeps DEF WorkerSettle
    <3> QED  BY <2>1, <2>4, <3>1, QuietStep DEF WorkerSettle, Begun
  <2>5. CASE WorkerPublish(r)
    BY <2>1, <2>5, <1>a, <1>b, QuietStep DEF WorkerPublish, Begun
  <2> QED  BY <1>2, <2>2, <2>3, <2>4, <2>5 DEF Work, WorkerFindsDraft, WorkerScan, WorkerAppend,
                WorkerAppendFails, WorkerTrace
<1>3. ASSUME NEW c \in Retriers, Retry(c)
      PROVE  ClaimInv'
  <2> USE DEF retryKeeps, Begun
  <2>1. ASSUME NEW r \in RunIds, RetryBegin(c, r)
        PROVE  ClaimInv'
    BY <2>1, <1>b, QuietStep DEF RetryBegin
  <2>2. CASE RetryBlocked(c)
    BY <2>2, <1>b, QuietStep DEF RetryBlocked
  <2>3. CASE RetryEnter(c)
    <3>1. PassOverlapGuard /\ UNCHANGED <<poller, live>>
      BY <2>3 DEF RetryEnter
    <3> QED  BY <3>1, <1>c, QuietStep
  <2>4. CASE RetryRollsBack(c)
    BY <2>4, <1>b, QuietStep DEF RetryRollsBack
  <2>5. CASE RetryAdvance(c)
    <3>1. Fresh \in RunIds
      BY <2>5, FreshTyped DEF RetryAdvance
    <3>2. /\ live'[Fresh] = "running"
          /\ \A r \in RunIds : r # Fresh => live'[r] = live[r] /\ runs'[r] = runs[r]
      BY <2>5, <3>1, <1>a DEF RetryAdvance
    <3>3. poller'.pc # "claimed"
      BY <2>5, <1>d DEF RetryAdvance, RetryHolds, PollerHolds
    <3>4. \A k \in Keys :
            \/ ledger'[k] = ledger[k]
            \/ ledger'[k].status = "claimed" /\ ledger'[k].run = Fresh
            \/ ledger'[k].status = "done"
      BY <2>5, <1>a DEF RetryAdvance, ResolveRetry, Rows
    <3> QED  BY <3>1, <3>2, <3>3, <3>4 DEF ClaimInv, WaitingLeft
  <2>6. CASE RetrySubmit(c)
    BY <2>6, <1>b, QuietStep DEF RetrySubmit
  <2>7. CASE RetrySubmitFails(c)
    <3>1. \A r \in RunIds : Begun(r) => runs'[r].status # "none" \/ live'[r] # "absent"
      BY <2>7, <1>a DEF RetrySubmitFails, RunRows
    <3> QED  BY <2>7, <3>1, <1>b, QuietStep DEF RetrySubmitFails
  <2> QED  BY <1>3, <2>1, <2>2, <2>3, <2>4, <2>5, <2>6, <2>7 DEF Retry, RetryGoesOn
<1>4. CASE Customer
  <2>1. WaitingLeft(ledger') /\ NoNewClaims(ledger, ledger')
    BY <1>4, <1>a, <1>b, CustomerFrame, LedgerKeeps
  <2> QED  BY <1>4, <2>1, CustomerFrame, QuietStep DEF Begun
<1>5. CASE Environment
  <2>1. CASE CrashAndRestart
    <3>1. WaitingLeft(ledger') /\ \A k \in Keys : ledger'[k].status # "claimed"
      <4>1. /\ WaitingLeft(ledger') /\ NoNewClaims(ledger, ledger')
            /\ \A k \in Keys : ledger'[k].status = "claimed" => ledger'[k].run \notin RunIds
        BY <2>1, <1>a, <1>b, LedgerKeeps DEF CrashAndRestart, SweepClaims
      <4> QED  BY <4>1 DEF NoNewClaims, ClaimInv
    <3> QED  BY <2>1, <3>1, <1>a DEF CrashAndRestart, ClaimInv
  <2>2. CASE ~CrashAndRestart
    BY <1>5, <2>2, <1>b, WorldFrame, QuietStep DEF Begun
  <2> QED  BY <2>1, <2>2
<1> QED  BY <1>1, <1>2, <1>3, <1>4, <1>5 DEF Next
----------------------------------------------------------------------------
\* The theorems of the core.

\* The invariant holds when the customer has just enabled automatic runs.
LEMMA InitInv == Init => IInv
<1> SUFFICES ASSUME Init
             PROVE  IInv
  OBVIOUS
<1>1. PICK b \in Mailboxes, g \in [Mailboxes -> Generations] :
        /\ mailbox = [m \in Mailboxes |-> [gen |-> g[m], top |-> 0]]
        /\ cred = b
        /\ trigger = [NewTrigger EXCEPT !.enabled = TRUE, !.gen = g[b]]
  BY DEF Init
<1>2. /\ drafts = [k \in Keys |-> 0] /\ today = 0 /\ orgActive = TRUE
      /\ ledger = [k \in Keys |-> NoRow] /\ runs = [r \in RunIds |-> NoRunRow]
      /\ evidence = [r \in RunIds |-> {}] /\ live = [r \in RunIds |-> "absent"]
      /\ cancelled = {} /\ worker = [r \in RunIds |-> "none"]
      /\ appending = [r \in RunIds |-> 0] /\ drafted = [r \in RunIds |-> {}]
      /\ overdue = {} /\ lock = "free" /\ poller = PollerIdle
      /\ retry = [c \in Retriers |-> RetryIdle] /\ request = RequestIdle
      /\ baseline = 0 /\ faults = 0 /\ changes = 0
  BY DEF Init
<1>3. TypeOK
  <2>1. mailbox \in [Mailboxes -> Inboxes]
    BY <1>1 DEF Inboxes, Top
  <2>2. trigger \in TriggerRows
    BY <1>1 DEF NewTrigger, TriggerRows, Top
  <2>3. ledger \in [Keys -> Rows]
    BY <1>2, MaxAttemptsAssumption DEF NoRow, Rows, Statuses
  <2>4. runs \in [RunIds -> RunRows]
    BY <1>2 DEF NoRunRow, RunRows
  <2>5. /\ drafts \in [Keys -> Nat] /\ today \in Nat /\ orgActive \in BOOLEAN
        /\ evidence \in [RunIds -> SUBSET Uids]
        /\ live \in [RunIds -> {"absent", "running", "terminal"}]
        /\ cancelled \in SUBSET RunIds
        /\ worker \in [RunIds -> {"none", "working", "settling", "publishing"}]
        /\ appending \in [RunIds -> Top] /\ drafted \in [RunIds -> SUBSET Uids]
        /\ overdue \in SUBSET RunIds /\ lock \in {"free", "poller"} \cup Retriers
        /\ baseline \in Top /\ faults \in Nat /\ changes \in Nat
    BY <1>2 DEF Top
  <2>6. poller \in PollerStates /\ retry \in [Retriers -> RetryStates] /\ request \in RequestStates
    BY <1>2, IdleTyped
  <2> QED  BY <1>1, <2>1, <2>2, <2>3, <2>4, <2>5, <2>6 DEF TypeOK
<1>4. LockInv
  BY <1>2, RetriersAssumption DEF LockInv, PollerHolds, RetryHolds, PollerIdle, RetryIdle
<1>5. RunInv
  BY <1>2 DEF RunInv, PollerIdle, RetryIdle
<1>6. RetryInv /\ GuardInv
  BY <1>2 DEF RetryInv, GuardInv, PollerIdle, RetryIdle, NoRunRow
<1>7. ClaimInv
  BY <1>2, MaxAttemptsAssumption DEF ClaimInv, WaitingLeft, NoRow, PollerIdle
<1> QED  BY <1>3, <1>4, <1>5, <1>6, <1>7 DEF IInv

\* Every step keeps the types.
LEMMA TypeStep ==
    ASSUME IInv, Next
    PROVE  TypeOK'
  BY PollTyped, WorkTyped, RetryTyped, CustomerTyped, EnvironmentTyped DEF IInv, Next

\* A step that changes nothing keeps the invariant.
LEMMA StutterStep ==
    ASSUME IInv, UNCHANGED vars
    PROVE  IInv'
<1>1. TypeOK'
  BY DEF IInv, TypeOK, vars
<1>2. LockInv' /\ RunInv' /\ RetryInv' /\ GuardInv'
  BY DEF IInv, LockInv, PollerHolds, RetryHolds, RunInv, NotStarted, RetryInv, GuardInv, vars
<1>3. ClaimInv'
  BY DEF IInv, ClaimInv, WaitingLeft, Begun, vars
<1> QED  BY <1>1, <1>2, <1>3 DEF IInv

\* The invariant is inductive.
LEMMA Inductive ==
    ASSUME IInv, [Next]_vars
    PROVE  IInv'
<1>1. CASE Next
  <2>1. LockInv' /\ RunInv' /\ RetryInv' /\ GuardInv' /\ ClaimInv'
    BY <1>1, LockStep, RunStep, RetryFromStep, GuardStep, ClaimStep DEF IInv
  <2> QED  BY <1>1, <2>1, TypeStep DEF IInv
<1>2. CASE UNCHANGED vars
  BY <1>2, StutterStep
<1> QED  BY <1>1, <1>2

\* Every behaviour of the poller, the retries, the workers, the requests and
\* the restarts satisfies the inductive invariant.
THEOREM Invariance == Spec => []IInv
<1>1. Init => IInv
  BY InitInv
<1>2. IInv /\ [Next]_vars => IInv'
  BY Inductive
<1> QED  BY <1>1, <1>2, PTL DEF Spec

\* The rows, the registry and the threads always have the values the code's
\* columns and records can hold; in particular no row is charged more than
\* max_event_attempts() attempts.
THEOREM TypeCorrect == Spec => []TypeOK
<1>1. IInv => TypeOK
  BY DEF IInv
<1> QED  BY <1>1, Invariance, PTL

\* A message that waits to be claimed has an attempt left, however its runs
\* were released, failed, interrupted or retried.
THEOREM AttemptsLeftHolds == Spec => []AttemptsLeft
<1>1. IInv => AttemptsLeft
  BY DEF IInv, ClaimInv, WaitingLeft, AttemptsLeft
<1> QED  BY <1>1, Invariance, PTL

\* The overlap guard is enough: two runs of the organisation are never recorded
\* as running together, whatever polls, retries and watchdogs race.
THEOREM SingleFlightHolds == Spec => []SingleFlight
<1>1. IInv => SingleFlight
  BY DEF IInv, GuardInv, SingleFlight
<1> QED  BY <1>1, Invariance, PTL
----------------------------------------------------------------------------
\* What a step may do to the ledger.

\* The helpers of the ledger, with what their callers have made sure of.
LedgerMove ==
    \/ UNCHANGED ledger
    \/ \E b, g, D, F : ledger' = Record(ledger, b, g, D, F)
    \/ \E r, B : B \subseteq WithStatus(ledger, "pending") /\ ledger' = Claim(ledger, r, B)
    \/ \E r : /\ \A k \in ClaimedBy(ledger, r) : ledger[k].attempts < MaxAttempts
              /\ ledger' = MarkDispatched(ledger, r)
    \/ \E r, D : ledger' = Complete(ledger, r, D)
    \/ \E S : ledger' = Release(ledger, S)
    \/ \E C : ledger' = Abandon(ledger, C)
    \/ \E f, t, R, D : ledger' = ResolveRetry(ledger, f, t, R, D)
    \/ \E k \in WithStatus(ledger, "filtered") : ledger' = ReleaseFiltered(ledger, k)

\* Every step of the system moves the ledger by one of its helpers, with
\* arguments of which LedgerMove says enough, or leaves it alone.
LEMMA LedgerStep ==
    ASSUME IInv, [Next]_vars
    PROVE  LedgerMove
<1>a. ASSUME PassOverlapGuard
      PROVE  LedgerMove
  BY <1>a DEF PassOverlapGuard, GuardOpen, ReleaseStaleRun, LedgerMove
<1>1. CASE Poll
  <2> USE DEF LedgerMove
  <2>1. CASE PollEnter
    BY <2>1, <1>a DEF PollEnter
  <2>2. CASE PollClaim
    BY <2>2 DEF PollClaim, Oldest, Waiting, PendingOf
  <2>3. CASE PollAdvance
    <3>1. \A k \in ClaimedBy(ledger, poller.run) : ledger[k].attempts < MaxAttempts
      BY <2>3 DEF PollAdvance, IInv, ClaimInv, ClaimedBy, WithStatus
    <3> QED  BY <2>3, <3>1 DEF PollAdvance
  <2>4. CASE PollRecord
    BY <2>4 DEF PollRecord
  <2>5. CASE PollRebaseline \/ PollGivesBack \/ PollSubmitFails
    BY <2>5 DEF PollRebaseline, PollGivesBack, PollSubmitFails
  <2>6. CASE \/ PollSkips \/ PollLoad \/ PollBlocked \/ PollCheckFails \/ PollCheck
             \/ PollBacklog \/ PollDeclines \/ PollSubmit
    BY <2>6 DEF PollSkips, PollLoad, PollBlocked, PollCheckFails, PollCheck, PollBacklog,
                PollDeclines, PollSubmit, vars
  <2> QED  BY <1>1, <2>1, <2>2, <2>3, <2>4, <2>5, <2>6 DEF Poll
<1>2. ASSUME NEW r \in RunIds, Work(r)
      PROVE  LedgerMove
  BY <1>2 DEF Work, WorkerFindsDraft, WorkerScan, WorkerAppend, WorkerAppendFails, WorkerTrace,
        WorkerFinish, WorkerSettle, WorkerPublish, LedgerMove
<1>3. ASSUME NEW c \in Retriers, Retry(c)
      PROVE  LedgerMove
  <2>1. CASE RetryEnter(c)
    BY <2>1, <1>a DEF RetryEnter
  <2>2. CASE RetryAdvance(c)
    BY <2>2 DEF RetryAdvance, LedgerMove
  <2>3. CASE ~RetryEnter(c) /\ ~RetryAdvance(c)
    BY <1>3, <2>3 DEF Retry, RetryGoesOn, RetryBegin, RetryBlocked, RetryRollsBack, RetrySubmit,
          RetrySubmitFails, LedgerMove
  <2> QED  BY <2>1, <2>2, <2>3
<1>4. CASE Customer
  BY <1>4, CustomerFrame DEF IInv, LedgerMove, WithStatus
<1>5. CASE Environment
  BY <1>5, WorldFrame DEF CrashAndRestart, SweepClaims, LedgerMove
<1>6. CASE UNCHANGED vars
  BY <1>6 DEF vars, LedgerMove
<1> QED  BY <1>1, <1>2, <1>3, <1>4, <1>5, <1>6 DEF Next

\* Of the helpers, none touches a row that is done.
LEMMA DoneKept ==
    ASSUME TypeOK, LedgerMove, NEW k \in Keys, ledger[k].status = "done"
    PROVE  ledger'[k] = ledger[k]
<1>1. ledger \in [Keys -> Rows]
  BY DEF TypeOK
<1>2. \A b, g, D, F : Record(ledger, b, g, D, F)[k] = ledger[k]
  BY DEF Record
<1>3. \A r, B : B \subseteq WithStatus(ledger, "pending") => Claim(ledger, r, B)[k] = ledger[k]
  BY DEF Claim, WithStatus
<1>4. \A r : MarkDispatched(ledger, r)[k] = ledger[k]
  BY DEF MarkDispatched, ClaimedBy, WithStatus
<1>5. \A r, D : Complete(ledger, r, D)[k] = ledger[k]
  BY DEF Complete, ClaimedBy, WithStatus
<1>6. \A S : Release(ledger, S)[k] = ledger[k]
  BY DEF Release, WithStatus
<1>7. \A C : Abandon(ledger, C)[k] = ledger[k]
  BY DEF Abandon
<1>8. \A f, t, R, D : ResolveRetry(ledger, f, t, R, D)[k] = ledger[k]
  BY DEF ResolveRetry, WithStatus
<1>9. \A j \in WithStatus(ledger, "filtered") : ReleaseFiltered(ledger, j)[k] = ledger[k]
  BY <1>1 DEF ReleaseFiltered, WithStatus
<1> QED  BY <1>2, <1>3, <1>4, <1>5, <1>6, <1>7, <1>8, <1>9 DEF LedgerMove

\* A message that is done is never worked on again: no poll, retry, watchdog,
\* abandonment or restart moves its row.
THEOREM DoneStaysDoneHolds == Spec => DoneStaysDone
<1>1. IInv /\ [Next]_vars =>
        [\A k \in Keys : ledger[k].status = "done" => ledger'[k] = ledger[k]]_vars
  BY LedgerStep, DoneKept DEF IInv
<1> QED  BY <1>1, Invariance, PTL DEF Spec, DoneStaysDone
----------------------------------------------------------------------------
\* The refinement.

\* The phases tell the statuses apart.
LEMMA PhasesTellStatuses ==
    ASSUME NEW status \in Statuses
    PROVE  /\ PhaseOf(status) \in Lifecycle!Phases
           /\ PhaseOf(status) = "unseen" <=> status = "absent"
           /\ PhaseOf(status) = "waiting" <=> status = "pending"
           /\ PhaseOf(status) = "setAside" <=> status = "filtered"
           /\ PhaseOf(status) = "held" <=> status = "claimed"
           /\ PhaseOf(status) = "answered" <=> status = "done"
           /\ PhaseOf(status) = "givenUp" <=> status = "failed"
  BY DEF Statuses, PhaseOf, Lifecycle!Phases

\* Every move of the ledger is a step of the lifecycle, or leaves it alone.
LEMMA MoveRefines ==
    ASSUME TypeOK, LedgerMove
    PROVE  [Lifecycle!Next]_LedgerMessages
<1> DEFINE old(k) == LedgerMessages[k]
           new(k) == LedgerMessages'[k]
<1>a. /\ ledger \in [Keys -> Rows]
      /\ \A k \in Keys : ledger[k].status \in Statuses /\ ledger[k].attempts \in 0..MaxAttempts
  BY DEF TypeOK, Rows
<1>b. \A k \in Keys : old(k) = [phase |-> PhaseOf(ledger[k].status), tries |-> ledger[k].attempts]
  BY DEF LedgerMessages
<1>c. \A k \in Keys : new(k) = [phase |-> PhaseOf(ledger'[k].status), tries |-> ledger'[k].attempts]
  BY DEF LedgerMessages
<1>d. /\ Lifecycle!In({"unseen"}) = WithStatus(ledger, "absent")
      /\ Lifecycle!In({"waiting"}) = WithStatus(ledger, "pending")
      /\ Lifecycle!In({"setAside"}) = WithStatus(ledger, "filtered")
      /\ Lifecycle!In({"held"}) = WithStatus(ledger, "claimed")
      /\ Lifecycle!In({"givenUp"}) = WithStatus(ledger, "failed")
      /\ Lifecycle!In({"waiting", "setAside"})
            = WithStatus(ledger, "pending") \cup WithStatus(ledger, "filtered")
  <2>1. \A k \in Keys :
          /\ old(k).phase = "unseen" <=> ledger[k].status = "absent"
          /\ old(k).phase = "waiting" <=> ledger[k].status = "pending"
          /\ old(k).phase = "setAside" <=> ledger[k].status = "filtered"
          /\ old(k).phase = "held" <=> ledger[k].status = "claimed"
          /\ old(k).phase = "givenUp" <=> ledger[k].status = "failed"
    <3> SUFFICES ASSUME NEW k \in Keys
                 PROVE  /\ old(k).phase = "unseen" <=> ledger[k].status = "absent"
                        /\ old(k).phase = "waiting" <=> ledger[k].status = "pending"
                        /\ old(k).phase = "setAside" <=> ledger[k].status = "filtered"
                        /\ old(k).phase = "held" <=> ledger[k].status = "claimed"
                        /\ old(k).phase = "givenUp" <=> ledger[k].status = "failed"
      OBVIOUS
    <3> DEFINE phase == PhaseOf(ledger[k].status)
    <3>1. /\ phase = "unseen" <=> ledger[k].status = "absent"
          /\ phase = "waiting" <=> ledger[k].status = "pending"
          /\ phase = "setAside" <=> ledger[k].status = "filtered"
          /\ phase = "held" <=> ledger[k].status = "claimed"
          /\ phase = "givenUp" <=> ledger[k].status = "failed"
      BY <1>a, PhasesTellStatuses
    <3>2. old(k) = [phase |-> phase, tries |-> ledger[k].attempts]
      BY <1>b
    <3> HIDE DEF phase, old
    <3>3. old(k).phase = phase
      BY <3>2
    <3> QED  BY <3>1, <3>3
  <2> HIDE DEF old
  <2>2. \A P : Lifecycle!In(P) = {k \in Keys : old(k).phase \in P}
    BY DEF old, Lifecycle!In
  <2> QED  BY <2>1, <2>2 DEF WithStatus
<1>e. /\ PhaseOf("pending") = "waiting" /\ PhaseOf("filtered") = "setAside"
      /\ PhaseOf("claimed") = "held" /\ PhaseOf("done") = "answered"
      /\ PhaseOf("failed") = "givenUp"
  BY DEF PhaseOf
<1>f. LedgerMessages' = [k \in Keys |-> new(k)]
  BY DEF LedgerMessages
<1> HIDE DEF old, new
<1>1. CASE UNCHANGED ledger
  BY <1>1 DEF LedgerMessages
<1>2. ASSUME NEW b, NEW g, NEW D, NEW F, ledger' = Record(ledger, b, g, D, F)
      PROVE  Lifecycle!See
  <2> DEFINE S == {k \in WithStatus(ledger, "absent") : k.box = b /\ k.gen = g /\ k.uid \in D}
             A == {k \in S : k.uid \in F}
             seen(k) == [Lifecycle!Unseen EXCEPT !.phase = IF k \in A THEN "setAside" ELSE "waiting"]
  <2>1. \A k \in Keys : new(k) = IF k \in S THEN seen(k) ELSE old(k)
    <3> SUFFICES ASSUME NEW k \in Keys
                 PROVE  new(k) = IF k \in S THEN seen(k) ELSE old(k)
      OBVIOUS
    <3>1. CASE k \in S
      <4>1. ledger'[k] = [NoRow EXCEPT !.status = IF k.uid \in F THEN "filtered" ELSE "pending"]
        BY <3>1, <1>2 DEF Record, WithStatus
      <4> QED  BY <3>1, <4>1, <1>c, <1>e DEF NoRow, Lifecycle!Unseen
    <3>2. CASE k \notin S
      <4>1. ledger'[k] = ledger[k]
        BY <3>2, <1>2 DEF Record, WithStatus
      <4> QED  BY <3>2, <4>1, <1>b, <1>c
    <3> QED  BY <3>1, <3>2
  <2>2. S \in SUBSET Lifecycle!In({"unseen"}) /\ A \in SUBSET Lifecycle!In({"unseen"})
    BY <1>d
  <2> HIDE DEF S, A
  <2>3. LedgerMessages' = [k \in Keys |-> IF k \in S THEN seen(k) ELSE old(k)]
    BY <2>1, <1>f
  <2> QED  BY <2>2, <2>3 DEF Lifecycle!See, old
<1>3. ASSUME NEW r, NEW B, B \subseteq WithStatus(ledger, "pending"), ledger' = Claim(ledger, r, B)
      PROVE  Lifecycle!Hold
  <2>1. \A k \in Keys : new(k) = IF k \in B THEN [old(k) EXCEPT !.phase = "held"] ELSE old(k)
    <3> SUFFICES ASSUME NEW k \in Keys
                 PROVE  new(k) = IF k \in B THEN [old(k) EXCEPT !.phase = "held"] ELSE old(k)
      OBVIOUS
    <3>1. CASE k \in B
      <4>1. ledger[k] \in Rows /\ ledger'[k] = Claim(ledger, r, B)[k]
        BY <1>a, <1>3
      <4>2. ledger'[k].status = "claimed" /\ ledger'[k].attempts = ledger[k].attempts
        BY <3>1, <4>1 DEF Claim, Rows
      <4> QED  BY <3>1, <4>2, <1>b, <1>c, <1>e
    <3>2. CASE k \notin B
      <4>1. ledger'[k] = Claim(ledger, r, B)[k]
        BY <1>3
      <4>2. ledger'[k] = ledger[k]
        BY <3>2, <4>1 DEF Claim
      <4> QED  BY <3>2, <4>2, <1>b, <1>c
    <3> QED  BY <3>1, <3>2
  <2>2. LedgerMessages' = [k \in Keys |-> IF k \in B THEN [old(k) EXCEPT !.phase = "held"] ELSE old(k)]
    BY <2>1, <1>f
  <2> QED  BY <1>3, <1>d, <2>2 DEF Lifecycle!Hold, Lifecycle!Move, old
<1>4. ASSUME NEW r, \A k \in ClaimedBy(ledger, r) : ledger[k].attempts < MaxAttempts,
             ledger' = MarkDispatched(ledger, r)
      PROVE  Lifecycle!Try
  <2> DEFINE S == ClaimedBy(ledger, r)
  <2>1. \A k \in Keys : new(k) = IF k \in S THEN [old(k) EXCEPT !.tries = @ + 1] ELSE old(k)
    <3> SUFFICES ASSUME NEW k \in Keys
                 PROVE  new(k) = IF k \in S THEN [old(k) EXCEPT !.tries = @ + 1] ELSE old(k)
      OBVIOUS
    <3>1. CASE k \in S
      <4>1. ledger'[k] = [ledger[k] EXCEPT !.attempts = @ + 1]
        BY <3>1, <1>4 DEF MarkDispatched
      <4>2. ledger'[k].status = ledger[k].status /\ ledger'[k].attempts = ledger[k].attempts + 1
        BY <4>1, <1>a DEF Rows
      <4> QED  BY <3>1, <4>2, <1>b, <1>c
    <3>2. CASE k \notin S
      <4>1. ledger'[k] = ledger[k]
        BY <3>2, <1>4 DEF MarkDispatched
      <4> QED  BY <3>2, <4>1, <1>b, <1>c
    <3> QED  BY <3>1, <3>2
  <2>2. LedgerMessages' = [k \in Keys |-> IF k \in S THEN [old(k) EXCEPT !.tries = @ + 1] ELSE old(k)]
    BY <2>1, <1>f
  <2>3. S \in SUBSET {k \in WithStatus(ledger, "claimed") : LedgerMessages[k].tries < MaxAttempts}
    <3>1. \A k \in Keys : LedgerMessages[k].tries = ledger[k].attempts
      BY DEF LedgerMessages
    <3> QED  BY <1>4, <3>1 DEF ClaimedBy, WithStatus
  <2> HIDE DEF S
  <2> QED  BY <1>d, <2>2, <2>3 DEF Lifecycle!Try, old
<1>5. ASSUME NEW r, NEW D, ledger' = Complete(ledger, r, D)
      PROVE  Lifecycle!Settle
  <2> DEFINE S == ClaimedBy(ledger, r)
             A == {k \in S : k.uid \in D}
             settled(k) == [old(k) EXCEPT !.phase = IF k \in A THEN "answered" ELSE "givenUp"]
  <2>1. \A k \in Keys : new(k) = IF k \in S THEN settled(k) ELSE old(k)
    <3> SUFFICES ASSUME NEW k \in Keys
                 PROVE  new(k) = IF k \in S THEN settled(k) ELSE old(k)
      OBVIOUS
    <3>1. CASE k \in S
      <4>1. ledger'[k] = [ledger[k] EXCEPT !.status = IF k.uid \in D THEN "done" ELSE "failed"]
        BY <3>1, <1>5 DEF Complete
      <4>2. /\ ledger'[k].status = IF k.uid \in D THEN "done" ELSE "failed"
            /\ ledger'[k].attempts = ledger[k].attempts
        BY <4>1, <1>a DEF Rows
      <4> QED  BY <3>1, <4>2, <1>b, <1>c, <1>e
    <3>2. CASE k \notin S
      <4>1. ledger'[k] = ledger[k]
        BY <3>2, <1>5 DEF Complete
      <4> QED  BY <3>2, <4>1, <1>b, <1>c
    <3> QED  BY <3>1, <3>2
  <2>2. LedgerMessages' = [k \in Keys |-> IF k \in S THEN settled(k) ELSE old(k)]
    BY <2>1, <1>f
  <2>3. S \in SUBSET Lifecycle!In({"held"}) /\ A \in SUBSET Lifecycle!In({"held"})
    BY <1>d DEF ClaimedBy
  <2> HIDE DEF S, A
  <2> QED  BY <2>2, <2>3 DEF Lifecycle!Settle, old
<1>6. ASSUME NEW T, ledger' = Release(ledger, T)
      PROVE  Lifecycle!ComeBack
  <2> DEFINE S == {k \in WithStatus(ledger, "claimed") : ledger[k].run \in T}
             back(k) == [old(k) EXCEPT !.phase = IF old(k).tries < MaxAttempts
                                                 THEN "waiting" ELSE "givenUp"]
  <2>1. \A k \in Keys : new(k) = IF k \in S THEN back(k) ELSE old(k)
    <3> SUFFICES ASSUME NEW k \in Keys
                 PROVE  new(k) = IF k \in S THEN back(k) ELSE old(k)
      OBVIOUS
    <3>1. CASE k \in S
      <4>1. ledger[k] \in Rows /\ ledger'[k] = Release(ledger, T)[k]
        BY <1>a, <1>6
      <4>2. /\ ledger'[k].status = IF ledger[k].attempts < MaxAttempts THEN "pending" ELSE "failed"
            /\ ledger'[k].attempts = ledger[k].attempts
        BY <3>1, <4>1, MaxAttemptsAssumption DEF Release, Rows
      <4>3. old(k).tries = ledger[k].attempts
        BY DEF old, LedgerMessages
      <4> QED  BY <3>1, <4>2, <4>3, <1>b, <1>c, <1>e
    <3>2. CASE k \notin S
      <4>1. ledger'[k] = Release(ledger, T)[k]
        BY <1>6
      <4>2. ledger'[k] = ledger[k]
        BY <3>2, <4>1 DEF Release
      <4> QED  BY <3>2, <4>2, <1>b, <1>c
    <3> QED  BY <3>1, <3>2
  <2>2. LedgerMessages' = [k \in Keys |-> IF k \in S THEN back(k) ELSE old(k)]
    BY <2>1, <1>f
  <2>3. S \in SUBSET Lifecycle!In({"held"})
    BY <1>d
  <2> HIDE DEF S
  <2> QED  BY <2>2, <2>3 DEF Lifecycle!ComeBack, old
<1>7. ASSUME NEW C, ledger' = Abandon(ledger, C)
      PROVE  Lifecycle!Abandon
  <2> DEFINE S == (WithStatus(ledger, "pending") \cup WithStatus(ledger, "filtered")) \ C
  <2>1. \A k \in Keys : new(k) = IF k \in S THEN [old(k) EXCEPT !.phase = "givenUp"] ELSE old(k)
    <3> SUFFICES ASSUME NEW k \in Keys
                 PROVE  new(k) = IF k \in S THEN [old(k) EXCEPT !.phase = "givenUp"] ELSE old(k)
      OBVIOUS
    <3>1. CASE k \in S
      <4>1. ledger'[k] = [ledger[k] EXCEPT !.status = "failed"]
        BY <3>1, <1>7 DEF Abandon, WithStatus
      <4>2. ledger'[k].status = "failed" /\ ledger'[k].attempts = ledger[k].attempts
        BY <4>1, <1>a DEF Rows
      <4> QED  BY <3>1, <4>2, <1>b, <1>c, <1>e
    <3>2. CASE k \notin S
      <4>1. ledger'[k] = ledger[k]
        BY <3>2, <1>7 DEF Abandon, WithStatus
      <4> QED  BY <3>2, <4>1, <1>b, <1>c
    <3> QED  BY <3>1, <3>2
  <2>2. LedgerMessages' = [k \in Keys |-> IF k \in S THEN [old(k) EXCEPT !.phase = "givenUp"] ELSE old(k)]
    BY <2>1, <1>f
  <2>3. S \in SUBSET Lifecycle!In({"waiting", "setAside"})
    BY <1>d
  <2> HIDE DEF S
  <2> QED  BY <2>2, <2>3 DEF Lifecycle!Abandon, Lifecycle!Move, old
<1>8. ASSUME NEW f, NEW t, NEW R, NEW D, ledger' = ResolveRetry(ledger, f, t, R, D)
      PROVE  Lifecycle!AskAgain
  <2> DEFINE F == {k \in WithStatus(ledger, "failed") : ledger[k].run = f}
             A == {k \in F : k.uid \in D}
             S == {k \in F : k.uid \in R \ D}
  <2>1. \A k \in Keys : new(k) = IF k \in A THEN [old(k) EXCEPT !.phase = "answered"]
                                 ELSE IF k \in S THEN [phase |-> "held", tries |-> 0]
                                 ELSE old(k)
    <3> SUFFICES ASSUME NEW k \in Keys
                 PROVE  new(k) = IF k \in A THEN [old(k) EXCEPT !.phase = "answered"]
                                 ELSE IF k \in S THEN [phase |-> "held", tries |-> 0]
                                 ELSE old(k)
      OBVIOUS
    <3>1. CASE k \in A
      <4>1. ledger'[k] = [ledger[k] EXCEPT !.status = "done"]
        BY <3>1, <1>8 DEF ResolveRetry
      <4>2. ledger'[k].status = "done" /\ ledger'[k].attempts = ledger[k].attempts
        BY <4>1, <1>a DEF Rows
      <4> QED  BY <3>1, <4>2, <1>b, <1>c, <1>e
    <3>2. CASE k \in S
      <4>1. ledger'[k] = [status |-> "claimed", run |-> t, attempts |-> 0]
        BY <3>2, <1>8 DEF ResolveRetry
      <4> QED  BY <3>2, <4>1, <1>c, <1>e
    <3>3. CASE k \notin A /\ k \notin S
      <4>1. ledger'[k] = ledger[k]
        BY <3>3, <1>8 DEF ResolveRetry
      <4> QED  BY <3>3, <4>1, <1>b, <1>c
    <3> QED  BY <3>1, <3>2, <3>3
  <2>2. LedgerMessages' = [k \in Keys |-> IF k \in A THEN [old(k) EXCEPT !.phase = "answered"]
                                          ELSE IF k \in S THEN [phase |-> "held", tries |-> 0]
                                          ELSE old(k)]
    BY <2>1, <1>f
  <2>3. S \in SUBSET Lifecycle!In({"givenUp"}) /\ A \in SUBSET Lifecycle!In({"givenUp"})
    BY <1>d
  <2> HIDE DEF F, S, A
  <2> QED  BY <2>2, <2>3 DEF Lifecycle!AskAgain, old
<1>9. ASSUME NEW j \in WithStatus(ledger, "filtered"), ledger' = ReleaseFiltered(ledger, j)
      PROVE  Lifecycle!Restore
  <2>1. \A k \in Keys : new(k) = IF k \in {j} THEN [old(k) EXCEPT !.phase = "waiting"] ELSE old(k)
    <3> SUFFICES ASSUME NEW k \in Keys
                 PROVE  new(k) = IF k \in {j} THEN [old(k) EXCEPT !.phase = "waiting"] ELSE old(k)
      OBVIOUS
    <3>1. CASE k = j
      <4>1. ledger'[k] = [ledger[k] EXCEPT !.status = "pending", !.run = NoRun]
        BY <3>1, <1>9, <1>a DEF ReleaseFiltered
      <4>2. ledger'[k].status = "pending" /\ ledger'[k].attempts = ledger[k].attempts
        BY <4>1, <1>a DEF Rows
      <4> QED  BY <3>1, <4>2, <1>b, <1>c, <1>e
    <3>2. CASE k # j
      <4>1. ledger'[k] = ledger[k]
        BY <3>2, <1>9, <1>a DEF ReleaseFiltered
      <4> QED  BY <3>2, <4>1, <1>b, <1>c
    <3> QED  BY <3>1, <3>2
  <2>2. LedgerMessages' = [k \in Keys |-> IF k \in {j} THEN [old(k) EXCEPT !.phase = "waiting"] ELSE old(k)]
    BY <2>1, <1>f
  <2> QED  BY <1>9, <1>d, <2>2 DEF Lifecycle!Restore, Lifecycle!Move, old
<1> QED  BY <1>1, <1>2, <1>3, <1>4, <1>5, <1>6, <1>7, <1>8, <1>9 DEF Lifecycle!Next, LedgerMove

\* The initial ledger has seen nothing.
LEMMA InitRefines == Init => Lifecycle!Init
<1> SUFFICES ASSUME Init
             PROVE  Lifecycle!Init
  OBVIOUS
<1>1. \A k \in Keys : ledger[k].status = "absent" /\ ledger[k].attempts = 0
  BY DEF Init, NoRow
<1>2. PhaseOf("absent") = "unseen"
  BY DEF PhaseOf
<1> QED  BY <1>1, <1>2 DEF Lifecycle!Init, Lifecycle!Unseen, LedgerMessages

\* The whole system implements the lifecycle of its messages: each is seen
\* once, held by one run at a time, tried at most max_event_attempts() times
\* unless a person asks again, and left alone once answered.
THEOREM RefinesLifecycle == Spec => ImplementsLifecycle
<1>1. Init => Lifecycle!Init
  BY InitRefines
<1>2. IInv /\ [Next]_vars => [Lifecycle!Next]_LedgerMessages
  BY LedgerStep, MoveRefines DEF IInv
<1> QED  BY <1>1, <1>2, Invariance, PTL DEF Spec, ImplementsLifecycle, Lifecycle!Spec
============================================================================
