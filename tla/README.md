# A verification project for bestteam

bestteam lets small organisations put teams of AI agents to work: a team can be
run by hand, chatted with through a share link, and, if it uses email, started
automatically when mail arrives. It is one Python process (FastAPI, one thread
pool for runs, one poller thread) over one database and the customers' IMAP
mailboxes. This project models the parts of it where most can go
wrong and least can be tested: the automatic email runs, the runs and who watches
them, the agent's turn, the share chat, document indexing, memory, deploys,
logins, alerts, and what becomes of drafts.

## 1. Inventory

Paths are under `src/ui/backend/` unless they start with `sdk:`, which is
`src/src/bestteam/`.

| Component | State | Operations | Interacts with |
|---|---|---|---|
| **Inbox ledger** `db/inbox_events.py` | table `inbox_events`: one row per (mailbox, UIDVALIDITY, UID) with status, run, attempts | record, claim, mark dispatched, complete, release, abandon, resolve a retry, release a filtered message | called inside the transactions of the poller, the retry, the workers, the settings requests and startup |
| **Email trigger** `email_trigger.py` | table `email_triggers` (enabled, UIDVALIDITY, cursor, counters and their date, last run); per-organisation dispatch lock | poll cycle, overlap guard, stale-run watchdog, dispatch, manual retry | ledger, registry, executor, mailbox |
| **Run worker** `runtime.py` | table `runs`, `trace_events`; thread-local batch | run a pipeline, record its trace, commit its status, settle its ledger rows, publish; recovery at startup | SDK pipeline, ledger, registry |
| **Email tools** sdk:`tools/email_client.py` | source-key locks; the mailbox's Drafts folder | draft a reply once per message | IMAP server |
| **Settings** `org_settings.py`, `email_trigger_api.py`, `db/orgs.py` | credential row, trigger row, `organizations.active` | connect or replace a mailbox, disconnect, enable, disable, suspend, release a filtered message | trigger, ledger; none takes the dispatch lock |
| **Run registry** `registry.py` | runs in memory: status, events, cancel flags, subscribers, live previews | create, discard, publish, subscribe, cancel, evict | workers, streams, overlap guard |
| **Run streams** `main.py`, `ws_tickets.py` | WebSocket tickets, subscriber queues | issue and consume a ticket, replay and follow a run, re-check access at each event | registry |
| **Share chat** `share_chat.py`, `db/share_*.py` | link and session turn counters, messages, session locks | send a turn, refund, record the reply, cancel, stream | worker, registry |
| **Ingestion** `ingestion.py`, `knowledge_bases.py` | ingestion jobs, documents, chunks, index generations | run a job, reuse unchanged documents, publish a generation, prune, fail interrupted jobs | retrieval in the SDK |
| **Trigger health** `trigger_health.py`, `notifications.py`, `trigger_metrics.py` | consecutive faults, alerted fingerprint, notifications | evaluate an outcome, raise, clear, deliver | trigger (reports on it, never guards it) |
| **Automation results, draft outcomes** | result rows, draft outcome rows | normalise a run's output, reconcile drafts with Sent | worker, retry (`already_drafted_uids`) |
| **Retention** `retention.py` | content of old runs | sweep, purge, export | registry, runs, retry |
| **Login** `login_rate_limit.py`, `auth.py`, `auth_api.py` | failed attempts in a window, accounts and their security stamps, tokens | reserve an attempt, log in, change or reset a password | streams (a stamp ends them) |
| **Memory** sdk:`core/memory.py`, `account_memory.py`, `admin.py`, `memory_api.py` | table `memories`, retired principals | recall, record, prune, erase, delete or move an account, backfill | worker |
| **Deploys and components** `crud.py`, `builder.py`, `component_lock.py`, `share_links_api.py` | pipelines, versions, skills, knowledge bases, builder sessions, share links | publish, go live, delete, refuse what is in use | one process lock |
| **Agent turn** sdk:`adapters/langgraph_adapter.py` | message list, usage sink, token sink | model calls, tool rounds, delegation, wrap-up, grounding check | worker (events, stop flag), model providers |
| **Chunking** sdk:`core/knowledge_base.py` | none | cut a document into chunks that fit | ingestion |
| CLI, env checks, analytics, migrations, frontend | | | |

What makes each of them correct, and what is hard about it:

- *Ledger and trigger.* No message is lost, none is answered twice, at most one
  run of an organisation at a time, the caps hold, a hung run does not stop the
  organisation. Hard because five kinds of threads write the same rows (poller,
  retries, workers, settings requests, startup), the poller's row is cached over
  mailbox I/O, a timed-out worker cannot be killed, and every commit can be the
  last before a crash.
- *Registry and streams.* Every subscriber sees each recorded event once and in
  order, the terminal one included; what is only previewed adds up; eviction
  takes nothing that is in use; a revoked reader gets nothing more; a purge is
  complete. Hard because the database and the registry are two copies written
  one after the other.
- *Agent turn.* What is recorded is an answer, not half of one, and what was paid
  is metered, although a stop may come between any two looks at the flag.
- *Share chat.* One unanswered turn per session; both counters equal the turns
  taken; every turn gets a reply. Hard because the counters are claimed in
  separate statements and refunded on every way out.
- *Ingestion.* The live generation is always complete; pruning takes nothing a
  trace still names; no compiled team keeps searching an old one. Hard because
  workers hold no lock and copy from generations that may be pruned.
- *Chunking.* Every chunk fits, carries its path, and no text is lost.
- *Memory.* A deleted account's memory stays deleted and is nobody else's, while
  its runs are still recording.
- *Deploys.* What is published can be built, and what visitors run cannot read
  mail, whatever is deleted or published beside it.
- *Login.* Only the current password opens a session; guesses are bounded.
- *Trigger health.* One alert per outage, whatever reports in what order.
- *Drafts.* A sent draft is not written again by a retry, nor reported as thrown
  away because the poller looked at a bad moment.

`PROJECT.json` lists the hazards one by one, with their lines.

## 2. Plan

1. **Done:** `InboxLedger`, `EmailTrigger`, the abstract `MessageLifecycle` and
   the refinement between them, `EmailTriggerProofs`.
2. **Done:** `RunStream`, `AgentTurn`, `ShareChat`, `XmlChunks`, `TriggerHealth`,
   composed by `Serving`; `Ingestion`, `UserMemory`, `Deployment`, `Login`,
   `MailAftermath`, composed by `Platform`. None of them declares a recursive
   operator.
3. **Done:** the abstract `EventFeed`, which `RunStream` implements.
4. **Done:** the proofs about every module: `EmailBatchProofs` on top of
   `EmailTriggerProofs`; `FoldTheorems`, on which `StreamProofs`, `ChunkProofs` and
   `ServingProofs` rest; `LoginProofs` and `PlatformProofs`.
5. Left: the retrieval side of the SDK, and more than one collection.

## 3. The modules

`InboxLedger` holds the ledger as a function from keys to rows and one operator
per helper of `db/inbox_events.py`. The operators do not commit; like the
helpers, they are called by somebody else's transaction. A key without a row has
status `absent`.

`EmailTrigger` extends it with one organisation: its mailbox servers, the
database rows, the process's memory, and the threads. **A step ends where the
code commits, takes or leaves the dispatch lock, or does mailbox I/O.** What a
thread read before such a point and uses after it is in its record:

- `poller`: `idle -> loaded -> locked -> checked -> recorded -> claimed ->
  advanced -> idle`. `loaded` has read the trigger row (`seen`: the ORM object,
  which commits do not refresh since the session does not expire it) and waits for the
  lock; `checked` has what the server said; `claimed` has committed its claim
  and is building the pipeline; `advanced` has committed the dispatch and is
  about to submit the run. Each early return of `poll_org` and
  `_start_triggered_run` is a step back to `idle`.
- `retry[c]`: `idle -> loaded -> building -> submitting`; the checks before the
  lock are one step, since what they read and is used later is kept in the
  record, and everything else is read again under the lock.
- `worker[r]`: `working -> settling -> publishing -> none`. The order matters:
  the row's status is committed first, the ledger is settled next, and only the
  publish makes the overlap guard see the end. While working, a worker may draft
  for any message of its batch in any order; `appending[r]` is the message whose
  source-key lock it holds between the scan of Drafts and the APPEND; `drafted`
  is what its buffered trace does not prove yet.
- `request`: one settings request at a time, with its two or three commits.
- `CrashAndRestart` empties the process's memory and runs
  `fail_interrupted_runs` and `_release_orphaned_claims`, which run before the
  application serves anything.

Two details of the code that decide properties are modelled exactly. The date
rollover is decided on the cached row and written as the unit of work writes it:
only the columns whose value differs from the one loaded, at the next commit
(`FlushRollover`). And the dispatch is a compare-and-swap on the stored row
(`Advanced`, guarded by `MayDispatch`), which increments what the row holds.

`MessageLifecycle` is the abstract specification: what a message may go through,
without any thread. `LedgerMessages` in `EmailTrigger` is the refinement mapping.

Operators that no action uses (for
instance `ReleaseForever` before `Release`) are the definition that follows
with a plausible bug; every property of a passing run is violated when one of
them takes that definition's place.

### The other components

Their steps end where the code commits, waits, or takes or leaves a lock, as above.

- `RunStream`: any run. `driver[r]` is its worker draining the pipeline's
  generator: `pull -> (commit ->) publish -> trace -> ...`; the row is committed,
  the event published and the trace written in that order. A team's nodes come one
  after the other, or (`Parallel`) are siblings of one superstep: then all of them have
  called their models before the first event of any is yielded. A node's events are
  buffered until it is done, except in a diagnostic re-run (`Diagnostic`), whose prompts
  and model turns are published at once. `entry`, `order`, `subscribed` are the
  registry. `stream[v]` is a WebSocket handler with its queue: ticket, connect,
  subscribe (replay and registration in one step, under the registry's lock),
  deliver (re-check, then send). Cancellation, purge, account changes, failing
  writes and a restart come at any moment. `unmetered` is the set of calls that may be
  paid for and have not been handed to the meter.
- `EventFeed` is what the registry and the streams promise, without workers, queues,
  tickets or rows: a run is begun, its events are published until it ends, a reader
  follows it from where a purge has left it and is sent its events one by one while it
  may. `Feed` in `RunStream` is the refinement mapping: the feed of a run is its log,
  its readers are the streams that subscribed, and what they may be sent is decided by
  their access at that moment.
- `AgentTurn`: `_run_agent` of one agent, `turn` its frame and `helpers` those of
  a manager's specialists, which run at once. Texts are sequences of numbered
  pieces, so that a preamble, half an answer and a replaced text are different
  from an answer. `stop` may be set before any look at it.
- `ShareChat`: `tab[c]` is a send between its statements (claim the link's turn,
  find or create the session, take the session's lock, claim its turn, append,
  commit the run, submit), `reply` the run that answers. The clock is read once
  per claim. The link carries `active`, `daily_cap` and `expires_at`; `PatchLink` may set
  all three under a send that read them earlier. `askedAll` is a history of the
  questions asked, for the properties.
- `XmlChunks`: one iteration of `_xml_pieces` per step. Every document is tried
  that `_render_xml_tree` can write with the given lines, depths and lengths. A level
  of the walk is the range of lines it covers and the line its next section starts at;
  the sections, which the code computes when it opens a level, are determined by
  these. Texts are sequences of characters that know their line and their place in it,
  so that a torn, lost or misplaced line can be told from a whole one.
- `TriggerHealth`: three sessions judge the same row; each commits the columns it
  changed.
- `Ingestion`: requests hold the collection's lock from their checks to the
  submission (`submitting`), workers hold nothing; `indexer[j]` is between the
  queries of its job, `chores` what is left after its last commit (prune, clear
  the cache); `loader` is a request compiling the team.
- `UserMemory`: `recorder[r]` is a run that recalled and later records, on its own
  connection; `errand` an operator's request between its two commits. The
  write fence is in the statement that inserts, as in the code.
- `Deployment`: `change[c]` is a request before, inside or after
  `component_mutation_lock`; `draft` a builder request waiting for a model;
  `visit` the version a visitor's request read before it compiles.
- `Login`: attempts are `asked -> reserved -> matched`; hashes are compared
  between a read of the account and the token. `failures` is the limiter's table;
  `Prune` drops the longest expired prefix, as the code's loop over a deque does.
  `guesses` is a history: what was admitted since the last success, never pruned.
- `MailAftermath`: `batchRun` is a triggered run and its retries; their evidence
  is in three places (trace, item rows, outcome rows), each lost in its own way. A draft
  is first only in the buffer of the node that wrote it (`unreported`); when the node has
  returned, `Report` is the worker reading the event: it adds to the memory the item rows
  are written from (`observed`) and to the trace (`evidence`). A run that ends before
  that leaves the draft `untold`.
  The poller reads Drafts first and Sent second, with mail moving in between.

`FoldTheorems` says what a fold over a sequence comes to. `StreamProofs` has the
theorems about `RunStream`, `ChunkProofs` those about `XmlChunks`, `LoginProofs` those
about `Login`; `ServingProofs` extends the first two with `ShareChat`, `AgentTurn`,
`TriggerHealth` and the composite; `PlatformProofs` extends the third with `Ingestion`,
`UserMemory`, `Deployment`, `MailAftermath` and the composite. The theorems about
`EmailTrigger` are in `EmailTriggerProofs` and `EmailBatchProofs`.

`Serving` and `Platform` put these components together for TLC. In the code they
share no variable: what one passes to another is an argument, and each model
takes it from everything the other could pass. So a behaviour of the composite is
a behaviour of one component, chosen initially by `focus`, and the state spaces
add up instead of multiplying. `VIEW` leaves the components out of focus out of a
state's fingerprint; they never change, so no two different states are merged. In
`Serving` it also leaves out what can no longer have an effect on a step or a property:
until when a closed share link would have been open (`LinkView`: the next change of the
link sets every field), and at which event a stream lost its access, once it has the access
again or was closed without being sent more (`StreamView`).

### Correspondence

| Code | Model |
|---|---|
| `poll_once`, `poll_org` to the lock | `PollLoad`, `PollSkips` |
| overlap guard, `_release_stale_run` | `PassOverlapGuard`, `ReleaseStaleRun`, `PollBlocked`, `PollEnter` |
| `check_mailbox` and its failures | `PollCheck`, `PollCheckFails` |
| re-baseline after a rebuild | `PollRebaseline` |
| record and cursor in one commit; backlog | `PollRecord`, `PollBacklog` |
| caps, claim, build, compare-and-swap, submit | `PollDeclines`, `PollClaim`, `PollGivesBack`, `PollAdvance`, `PollSubmit`, `PollSubmitFails` |
| `retry_triggered_run` | `RetryBegin` ... `RetrySubmitFails` |
| `run_in_background`, `_safe_complete_inbox_events`, `publish` | `WorkerTrace`, `WorkerFinish`, `WorkerSettle`, `WorkerPublish` |
| `_draft_once` and the IMAP calls under it | `WorkerFindsDraft`, `WorkerScan`, `WorkerAppend`, `WorkerAppendFails` |
| `set_email` + `on_mailbox_saved`, `delete_email`, `set_trigger` | `SaveMailbox`, `SaveDisables`, `SaveAbandons`, `ClearMailbox`, `ClearDisables`, `EnableProbes`, `EnableWrites`, `EnableAbandons`, `Disable` |
| `fail_interrupted_runs` | `CrashAndRestart` |
| `RunRegistry` | `CreateRun`, `Published`, `Notify`, `Replay`, `Evicted`, `CancelRun`, `PurgeRun` |
| `run_in_background` in general, its token sink | `PersistRow`, `Pull`, `Commit`, `Salvage`, `Publish`, `RecordTrace`, `PublishTransient` |
| `create_ws_ticket`, `stream_run`, `stream_share_run`, their access checks | `IssueTicket`, `Connect`, `Subscribe`, `Deliver` |
| `_run_agent`: calls, tools, delegation, grounding | `CallModel`, `ModelSays`, `ModelAsks`, `ModelEnds`, `RunTool`, `FanOut`, `HelperCalls`, `HelperEnds`, `GraderEnds` |
| `send_share_message` | `Send`, `RollLink`, `ClaimLink`, `OpenSession`, `Lock`, `ClaimSession`, `GiveBack`, `AppendTurn`, `CommitRun`, `Submit` |
| the run of a share turn, `_safe_record_share_reply` | `SettleRun`, `RecordReply` |
| `_xml_pieces`, `_pack_pieces`, `_recursive_split` | `MergeSection`, `StartSection`, `OpenSection`, `SplitSection`, `CloseLevel` |
| `evaluate` of the health policy and its callers, delivery | `ApplyBacklogHealth`, `CheckMailbox`, `ReadRow`, `CommitVerdict`, `SweepExpiry`, `Dispatch` |
| uploads, removals, restores, retries of a collection | `UploadOwn`, `UploadAsAdmin`, `RemoveDocument`, `RestorePrevious`, `RetryJob`, `SubmitJob`, `DeleteBase` |
| `run_ingestion_job`, pruning, `fail_interrupted_jobs` | `BeginJob`, `ReadChunks`, `FinishJob`, `FailJob`, `SurveyOld`, `ReapOld`, `PruneFailed`, `RestartIngest` |
| `_get_pipeline`, `run_knowledge_generations` | `ResolveTeam`, `BuildTeam`, `StoreTeam`, `InvalidateCache`, `CiteGeneration` |
| recall, recording and pruning of memory | `Remember` |
| account deletion, re-creation, moves, erasure, backfill | `PurgeAccount`, `DropAccount`, `CreateAccount`, `MoveAccount`, `EraseMemory`, `ReconcileLegacy`, `AssignPrincipal` |
| routes under `component_mutation_lock` | `AskChange`, `CheckChange`, `CommitChange` |
| builder stages, share links, visitors | `StartDraft`, `FinishDraft`, `MintLink`, `VisitTeam`, `AnswerVisitor` |
| `/login`, `/password`, the operator's account routes | `AskLogin`, `AskPassword`, `Reserve`, `Verify`, `FinishLogin`, `FinishChange`, `ResetMember`, `DeleteMember`, `CreateMember`, `MoveMember` |
| the drafts of a batch, retries, purge, reconciliation | `WriteDraft`, `FindDraft`, `Report`, `EndBatch`, `RetryRun`, `PurgeRuns`, `LookInDrafts`, `LookInSent`, `LookFails` |

`PROJECT.json` maps every definition to its lines.

## 4. What is checked

Bounds are in the configurations.

| Run | Instance | Shows |
|---|---|---|
| `Core` | `EmailTrigger`: 1 mailbox, 3 messages (one filtered), batch 2, 3 runs, 1 retry thread, 1 fault, 1 request (a retry or a filter release), daily cap 2, message cap 2 | the safety properties of the email runs but the daily cap, and that they implement `MessageLifecycle`; about 1.1 million states |
| `Settings` | 2 mailboxes, 2 generations, 2 messages, 2 runs, 2 days, cap 1, one request (replace, disconnect, enable, disable, suspend, cancel, a sent draft or a rebuild) | no run starts against a replaced mailbox, and the daily cap across a rollover; about 2.7 million states |
| `Hang` | fairness, workers may hang, 1 fault, a cancel | every message gets a final status |
| `Serving` | a run of one agent that remembers and a run of two siblings at once, 1 member, 1 visitor, 1 upset; a turn with 2 tool rounds and 2 specialists; 2 tabs, 2 sessions, cap 2, 2 days; XML of 4 lines; threshold 2 | the 13 properties of the components of a run at work, and that streams implement `EventFeed`; about 2.8 million states |
| `Platform` | 3 jobs, 2 uploads; 2 runs, 2 accounts, 2 organisations; 2 changes and 1 draft; 2 attempts, 2 ticks; 4 runs of a family, 1 message, 3 mischances | the 12 properties of what outlives a run; about 3.1 million states |
| `CapLost`, `OrphanedRetry`, `CancelledMail`, `CursorOverwritten`, `ReenabledMailbox`, `PurgedRun`, `LostDraft` | the smallest instance of each | a claim of the repository that the code does not keep (section 6) |

*Why the bounds are enough for the questions.*

- Email runs. Two messages of one batch and a third outside it tell apart what a
  run holds from what it does not; three runs are a run that hangs, the one that
  replaces it and a retry; one fault puts a crash or a failed call at every point
  of every behaviour; batch 2 with a message cap of 2 makes the cap cut a claim
  short. `Core` keeps one day, one generation and no settings request, because with
  them it is out of TLC's reach: `DailyCapHolds` and `ReplacedMailboxIsQuiet` are checked
  over two days, two mailboxes and two generations in `Settings`; that
  `AutomaticRunsOwnTheirBatch`, `NothingSkipped` and the other properties of `Core`
  survive a mailbox that is rebuilt or replaced is shown by the theorems (section 5), not
  by TLC. `Settings` has one request, in all its commits, at any point of
  a poll; with two (replace, then enable) the property is false, as `ReenabledMailbox`
  shows. No symmetry is used (`Fresh` chooses a run id, and UIDs are ordered).
- `RunStream`. Two runs with one retained make eviction happen at each creation;
  one worker makes the second run wait in the queue; a member and a visitor are
  the two ways to be let in; one upset puts a purge, revocation, cancellation,
  failed write or restart at every point. The run of one agent has a recall, a buffered
  event, a piece of preview and a usage record before and after it; in the run of two
  siblings the stop can fall between the events of one and the other. Diagnostic re-runs
  and sequences of several agents are left to the theorems, which are about every
  assignment of runs to these kinds. A team that has both siblings and successors is not
  modelled.
- `AgentTurn`. Two tool rounds are one that is followed by another and one that
  exhausts the loop; two specialists run at once; four pieces of text are a flush
  and a remainder, twice.
- `ShareChat`. Two tabs may be of one session or of two; a cap of 2 is reached by
  either; three turns leave one refused. A request to change the link may set any cap up to 2
  and any day of expiry, so that the cap falls below the turns already taken.
- `XmlChunks`. Lines of 2, 7 and 16 characters under chunk sizes 12 and 15 include a
  line that can head a path, one that fits in a chunk but can head none, and one that must be
  split; four lines have two levels with a sibling at each.
- `Ingestion`. Three jobs are the live generation, the one before it that can be
  restored, and a third whose completion prunes the oldest; the uploads overlap in a
  name with another content.
- `UserMemory`. Two accounts follow one another under a username; four rows are
  one of an older release, one of each account and one more.
- `Deployment`. Two requests under the lock and one beside it are every pair.
- `Login`. Two attempts, a user limit of 1 and an address limit of 2 let each limit
  bite alone; the window passes once.
- `MailAftermath`. One message: the messages of a batch meet only in a run's
  status, and each is decided on its own. Four runs are the original and a chain
  or a fan of retries. Three mischances are a lost row, a purge and a failed scan.

Deadlock is reported in the runs of `EmailTrigger`: the poller can always poll or
skip. In `Serving`, `Platform` and `PurgedRun` it is not, since a run ends, a turn
returns, a document is cut, and the bounds on requests run out.

### Properties

- `TypeOK`. Also says that a row is never charged more than `MaxAttempts`.
- `AttemptsLeft`: what waits can still be tried; the dead-letter bound, across
  release, restart and human retries.
- `SingleFlight`: one recorded running run per organisation.
- `ClaimsHaveOwner`: a claimed row has a thread that will settle or release it
  (but see `OrphanedRetry`).
- `AutomaticRunsOwnTheirBatch`: what a run is processing is what it holds, from
  dispatch to end, whatever stale workers, watchdogs and settings requests do.
  Stated for runs the poller starts: a retry may process more than it holds.
- `NothingSkipped`: between the baseline and the cursor every message has a row.
- `DoneIsEarned`: a row is done only if a completed run had it or a draft was
  made.
- `NoDuplicateDraft`: two drafts of one message lie in Drafts only after a
  fault in the scan or the APPEND, although a run the watchdog gave up on drafts
  beside its successor.
- `DailyCapHolds`, `MessageCapHolds`: the operator's cap on runs, the customer's
  cap on messages, by the day the code judged it to be.
- `DoneStaysDone`: nothing that is done is touched again.
- `ReplacedMailboxIsQuiet`: no run starts against a mailbox that is no longer
  connected, except between the two commits of the request that replaces it
  (the code disables the trigger in a second commit).
- `ImplementsLifecycle`: the refinement.
- `EveryMessageIsSettled`: the liveness property.

Of `Serving` (a type invariant, `ServingTypeOK`, apart; it also says that no counter
exceeds the highest cap a share link can have: a cap that is lowered later may be below
the turns already taken, and the code then takes none until they are reset):

- `ViewerSeesTheLog`: what a subscriber was sent and what waits in its queue is the
  run's log, without gap or repetition, whenever it attached; and the run it
  watches is not evicted.
- `PreviewIsWhole`: the same for what is not recorded, the text so far and the
  agents at work.
- `NothingAfterRevocation`: nothing published after access was taken away is sent,
  however much waits in the queue. An event published before may go out just
  after: the check and the send are two statements of the handler. The model makes them
  one step, which changes nothing for events published later.
- `PaidWorkIsMetered`: a completed run has metered every call it paid for, and a
  cancelled one too, with two exceptions the code makes: siblings of a parallel team
  have all paid when the flag is looked at after the first one's event, and a diagnostic
  re-run is stopped at a model turn whose usage comes later. In a run that is not parallel
  at most one call is ever lost, however it ends. What parallel siblings lose when the run
  is cancelled or fails is not bounded, by the code or by the property (section 6).
- `TurnIsMetered`: wherever a stop is honoured inside an agent's turn, the model calls
  paid for are recorded.
- `PreviewIsAnswer`, `PartialReplyIsNotKept`: neither what streamed nor what is
  recorded is a preamble, a replaced text or half of an answer (the wrap-up call of
  an agent without a knowledge base is exempt: the code keeps that partial reply).
- `TranscriptAlternates`: one open question per session, however many tabs send.
- `TurnsAreCharged`: both counters are exactly the turns asked today and the sends
  still undecided, whichever way a send was rejected; exempt are a send that meets
  midnight between its claims and a fault that kept a refund from being written.
- `OpenTurnIsServed`: an unanswered question has somebody at work on it, unless
  there was a fault (a restart, or a failed write of the run's row or of the reply). With a
  fault there is no such promise: see section 6.
- `ChunksHoldTheDocument`: every chunk fits, holds the whole line it is headed by and
  nothing of another branch, and all text is in some chunk; and a line is whole in some chunk
  if it and all it is under are shorter than half a chunk. Longer ones may be torn: an
  opener that long is not repeated, and the splitter cuts where it must.
- `ImplementsFeed`: the refinement of `EventFeed`. A run ends once, a reader is sent its
  events without a gap from where it subscribed, and only while it has access, and a run is
  forgotten only when it is over and nobody follows it.
- `AlertsMatchEpisodes`: alerts and recoveries alternate, fingerprint by
  fingerprint, unless a verdict was committed over a row changed since it was read.

Of `Platform` (with `PlatformTypeOK`):

- `GenerationsAreWhole`: what can be searched or restored is exactly the readable
  files staged for it, under their own bytes, with their vectors, whatever was
  carried over from whichever generation. The vectors are claimed only while no two
  jobs of the collection overlap.
- `CacheFollowsLive`: after the last invalidation no team compiled against an older
  generation is served. The invalidation itself succeeds in the model.
- `AuditResolves`: what a stored trace names can be read, except for a citation
  written between a prune's question and its delete.
- `DeletedStaysDeleted`: no row of a purged account comes back.
- `RecallIsOwn`: a run recalls only what its own account wrote, in its
  organisation; exempt are rows of an older release that survived their account.
  Accounts without an organisation are outside the model.
- `PublishedTeamBuilds`: the skill and the collection a published team names exist.
- `VisitorsReadNoMail`: no run a visitor starts holds an email tool.
- `SessionsFollowThePassword`: a token that is let in was obtained with the password
  the account has now.
- `GuessesAreBounded`: no more than the limit are admitted in a window without a
  success, however requests overlap.
- `SentMailIsNotRedrafted`: no retry drafts a message again whose draft was sent,
  unless all evidence of it was lost with its process, rolled back or purged (`excused`), or
  was never given because the node that wrote it failed before it returned (`untold`).
  Without the last exception the property is `FailureCostsNoDraft`, which the code
  contradicts: `LostDraft`.
- `SentIsNotHandled`: a draft recognisably in Sent is not reported as handled some
  other way, unless the customer had thrown one away before or the message is among
  those exceptions.

### Fairness

`FairSpec` assumes that the poller keeps polling (`poll_forever` catches and logs
whatever a cycle raises), that a request thread that has begun goes on, and that
time passes for a run that does not end. It assumes **nothing of the workers**:
a run may hang in a model call for ever. `EveryMessageIsSettled` therefore shows
that the watchdog is enough. Failures do not recur for ever because they are
bounded by `MaxFaults`; a mailbox that can never be reached is never served.

## 5. What is proved

TLAPS checks, for every set of runs, messages, threads, accounts and documents, and
every bound and limit (faults, days, requests, batch sizes, caps, rounds):

| Module | Theorem | States |
|---|---|---|
| `EmailTriggerProofs` | `Invariance` | `Spec => []IInv` |
| | `TypeCorrect` | `Spec => []TypeOK` |
| | `AttemptsLeftHolds` | `Spec => []AttemptsLeft` |
| | `SingleFlightHolds` | `Spec => []SingleFlight` |
| | `DoneStaysDoneHolds` | `Spec => DoneStaysDone` |
| | `RefinesLifecycle` | `Spec => ImplementsLifecycle` |
| `EmailBatchProofs` | `BatchInvariance` | `Spec => [](BatchInv /\ DraftInv)` |
| | `ClaimsHaveOwnerHolds` | `Spec => []ClaimsHaveOwner` |
| | `AutomaticRunsOwnTheirBatchHolds` | `Spec => []AutomaticRunsOwnTheirBatch` |
| | `NoDuplicateDraftHolds` | `Spec => []NoDuplicateDraft` |
| | `DoneIsEarnedHolds` | `Spec => []DoneIsEarned`, if no draft is taken out of Drafts |
| | `ReplacedMailboxIsQuietHolds` | `Spec => ReplacedMailboxIsQuiet`, if the trigger is not enabled again |
| | `NothingSkippedHolds` | `Spec => []NothingSkipped`, if no request replaces the mailbox or enables the trigger |
| | `DailyCapIsKept` | `Spec => []DailyCapHolds`, if no retry can span midnight |
| | `MessageCapIsKept` | `Spec => []MessageCapHolds`, if no retry can span midnight |
| `StreamProofs` | `StreamInvariance`, `StreamTypeCorrect` | `StreamSpec => []StreamInv`, `[]StreamTypeOK` |
| | `ViewerSeesTheLogHolds` | `StreamSpec => []ViewerSeesTheLog` |
| | `NothingAfterRevocationHolds` | `StreamSpec => []NothingAfterRevocation` |
| | `PaidWorkIsMeteredHolds` | `StreamSpec => []PaidWorkIsMetered` |
| | `PageInvariance`, `PreviewIsWholeHolds` | `StreamSpec => []PageInv`, `[]PreviewIsWhole` |
| | `FeedInvariance`, `RefinesFeed` | `StreamSpec => []FeedInv`, `ImplementsFeed` |
| `ChunkProofs` | `ChunkInvariance`, `ChunkTypeCorrect` | `ChunkSpec => []ChunkInv`, `[]ChunkTypeOK` |
| | `DocumentHeld` | `ChunkSpec => []ChunksHoldTheDocument` |
| `ServingProofs` | `TurnInvariance`, `TurnTypeCorrect` | `TurnSpec => []TurnInv`, `[]TurnTypeOK` |
| | `PreviewIsAnswerHolds` | `TurnSpec => []PreviewIsAnswer` |
| | `PartialReplyIsNotKeptHolds` | `TurnSpec => []PartialReplyIsNotKept` |
| | `TurnIsMeteredHolds` | `TurnSpec => []TurnIsMetered` |
| | `HealthInvariance`, `HealthTypeCorrect` | `HealthSpec => []HealthInv`, `[]HealthTypeOK` |
| | `AlertsMatchEpisodesHolds` | `HealthSpec => []AlertsMatchEpisodes` |
| | `ServingImplementsItsParts` | `ServingSpec` implies each component's specification |
| | `ServingTypeCorrect` | `ServingSpec => []ServingTypeOK` |
| | `ShareInvariance`, `ShareTypeCorrect` | `ShareSpec => []ShareInv`, `[]ShareTypeOK` |
| | `TranscriptAlternatesHolds` | `ShareSpec => []TranscriptAlternates` |
| | `OpenTurnIsServedHolds` | `ShareSpec => []OpenTurnIsServed` |
| | `TurnsAreChargedHolds` | `ShareSpec => []TurnsAreCharged` |
| `PlatformProofs` | `IngestInvariance`, `IngestTypeCorrect` | `IngestSpec => []IngestInv`, `[]IngestTypeOK` |
| | `GenerationsAreWholeHolds` | `IngestSpec => []GenerationsAreWhole` |
| | `CacheFollowsLiveHolds` | `IngestSpec => []CacheFollowsLive` |
| | `AuditResolvesHolds` | `IngestSpec => []AuditResolves` |
| | `AftermathInvariance`, `AftermathTypeCorrect` | `AftermathSpec => []AftermathInv`, `[]AftermathTypeOK` |
| | `SentMailIsNotRedraftedHolds` | `AftermathSpec => []SentMailIsNotRedrafted` |
| | `SentIsNotHandledHolds` | `AftermathSpec => []SentIsNotHandled`, if it takes more than one miss |
| | `PlatformImplementsItsParts` | `PlatformSpec` implies each component's specification |
| | `PlatformTypeCorrect` | `PlatformSpec => []PlatformTypeOK` |
| | `MemoryInvariance`, `MemoryTypeCorrect` | `MemorySpec => []MemoryInv`, `[]MemoryTypeOK` |
| | `DeletedStaysDeletedHolds` | `MemorySpec => []DeletedStaysDeleted` |
| | `RecallIsOwnHolds` | `MemorySpec => []RecallIsOwn` |
| | `DeploymentInvariance`, `DeploymentTypeCorrect` | `DeploymentSpec => []DeploymentInv`, `[]DeploymentTypeOK` |
| | `PublishedTeamBuildsHolds` | `DeploymentSpec => []PublishedTeamBuilds` |
| | `VisitorsReadNoMailHolds` | `DeploymentSpec => []VisitorsReadNoMail` |
| `LoginProofs` | `LoginInvariance`, `LoginTypeCorrect` | `LoginSpec => []LoginInv`, `[]LoginTypeOK` |
| | `SessionsFollowThePasswordHolds` | `LoginSpec => []SessionsFollowThePassword` |
| | `GuessesAreBoundedHolds` | `LoginSpec => []GuessesAreBounded` |

A component's theorems are about its own specification, with every bound arbitrary.
`ServingImplementsItsParts` and `PlatformImplementsItsParts` carry them over to the
specifications the runs check: a step of the composite is a step of the component in
focus and a stutter of the others.

### Assumptions

*On the constants*, the named `ASSUME`s of the modules, which TLC evaluates in the runs
`Core`, `Serving` and `Platform`: UIDs are positive and finite in number; limits, caps,
batch sizes and windows are natural numbers, positive where zero would leave nothing to
do; the names for "nobody" (`NoRun`, `NoMailbox`, `NoGeneration`, the "free" of a lock) are not
elements of the sets they stand beside. Only the UIDs of a mailbox and the
subordinates of a manager are assumed finite.

*As hypotheses of a theorem*, where the general statement is false or says nothing:

- `DoneIsEarnedHolds` assumes `"send" \notin Requests`. A customer who sends or deletes a
  draft takes the evidence of a row that was settled by a retry's look at Drafts.
- `ReplacedMailboxIsQuietHolds` assumes `"enable" \notin Requests`: with it the run
  `ReenabledMailbox` refutes the property (6.3).
- `NothingSkippedHolds` assumes `{"enable", "save"} \cap Requests = {}`: with them
  `CursorOverwritten` refutes it (6.2), and a save is two commits, between which the
  new credential is beside the old cursor.
- `DailyCapIsKept` and `MessageCapIsKept` assume `MaxDay = 0 \/ "retry" \notin Requests`:
  retries on one day, or any number of days without them. A retry that loaded its row
  on an earlier day writes a stale rollover over the counters, and `CapLost` (6.1)
  refutes the first property.
- `SentIsNotHandledHolds` assumes `MissThreshold > 1`. The code's value is 2. With 1 the
  property is false: Drafts is read before Sent, and mail moves in between.

### The email trigger

`SingleFlight` is not inductive: that two rows are not running says nothing of a
thread that has passed the guard and is about to write a third. `IInv` adds why
the guard is enough:

- `LockInv`: who is in the dispatch section is who holds the lock;
- `GuardInv`: a row that is running is the trigger's last run and the registry
  knows it is running; and between passing the guard and dispatching, no row
  is running (this is where the watchdog's failing of the row is needed);
- `RunInv`: a run that is dispatched but not submitted has no worker yet, and a
  run with a worker is still running for the registry, so that nothing can end
  a run in the registry before its row has ended. The order of status commit and
  publish in `run_in_background` is what this rests on;
- `ClaimInv`: a claim belongs to a run that exists, so that the id of a fresh
  run holds nothing; what waits has an attempt left, and so has what the poller
  claimed and has not charged. The release and the charge are in different
  transactions, and `AttemptsLeft` needs both sides;
- `RetryInv`: a retry under way is of an existing run.

The refinement and `DoneStaysDone` go by `LedgerMove`: every step changes the
ledger by one of its helpers, whose arguments are constrained just enough
(`LedgerStep`), and each helper is a move of the lifecycle (`MoveRefines`).

`EmailBatchProofs` builds on it:

- `BatchInv`. `StatusInv`: what the row of a run says at each place of the thread that
  drives it. `PollerMail`, `RunMail`: a poll, a run and the retry family it belongs to
  are of one generation of one mailbox. `RowInv`: a message recorded under a run is
  of that run's mailbox, or the poller has just claimed it. With these,
  `ClaimsHaveOwner` and `AutomaticRunsOwnTheirBatch` are inductive: an abandonment is of
  a mailbox and generation, a release and a settlement of a run, and only the
  invariants say which claims these are.
- `DraftInv` is the reason for `NoDuplicateDraft`: one worker appends for a message (the
  source key's lock), and since its scan found no draft of it, those that are there
  are paid for by a failed scan or append that has been counted.
- `EarnedInv`: what a retry found drafted was in a trace or in Drafts, and is
  written to the ledger later, without being looked at again.
- `QuietInv`: a poll or retry under way for a mailbox that is no longer connected will
  find the trigger disabled.
- `CursorInv`: the cursor and generation the poller read before its mailbox I/O are the
  trigger's when it writes the new one. This is the fact that section 6.2 refutes as
  soon as a request may write them.
- `CountInv`, `PollerCountInv`, `RetryCountInv`: the counters of the trigger row count at
  least the runs and messages of its day, the last on which anything was started; the
  day and message count the poller cached are the row's from the lock to the dispatch,
  and what it claimed fits what is left (`ClaimWithinLimit`: the oldest n rows are at
  most n messages). `DispatchCounts` is the counting itself.

### Folds

The models write recursion over a sequence as `FoldLeft`. The library's induction
theorems take an operator as a parameter, which no installed prover instantiates, so
`FoldTheorems` does the induction over a *set*: a set of natural numbers with 0 and the
successor of each member is `Nat` (`Induction`, by the well-foundedness of `<`). From it
come that a fold has a value at every step (`FoldReaches`: a sequence of accumulators that
starts from the base and moves by the step, a function) and that a set of accumulators the
step stays in contains the result (`FoldKeeps`). A fold of a model is brought to this form
once, by a lemma whose name ends in `Goes`; what it returns is then shown by naming
what holds of every accumulator. The queue a page is shown, the texts of a document and its
pieces, the path of a chunk and the notices left by a delivery are treated so.

### Runs, turns and chats

- `StreamInv`. `LogInv`: the registry's events are the run's log behind what a purge
  scrubbed. `SubscribedInv`: the subscribers of a run are the streams that follow it,
  which the code keeps in two places. `CutInv`: a stream without access has received
  nothing past its cut. `PaidInv`: the unrecorded calls of a run are among those its worker
  owes at its place in the drain (`Owed`): the usage record of the node whose events it is
  reading, and in a parallel run those of all siblings whose records are still to
  come. A completed run that is over owes nothing, and one that is neither parallel nor
  diagnostic is asked whether to stop only where it owes nothing.
  `CommitInv`: only a terminal status is committed.
- `PageInv` makes `PreviewIsWhole` inductive. `ScreenInv`: a page shows nothing before it is
  replayed the run. `EndedInv`: a run that is over has no preview left and its worker has
  only the recording in memory ahead, so that nothing is published that a page and the
  registry would show differently. The lemmas say that one more item in the queue changes
  what a page comes to show as it changes the registry's copy, that a delivery changes
  nothing of it, and that a replay brings an empty page to the copy.
- `FeedInv` adds `OverInv`, that the log of a run that is over holds its end; with it each
  action is a step of `EventFeed` or a stutter, by one lemma per kind of step.
- `ChunkInv`. `StackOK`: an open level starts with an element directly under its parent, its next
  section with a line as deep; every opener is above all lines of the levels inside its own, and
  with its line end fits in half a chunk; what is being merged fits the budget. `MarksOK`: an opener
  marked as repeated is whole in some chunk. `ChunksOK`: a chunk fits, holds its heading
  whole and only lines beside it, above or below. `Covered`: every line is ahead in some
  open level, or heads the path, or is in the chunks or in what is being merged, whole if it
  and all it is under are short. The last part needs all the others: when a level closes, its
  opener was repeated or becomes content, and the splitter tears no line that is short. The
  lemmas about `SplitAfter`, `Packed`, `Balanced` and `_recursive_split` hold for every text.
- `TurnInv`. `RoundInv` and `HelpersInv`: what a frame is still allowed and who may be at work
  at each place. `MeterInv`: the calls paid for are those recorded, those broken off, and
  those under way in the frame and its specialists. `BrokenInv`: a turn with a call
  broken off is stopped, and over without that text or about to find that out. `PreviewInv`:
  what has streamed, with what is held back, is what the place in the turn allows.
- `HealthInv`: the types of the row and of the copies of it that two sessions hold over
  their checks, and the property, which is inductive with them; the lemmas say that each
  decision of the policy is consistent with the columns it leaves. `NoticesTyped`: what a
  delivery leaves pending is no more than there was, and has an attempt left.
- `ShareInv`. `TranscriptInv`: a transcript alternates up to its last turn. `LatchInv`: a tab
  between its look at the transcript and its append holds the session's lock, which
  keeps true what it saw. `AskedInv`: the question a request or run is to answer is the last
  one, and nothing else is to answer it. `DayInv`, `SameDayInv` and `ChargeInv`: unless a day
  began in the middle of a send, claims are made on the day the send began, from counters
  of that day, so that a refund takes from the counter it was charged to.

### What outlives a run

- `MemoryInv`. `RetiredInv`: principals are retired in the order they were given out, the
  account's own only by the request about to delete it. `AuthorInv`: a row is
  its author's unless it is older than principals, and those are gone with the first
  account unless it was deleted without its memory. `StepInv`: the operator's errand
  between its commits. The write fence keeps `DeletedStaysDeleted` when a run of the deleted
  account records.
- `DeploymentInv`. `LockInv`: a request that is ready to commit holds the lock, and what
  it checked still stands. `VisitInv`: the version a visitor's request has read has no
  email tool, and it is that one it compiles, whatever is live by then.
- `LoginInv`. `StampInv`: no stamp was drawn that is not counted, and one equal to the
  account's stands for the account's password, in tokens and in attempts that read the
  account earlier. `PastInv`: nothing was counted in the future. `GuessInv`: the limiter's
  list is the admitted guesses without some expired oldest ones, so that the length of
  the list bounds the guesses in the window.
- `IngestInv`. `RowsInv`: a completed generation has chunks for exactly its readable files.
  `WorkInv`: a job in flight is in the hands of a request or a worker, and there is at most
  one unless an upload did not wait. `CarryInv`: while there is one, what it carries over
  has its vectors. `PruneInv`: what a prune has decided on is not kept (and does not come
  back), and it spares all that is cited. `CiteInv`, `LiveInv`: what may be cited, and that
  until a change has cleared the cache, what is in it is live. Lemmas about `Newest` and
  `Kept` carry this: a finite set of ids has a largest one (by well-foundedness), and
  what is kept stays kept when something else goes (`KeptStays`).
- `AftermathInv`. `TraceInv`: every draft has evidence, was reported to the run at
  work or waits in its nodes (`Known`), or is excused or untold (`Pardoned`). `Report` moves a
  message from the nodes to the run's memory, so that it never ceases to be known
  while the run is at work; at the end of the run what was not reported is
  pardoned. `BatchInv`: a run at work asks only for messages nobody has
  drafted, that it drafted itself, or that are pardoned. `LookInv`: what the poller did not find in Drafts
  is on its way or sent, unless it was thrown away once. `MissInv`: a message missed once is
  no longer about to leave, so that one missed twice was looked for in Sent after
  it arrived. This is the step that needs a threshold above one.

### Left to TLC

- `EveryMessageIsSettled`: liveness under fairness.
- That the runs of the composites reach what is interesting: each property is violated
  by a plausible bug in the code's place (section 3).

## 6. What the models showed about the code

1. `CapLost`. The rollover is decided on a cached row. A retry that loaded its
   row before the poller's first run of the day resets the poller's count, and
   the day has one run more than the cap.
2. `CursorOverwritten`. A poll that is between its mailbox check and its record
   when the customer replaces the mailbox and enables it again writes the old
   mailbox's cursor over the new one's baseline; mail of the new mailbox is never
   detected.
3. `ReenabledMailbox`. In the same situation a step later, the dispatch's
   compare-and-swap accepts the re-enabled trigger, and the run drafts in the
   mailbox that was replaced.
4. `OrphanedRetry`. A retry that cannot be submitted keeps its claims, unlike a
   poll that cannot be: no thread settles them while the process runs.
5. `CancelledMail`. Messages of a cancelled run wait for a human retry that
   refuses cancelled runs.
6. `PurgedRun`. The terminal status is committed before the terminal event is
   published and traced. A purge in between clears a finished row, but the registry
   still counts the run as running and keeps its copy; the worker then publishes
   the purged output and writes a trace row.
7. `LostDraft`. `automation_results.py:391-396` says that without its two kinds of
   evidence a retry "created a duplicate draft for every message the original run had
   already replied to -- with no crash needed, just an ordinary mid-run failure". An ordinary
   failure still does: the adapter keeps a node's `tool_completed` in a buffer until the
   node returns (`langgraph_adapter.py:1286-1308`, 1613-1614), so a node that drafts and then
   fails, for instance in its next model call, leaves neither a trace event nor an entry
   in `confirmed_draft_message_ids`. While the draft lies in Drafts the retry's scan finds
   it; once the customer has sent it, the retry drafts a second reply.

Not findings of a run, but seen while modelling:

- *Email.* A retry redoes all undrafted messages of the original run, also those that
  wait in the queue again or were moved to a later retry; the source-key lock and
  scan are what prevents a second draft. A draft that the customer has sent is no
  longer in Drafts, so a message that comes back by the watchdog is answered again.
  Claims released after their mailbox was abandoned wait in a generation nobody
  claims until the next save, enable or rebuild.
- *Runs.* A stream opened on a run that was purged gets no terminal event and keeps the
  entry from eviction. A node that raises after paid calls loses its usage, and a
  parallel branch that fails loses the others'. So does a cancellation of a parallel team:
  `runtime.py:257-263` calls the look at the flag safe after every event that is not
  buffered, but after the first sibling's `agent_completed` it closes the generator on the
  others', which have been paid for; in a diagnostic re-run it can fall between a model turn and
  its agent's usage. A usage row whose own write fails is logged and lost. When recording
  in memory fails after its model call, `memory_failed` carries no usage. `Pipeline.stream` documents memory
  as recorded before `run_completed`; the code does it after.
- *Agent turn.* A stop during the wrap-up call of an agent without a knowledge base
  records the partial reply (the last look at the flag, `langgraph_adapter.py:938`, is before that call).
- *Share chat.* A restart with a turn in flight, or a failed commit of the run's row,
  leaves the session closed for ever (`SessionStaysOpen` states what
  `share_transcript.py:26` asks for). A refund after midnight is taken from the new
  day.
- *Ingestion.* With two jobs in flight the prune of one can null the vectors the
  other is about to reuse; a citation written between a prune's question and its
  delete dangles; a collection deleted between a job's commit and its metering
  leaves the embedding unmetered.
- *Memory.* Two runs that each replace the other's fact delete both. Erasing an
  organisation's memory has no fence against runs under way. An account deleted
  without its store hands rows of an older release to its successor.
- *Deploys.* Deleting a team counts the run rows, not the runs still queued without
  one, and a share link can be minted beside it (it does not take the lock).
  `deploy_session` reads the specification before it takes the lock.
- *Login.* A password change that compared hashes before an operator's reset commits
  over it. `record_success` forgives the newest failure of the address, which may
  be another attempt's.
- *Trigger health.* A verdict on a stale copy of the row can repeat or lose an alert.
- *Drafts.* A purge between a run's last commit and `record_outcomes_for_run` leaves
  no outcome rows. A retry does not look at `content_purged_at`. A draft trashed, put
  back and then sent can end as handled. `fail_interrupted_runs` writes item rows
  with no confirmed draft for a batch whose drafts exist.

## 7. What is not modelled, and why

- More than one organisation in `EmailTrigger`: they share only the poller thread,
  which makes a cycle slower; the cached row may be arbitrarily old in the model
  anyway.
- `last_error`, `last_checked_at`: nothing in the control reads them.
- The monthly cost cap: a decline that may happen at any time, charged to the
  faults of the instance.
- Failing database writes in `EmailTrigger`. Where the code swallows them (`_safe_*` in
  `runtime.py`) the consequence is a hazard of its own in `PROJECT.json`. The other
  modules have them where the code handles them.
- Messages expunged from the mailbox, and a team that calls the draft tool in
  parallel for one message inside one run (the lock covers it), or drafts a message
  again that it drafted itself and the customer has sent meanwhile.
- The watchdog together with a customer who sends the drafts of the run it gave up on:
  the message comes back and is answered again (section 6). `EmailTrigger` has the
  watchdog, `MailAftermath` the evidence and the retries.
- Accounts that belong to no organisation (`admin.py:410`, sdk:`memory.py:65`), and a
  double fault after a job's commit: its row cannot be read again (`ingestion.py:274`),
  nor be marked failed, so that the generation is live and the cache was not cleared.
- Multiple worker processes: `process_lock.py` excludes them, and is not modelled
  itself: one lock of the operating system.
- Liveness of the components of `Serving` and `Platform`: what must happen there
  waits for model providers, browsers and customers, of whom the code can assume
  nothing; `OpenTurnIsServed` says who is at work instead.
- Data: the content of prompts and replies, parsing of documents other than XML,
  embeddings and ranking, redaction, the fields of a result envelope, the validation
  of settings and designs.
- The CLI beyond account deletion and backfill, environment checks, error reporting,
  analytics, migrations, the interview and the frontend: sequential, read-only or
  rendering. `PROJECT.json` says of each component what is left out.
