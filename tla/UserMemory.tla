------------------------------ MODULE UserMemory ------------------------------
(***************************************************************************)
(* What the teams remember of one username: the rows of the memory store,  *)
(* the runs that recall and record them, each on a connection of its own,  *)
(* and the operator who deletes, recreates and moves the account, erases   *)
(* memory and backfills what older releases wrote.                         *)
(*                                                                         *)
(* Every statement is its own transaction; embeddings, which only rank     *)
(* what a search returns, are left out.                                    *)
(***************************************************************************)
EXTENDS Naturals, FiniteSets

CONSTANTS
    MemoryRuns,     \* runs of this user
    Orgs, Facts,
    TopK,           \* how many rows a search returns at most
    MaxEpisodes,    \* BESTTEAM_MEMORY_MAX_EPISODIC_PER_USER
    MaxAccounts,    \* bound: accounts that have this username, one after the other
    MaxMemories,    \* bound: rows ever written
    MaxErasures,    \* bound: requests of the operator
    MaxSlips        \* bound: failed writes, and deletions run without the memory database

ASSUME MemoryAssumption ==
    /\ {TopK, MaxEpisodes, MaxAccounts, MaxMemories, MaxErasures} \subseteq Nat \ {0}
    /\ MaxSlips \in Nat

VARIABLES
    account,    \* the User row: [exists, principal, org]
    memories,   \* the memories table; ids grow with created_at
    retired,    \* retired_principals
    recorder,   \* MemoryManager of each run, with what its extraction decided
    errand,     \* the operator's request, between its two commits
    written, erasures, slips,
    unpurged    \* history: an account was deleted without its memory

memoryVars == <<account, memories, retired, recorder, errand, written, erasures, slips, unpurged>>

Kinds == {"episodic", "semantic", "procedural"}
Principals == 0..MaxAccounts        \* 0 is NULL
NoOrg == "none"
NoFact == "none"

\* author and pre (written before organisations and principals existed) are history
Memories == [id : 1..MaxMemories, org : Orgs \cup {NoOrg}, principal : Principals,
             kind : Kinds, fact : Facts \cup {NoFact}, author : Principals, pre : BOOLEAN]

Recorders ==
    [pc : {"none", "recall", "episode", "prune", "extract", "store", "supersede", "note", "ended"},
     org : Orgs, principal : 1..MaxAccounts, fact : Facts \cup {NoFact}, replaces : 0..MaxMemories]

Recorder(pc, who) == [pc |-> pc, org |-> who.org, principal |-> who.principal,
                      fact |-> NoFact, replaces |-> 0]
Errand(pc) == [pc |-> pc, org |-> NoOrg, principal |-> 0]

\* A store of an older release has one fact, with neither organisation nor principal.
MemoryInit ==
    /\ account \in [exists : {TRUE}, principal : {1}, org : Orgs]
    /\ \E f \in Facts : memories = {[id |-> 1, org |-> NoOrg, principal |-> 0, kind |-> "semantic",
                                    fact |-> f, author |-> 1, pre |-> TRUE]}
    /\ retired = {} /\ written = 1 /\ erasures = 0 /\ slips = 0 /\ unpurged = FALSE
    /\ recorder = [r \in MemoryRuns |-> Recorder("none", account)]
    /\ errand = Errand("idle")

MemoryTypeOK ==
    /\ account \in [exists : BOOLEAN, principal : 1..MaxAccounts, org : Orgs]
    /\ memories \subseteq Memories /\ \A x, y \in memories : x.id = y.id => x = y
    /\ retired \subseteq 1..MaxAccounts
    /\ recorder \in [MemoryRuns -> Recorders]
    /\ errand.pc \in {"idle", "purged", "moving", "backfill"}
    /\ erasures \in 0..MaxErasures /\ slips \in 0..MaxSlips

Slip == slips < MaxSlips /\ slips' = slips + 1

----------------------------------------------------------------------------
(* The store.                                                              *)

\* Faulty: scoped by the organisation only.
VisibleToName(r, kinds) == {x \in memories : x.org = recorder[r].org /\ x.kind \in kinds}

\* _candidates: the rows a run may be shown.
Visible(r, kinds) ==
    {x \in memories : x.org = recorder[r].org /\ x.principal = recorder[r].principal /\ x.kind \in kinds}

\* add: the fence is a condition of the INSERT itself.
Fenced(r) == recorder[r].principal \in retired

\* Faulty: no fence.
InsertedUnfenced(r, kind, fact) ==
    memories \cup {[id |-> written + 1, org |-> recorder[r].org, principal |-> recorder[r].principal,
                    kind |-> kind, fact |-> fact, author |-> recorder[r].principal, pre |-> FALSE]}

Inserted(r, kind, fact) ==
    IF Fenced(r) THEN memories
    ELSE memories \cup {[id |-> written + 1, org |-> recorder[r].org, principal |-> recorder[r].principal,
                         kind |-> kind, fact |-> fact, author |-> recorder[r].principal, pre |-> FALSE]}

\* search: the best of the visible rows, by a ranking left open.
Found(r, kinds) == {rows \in SUBSET Visible(r, kinds) : Cardinality(rows) <= TopK}

\* _semantic_candidates, none when the search fails
SemanticCandidates(r) == Found(r, {"semantic"})

\* add_if_absent
InsertedIfAbsent(r, kind, fact) ==
    IF \E x \in Visible(r, {kind}) : x.fact = fact THEN memories ELSE Inserted(r, kind, fact)

\* prune_user_type
PrunedEpisodes(r) ==
    LET mine == Visible(r, {"episodic"})
    IN  memories \ {x \in mine : Cardinality({y \in mine : y.id > x.id}) >= MaxEpisodes}

----------------------------------------------------------------------------
(* A run.                                                                  *)

AtStep(r, pc) == recorder[r].pc = pc
Moves(r, pc) == recorder' = [recorder EXCEPT ![r].pc = pc]

\* _make_memory, with the account the launch authenticated
OpenMemory(r) ==
    /\ AtStep(r, "none") /\ account.exists
    /\ recorder' = [recorder EXCEPT ![r] = Recorder("recall", account)]
    /\ UNCHANGED <<account, memories, retired, errand, written, erasures, slips, unpurged>>

\* recall; what the answer says is the agent's
RecallMemory(r) ==
    /\ AtStep(r, "recall") /\ Moves(r, "episode")
    /\ UNCHANGED <<account, memories, retired, errand, written, erasures, slips, unpurged>>

\* An INSERT that adds what `rows` says, or raises and is reported.
Write(rows) ==
    \/ /\ memories' = rows
       /\ written' = written + (IF rows = memories THEN 0 ELSE 1) /\ written' <= MaxMemories
       /\ UNCHANGED slips
    \/ Slip /\ UNCHANGED <<memories, written>>

RecordEpisode(r) ==
    /\ AtStep(r, "episode") /\ Moves(r, "prune")
    /\ Write(Inserted(r, "episodic", NoFact))
    /\ UNCHANGED <<account, retired, errand, erasures, unpurged>>

PruneEpisodes(r) ==
    /\ AtStep(r, "prune") /\ Moves(r, "extract")
    /\ \/ memories' = PrunedEpisodes(r) /\ UNCHANGED slips
       \/ Slip /\ UNCHANGED memories
    /\ UNCHANGED <<account, retired, errand, written, erasures, unpurged>>

\* _extract_and_store, to the model's answer: at most one fact in this model.  An update of
\* an id that was not among the candidates is an add.
Extract(r) ==
    /\ AtStep(r, "extract")
    /\ \/ Moves(r, "note")          \* a noop, no JSON, or a failed candidate read
       \/ \E fact \in Facts, rows \in SemanticCandidates(r) : \E id \in {0} \cup {x.id : x \in rows} :
             recorder' = [recorder EXCEPT ![r].pc = "store", ![r].fact = fact, ![r].replaces = id]
    /\ UNCHANGED <<account, memories, retired, errand, written, erasures, slips, unpurged>>

\* The fact is stored, or was there (or is fenced); a failed write supersedes nothing, and
\* neither does an update with the content it replaces.
Supersedes(r, stored, failed) ==
    /\ recorder[r].replaces # 0 /\ ~failed
    /\ stored \/ ~\E x \in memories : x.id = recorder[r].replaces /\ x.fact = recorder[r].fact

StoreFact(r) ==
    /\ AtStep(r, "store")
    /\ Write(InsertedIfAbsent(r, "semantic", recorder[r].fact))
    /\ Moves(r, IF Supersedes(r, memories' # memories, slips' # slips) THEN "supersede" ELSE "note")
    /\ UNCHANGED <<account, retired, errand, erasures, unpurged>>

SupersedeFact(r) ==
    /\ AtStep(r, "supersede") /\ Moves(r, "note")
    /\ \/ memories' = {x \in memories : x.id # recorder[r].replaces} /\ UNCHANGED slips
       \/ Slip /\ UNCHANGED memories
    /\ UNCHANGED <<account, retired, errand, written, erasures, unpurged>>

RecordNote(r) ==
    /\ AtStep(r, "note") /\ Moves(r, "ended")
    /\ \/ Write(InsertedIfAbsent(r, "procedural", NoFact))
       \/ UNCHANGED <<memories, written, slips>>
    /\ UNCHANGED <<account, retired, errand, erasures, unpurged>>

----------------------------------------------------------------------------
(* The operator, one request at a time.                                    *)

Request == errand.pc = "idle" /\ erasures < MaxErasures /\ erasures' = erasures + 1

\* purge_user_memory, before the account goes; without BESTTEAM_MEMORY_DB the command
\* deletes the account all the same, with a warning
PurgeAccount ==
    /\ Request /\ account.exists
    /\ \/ /\ retired' = retired \cup {account.principal} /\ memories' = {}
          /\ UNCHANGED <<slips, unpurged>>
       \/ Slip /\ unpurged' = TRUE /\ UNCHANGED <<retired, memories>>
    /\ errand' = Errand("purged")
    /\ UNCHANGED <<account, recorder, written>>

DropAccount ==
    /\ errand.pc = "purged" /\ errand' = Errand("idle")
    /\ account' = [account EXCEPT !.exists = FALSE]
    /\ UNCHANGED <<memories, retired, recorder, written, erasures, slips, unpurged>>

CreateAccount(org) ==
    /\ ~account.exists /\ errand.pc = "idle" /\ account.principal < MaxAccounts
    /\ account' = [exists |-> TRUE, principal |-> account.principal + 1, org |-> org]
    /\ UNCHANGED <<memories, retired, recorder, errand, written, erasures, slips, unpurged>>

\* reconcile_legacy_org, then set_user_org
ReconcileLegacy(dest) ==
    /\ Request /\ account.exists /\ dest # account.org
    /\ memories' = {IF x.org = NoOrg THEN [x EXCEPT !.org = account.org] ELSE x : x \in memories}
    /\ errand' = [Errand("moving") EXCEPT !.org = dest]
    /\ UNCHANGED <<account, retired, recorder, written, slips, unpurged>>

MoveAccount ==
    /\ errand.pc = "moving" /\ errand' = Errand("idle")
    /\ account' = [account EXCEPT !.org = errand.org]
    /\ UNCHANGED <<memories, retired, recorder, written, erasures, slips, unpurged>>

\* backfill-memory-principals reads the accounts, then assigns each one's rows
ReadAccounts ==
    /\ Request /\ account.exists
    /\ errand' = [pc |-> "backfill", org |-> account.org, principal |-> account.principal]
    /\ UNCHANGED <<account, memories, retired, recorder, written, slips, unpurged>>

AssignPrincipal ==
    /\ errand.pc = "backfill" /\ errand' = Errand("idle")
    /\ memories' = {IF x.principal = 0 /\ x.org = errand.org THEN [x EXCEPT !.principal = errand.principal] ELSE x :
                    x \in memories}
    /\ UNCHANGED <<account, retired, recorder, written, erasures, slips, unpurged>>

\* delete_record, clear_user_memory, clear_org_memory: of rows only, whatever runs go on
EraseMemory ==
    /\ Request
    /\ \/ \E x \in memories : memories' = memories \ {x}
       \/ memories' = {}
       \/ \E org \in Orgs :
             memories' = {x \in memories : x.org # org /\ ~(x.org = NoOrg /\ account.exists /\ account.org = org)}
    /\ UNCHANGED <<account, retired, recorder, errand, written, slips, unpurged>>

----------------------------------------------------------------------------
Remember(r) ==
    \/ OpenMemory(r) \/ RecallMemory(r) \/ RecordEpisode(r) \/ PruneEpisodes(r)
    \/ Extract(r) \/ StoreFact(r) \/ SupersedeFact(r) \/ RecordNote(r)

MemoryNext ==
    \/ \E r \in MemoryRuns : Remember(r)
    \/ PurgeAccount \/ DropAccount \/ ReadAccounts \/ AssignPrincipal \/ EraseMemory \/ MoveAccount
    \/ \E org \in Orgs : CreateAccount(org) \/ ReconcileLegacy(org)

MemorySpec == MemoryInit /\ [][MemoryNext]_memoryVars

\* Once an account is deleted nothing of it comes back: no row carries the principal of a
\* purged account, although its runs may still be recording, and another account may have
\* its username.
DeletedStaysDeleted == \A x \in memories : x.principal \notin retired

\* What a run recalls was written by its own account, in the organisation the account had
\* then.  The one exception the code allows: rows of an older release that survived their
\* account, deleted without its memory, are backfilled to its successor.
RecallIsOwn ==
    \A r \in MemoryRuns : AtStep(r, "recall") =>
        \A x \in Visible(r, Kinds) :
            x.author = recorder[r].principal \/ (x.pre /\ unpurged)
=============================================================================
