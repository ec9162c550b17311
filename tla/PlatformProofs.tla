---------------------------- MODULE PlatformProofs --------------------------
(***************************************************************************)
(* Theorems of UserMemory, Deployment, Ingestion and MailAftermath for     *)
(* every number of runs, accounts, facts, requests, drafts and jobs, every *)
(* set of designs and of uploads, every batch and number of retries; and   *)
(* of Platform, every behaviour of which is one of each of its components. *)
(***************************************************************************)
EXTENDS Platform, LoginProofs, FiniteSetTheorems, WellFoundedInduction, TLAPS

----------------------------------------------------------------------------
(* UserMemory.                                                             *)

\* The inductive invariant, by what each part is about.

\* What the steps keep beside the declared types: ids are given out in order, and a
\* request between its two commits has an organisation or a principal to go on with.
StepInv ==
    /\ written \in 0..MaxMemories /\ \A x \in memories : x.id <= written
    /\ errand.pc = "moving" => errand.org \in Orgs
    /\ unpurged \in BOOLEAN

\* Principals are retired in the order they were given out, the account's own only by
\* the request that is about to delete it; nothing is backfilled to another account.
RetiredInv ==
    /\ retired \subseteq 1..account.principal
    /\ account.exists /\ errand.pc # "purged" => account.principal \notin retired
    /\ errand.pc # "idle" => account.exists
    /\ errand.pc = "backfill" => errand.principal = account.principal

\* A row is its author's, unless it is older than principals; those have gone with the
\* first account, unless that was deleted without its memory.
AuthorInv ==
    \A x \in memories :
        /\ ~x.pre => x.principal = x.author /\ x.principal # 0
        /\ x.pre => /\ x.author = 1
                    /\ unpurged \/ (account.exists /\ account.principal = 1 /\ errand.pc # "purged")
                    /\ x.principal \in {0, 1} \/ unpurged

MemoryInv == MemoryTypeOK /\ StepInv /\ RetiredInv /\ AuthorInv /\ DeletedStaysDeleted

----------------------------------------------------------------------------
\* What a statement of a run does to the rows: it removes some, or adds one of the run's
\* own that carries a principal in use.

Shrinks == memories' \subseteq memories /\ written' = written

Adds(row) ==
    /\ memories' = memories \cup {row} /\ written' = written + 1
    /\ row \in Memories /\ row.id = written + 1
    /\ row.principal \in 1..MaxAccounts /\ row.principal \notin retired
    /\ row.author = row.principal /\ ~row.pre

\* An INSERT adds one row, or the fence, a duplicate or an error keeps it out.
LEMMA WriteAdds ==
    ASSUME MemoryTypeOK, StepInv, NEW r \in MemoryRuns, NEW kind \in Kinds,
           NEW fact \in Facts \cup {NoFact},
           Write(Inserted(r, kind, fact)) \/ Write(InsertedIfAbsent(r, kind, fact))
    PROVE  (Shrinks \/ \E row : Adds(row)) /\ slips' \in 0..MaxSlips
<1> DEFINE row == [id |-> written + 1, org |-> recorder[r].org, principal |-> recorder[r].principal,
                   kind |-> kind, fact |-> fact, author |-> recorder[r].principal, pre |-> FALSE]
<1>1. recorder[r].org \in Orgs /\ recorder[r].principal \in 1..MaxAccounts
  BY DEF MemoryTypeOK, Recorders
<1>2. row \notin memories
  BY DEF StepInv
<1>3. CASE Write(memories)
  BY <1>3, MemoryAssumption DEF Write, Slip, Shrinks, StepInv, MemoryTypeOK
<1>4. CASE ~Fenced(r) /\ Write(memories \cup {row})
  <2>1. CASE Slip /\ UNCHANGED <<memories, written>>
    BY <2>1, MemoryAssumption DEF Slip, Shrinks, MemoryTypeOK
  <2>2. CASE /\ memories' = memories \cup {row} /\ UNCHANGED slips
             /\ written' = written + 1 /\ written' <= MaxMemories
    <3>1. written + 1 \in 1..MaxMemories
      BY <2>2, MemoryAssumption DEF StepInv
    <3>2. row \in Memories
      BY <1>1, <3>1 DEF Memories, Principals
    <3>3. Adds(row)
      BY <1>1, <1>4, <2>2, <3>2 DEF Adds, Fenced
    <3> QED  BY <2>2, <3>3 DEF MemoryTypeOK
  <2>3. memories \cup {row} # memories
    BY <1>2
  <2> HIDE DEF row
  <2> QED  BY <1>4, <2>1, <2>2, <2>3 DEF Write
<1> QED  BY <1>3, <1>4 DEF Inserted, InsertedIfAbsent

----------------------------------------------------------------------------
\* Every step keeps the types.

----------------------------------------------------------------------------
\* Every step keeps the types, rows apart.

MachineOK ==
    /\ account \in [exists : BOOLEAN, principal : 1..MaxAccounts, org : Orgs]
    /\ retired \subseteq 1..MaxAccounts
    /\ recorder \in [MemoryRuns -> Recorders]
    /\ errand.pc \in {"idle", "purged", "moving", "backfill"}
    /\ erasures \in 0..MaxErasures /\ slips \in 0..MaxSlips
    /\ errand.pc = "moving" => errand.org \in Orgs
    /\ unpurged \in BOOLEAN

\* A step of a run moves its recorder, and may have a slip.
LEMMA RunTyped ==
    ASSUME MemoryInv, NEW r \in MemoryRuns, Remember(r)
    PROVE  MachineOK' /\ UNCHANGED <<account, retired, errand, erasures, unpurged>>
<1> USE DEF MemoryInv, MemoryTypeOK, StepInv
<1>1. \A x \in Recorders : [recorder EXCEPT ![r] = x] \in [MemoryRuns -> Recorders]
  OBVIOUS
<1>2. ASSUME NEW pc \in {"recall", "episode", "prune", "extract", "store", "supersede", "note", "ended"},
             Moves(r, pc)
      PROVE  recorder' \in [MemoryRuns -> Recorders]
  BY <1>2 DEF Moves, Recorders
<1>3. CASE OpenMemory(r)
  <2>1. Recorder("recall", account) \in Recorders
    BY MemoryAssumption DEF Recorder, Recorders
  <2> QED  BY <1>1, <1>3, <2>1 DEF OpenMemory, MachineOK
<1>4. CASE RecallMemory(r)
  BY <1>2, <1>4 DEF RecallMemory, MachineOK
<1>5. CASE RecordEpisode(r)
  BY <1>2, <1>5, WriteAdds DEF RecordEpisode, MachineOK, Kinds
<1>6. CASE PruneEpisodes(r)
  BY <1>2, <1>6, MemoryAssumption DEF PruneEpisodes, MachineOK, Slip
<1>7. CASE Extract(r)
  <2>1. CASE Moves(r, "note")
    BY <1>2, <1>7, <2>1 DEF Extract, MachineOK
  <2>2. ASSUME NEW fact \in Facts, NEW rows \in SemanticCandidates(r),
               NEW id \in {0} \cup {x.id : x \in rows},
               recorder' = [recorder EXCEPT ![r].pc = "store", ![r].fact = fact, ![r].replaces = id]
        PROVE  recorder' \in [MemoryRuns -> Recorders]
    <3>1. rows \subseteq memories
      BY DEF SemanticCandidates, Found, Visible
    <3>2. id \in 0..MaxMemories
      BY <3>1, MemoryAssumption DEF Memories
    <3> DEFINE x == [recorder[r] EXCEPT !.pc = "store", !.fact = fact, !.replaces = id]
    <3>3. recorder[r] \in Recorders
      OBVIOUS
    <3>4. x \in Recorders
      BY <3>2, <3>3 DEF Recorders
    <3>5. recorder' = [recorder EXCEPT ![r] = x]
      BY <2>2, <3>3 DEF Recorders
    <3> HIDE DEF x
    <3> QED  BY <1>1, <3>4, <3>5
  <2> QED  BY <1>7, <2>1, <2>2 DEF Extract, MachineOK
<1>8. CASE StoreFact(r)
  <2>1. recorder[r].fact \in Facts \cup {NoFact}
    BY DEF Recorders
  <2> QED  BY <1>2, <1>8, <2>1, WriteAdds DEF StoreFact, MachineOK, Kinds
<1>9. CASE SupersedeFact(r)
  BY <1>2, <1>9, MemoryAssumption DEF SupersedeFact, MachineOK, Slip
<1>10. CASE RecordNote(r)
  BY <1>2, <1>10, WriteAdds DEF RecordNote, MachineOK, Kinds
<1> QED
  BY <1>3, <1>4, <1>5, <1>6, <1>7, <1>8, <1>9, <1>10 DEF Remember

Administer ==
    \/ PurgeAccount \/ DropAccount \/ ReadAccounts \/ AssignPrincipal \/ EraseMemory \/ MoveAccount
    \/ \E org \in Orgs : CreateAccount(org) \/ ReconcileLegacy(org)

\* A step of the operator leaves the runs alone.
LEMMA OperatorTyped ==
    ASSUME MemoryInv, Administer
    PROVE  MachineOK' /\ UNCHANGED recorder
<1> USE MemoryAssumption DEF MemoryInv, MemoryTypeOK, StepInv, MachineOK, Request, Errand
<1>1. CASE PurgeAccount
  <2>1. account.principal \in 1..MaxAccounts /\ erasures' \in 0..MaxErasures
    BY <1>1 DEF PurgeAccount
  <2>2. retired' \subseteq 1..MaxAccounts /\ unpurged' \in BOOLEAN /\ slips' \in 0..MaxSlips
    <3>1. CASE retired' = retired \cup {account.principal} /\ UNCHANGED <<slips, unpurged>>
      BY <2>1, <3>1
    <3>2. CASE Slip /\ unpurged' = TRUE /\ UNCHANGED <<retired, memories>>
      BY <3>2 DEF Slip
    <3> QED  BY <1>1, <3>1, <3>2 DEF PurgeAccount
  <2> QED  BY <1>1, <2>1, <2>2 DEF PurgeAccount
<1>2. CASE DropAccount
  BY <1>2 DEF DropAccount
<1>3. CASE ReadAccounts
  BY <1>3 DEF ReadAccounts
<1>4. CASE AssignPrincipal
  BY <1>4 DEF AssignPrincipal
<1>5. CASE EraseMemory
  BY <1>5 DEF EraseMemory
<1>6. CASE MoveAccount
  BY <1>6 DEF MoveAccount
<1>7. ASSUME NEW org \in Orgs, CreateAccount(org)
      PROVE  MachineOK' /\ UNCHANGED recorder
  BY <1>7 DEF CreateAccount
<1>8. ASSUME NEW org \in Orgs, ReconcileLegacy(org)
      PROVE  MachineOK' /\ UNCHANGED recorder
  BY <1>8 DEF ReconcileLegacy
<1> QED
  BY <1>1, <1>2, <1>3, <1>4, <1>5, <1>6, <1>7, <1>8 DEF Administer

----------------------------------------------------------------------------
\* What a step does to the rows: besides removing some or adding one, the operator may
\* give rows of an older release their organisation, or their principal.

Reconciles == \E dest \in Orgs : ReconcileLegacy(dest)

LEMMA RunRows ==
    ASSUME MemoryInv, NEW r \in MemoryRuns, Remember(r)
    PROVE  Shrinks \/ \E row : Adds(row)
<1> USE DEF MemoryInv
<1>1. CASE OpenMemory(r) \/ RecallMemory(r) \/ Extract(r)
  BY <1>1 DEF OpenMemory, RecallMemory, Extract, Shrinks
<1>2. CASE RecordEpisode(r)
  BY <1>2, WriteAdds DEF RecordEpisode, Kinds
<1>3. CASE PruneEpisodes(r)
  <2>1. PrunedEpisodes(r) \subseteq memories
    BY DEF PrunedEpisodes
  <2> QED  BY <1>3, <2>1 DEF PruneEpisodes, Shrinks
<1>4. CASE StoreFact(r)
  <2>1. recorder[r].fact \in Facts \cup {NoFact}
    BY DEF MemoryTypeOK, Recorders
  <2> QED  BY <1>4, <2>1, WriteAdds DEF StoreFact, Kinds
<1>5. CASE SupersedeFact(r)
  BY <1>5 DEF SupersedeFact, Shrinks
<1>6. CASE RecordNote(r)
  BY <1>6, WriteAdds DEF RecordNote, Kinds, Shrinks
<1> QED  BY <1>1, <1>2, <1>3, <1>4, <1>5, <1>6 DEF Remember

LEMMA OperatorRows ==
    ASSUME MemoryInv, Administer
    PROVE  Shrinks \/ Reconciles \/ AssignPrincipal
<1>1. CASE PurgeAccount \/ DropAccount \/ ReadAccounts \/ MoveAccount
  BY <1>1 DEF PurgeAccount, DropAccount, ReadAccounts, MoveAccount, Shrinks
<1>2. CASE EraseMemory
  BY <1>2 DEF EraseMemory, Shrinks
<1>3. CASE \E org \in Orgs : CreateAccount(org)
  BY <1>3 DEF CreateAccount, Shrinks
<1> QED  BY <1>1, <1>2, <1>3 DEF Administer, Reconciles

\* Whatever is done to them, rows stay rows, one for each id.
LEMMA RowsTyped ==
    ASSUME MemoryInv, Shrinks \/ (\E row : Adds(row)) \/ Reconciles \/ AssignPrincipal
    PROVE  /\ memories' \subseteq Memories
           /\ \A x, y \in memories' : x.id = y.id => x = y
           /\ written' \in 0..MaxMemories /\ \A x \in memories' : x.id <= written'
<1> USE MemoryAssumption DEF MemoryInv, MemoryTypeOK, StepInv
<1>1. CASE Shrinks
  BY <1>1 DEF Shrinks
<1>2. ASSUME NEW row, Adds(row)
      PROVE  /\ memories' \subseteq Memories
             /\ \A x, y \in memories' : x.id = y.id => x = y
             /\ written' \in 0..MaxMemories /\ \A x \in memories' : x.id <= written'
  <2>1. row.id \in 1..MaxMemories /\ \A x \in memories : x.id \in 1..MaxMemories
    BY <1>2 DEF Adds, Memories
  <2> QED  BY <1>2, <2>1 DEF Adds
<1>3. CASE Reconciles
  <2> DEFINE filed(x) == IF x.org = NoOrg THEN [x EXCEPT !.org = account.org] ELSE x
  <2>1. memories' = {filed(x) : x \in memories} /\ written' = written
    BY <1>3 DEF Reconciles, ReconcileLegacy
  <2>2. \A x \in memories : filed(x) \in Memories /\ filed(x).id = x.id
    BY DEF Memories
  <2> HIDE DEF filed
  <2> QED  BY <2>1, <2>2
<1>4. CASE AssignPrincipal
  <2> DEFINE filed(x) == IF x.principal = 0 /\ x.org = errand.org
                         THEN [x EXCEPT !.principal = errand.principal] ELSE x
  <2>1. memories' = {filed(x) : x \in memories} /\ written' = written
    BY <1>4 DEF AssignPrincipal
  <2>2. errand.principal = account.principal /\ account.principal \in Principals
    BY <1>4 DEF AssignPrincipal, RetiredInv, Principals
  <2>3. \A x \in memories : filed(x) \in Memories /\ filed(x).id = x.id
    BY <2>2 DEF Memories
  <2> HIDE DEF filed
  <2> QED  BY <2>1, <2>3
<1> QED  BY <1>1, <1>2, <1>3, <1>4

\* Every step keeps the types.
LEMMA TypeStep ==
    ASSUME MemoryInv, MemoryNext
    PROVE  MemoryTypeOK' /\ StepInv'
<1>1. CASE \E r \in MemoryRuns : Remember(r)
  BY <1>1, RunTyped, RunRows, RowsTyped DEF MachineOK, MemoryTypeOK, StepInv
<1>2. CASE Administer
  BY <1>2, OperatorTyped, OperatorRows, RowsTyped DEF MachineOK, MemoryTypeOK, StepInv
<1> QED  BY <1>1, <1>2 DEF MemoryNext, Administer

----------------------------------------------------------------------------
\* Every step keeps the fence and the authors.

\* A principal is retired while its account exists, and the next account has another.
LEMMA RetiredStep ==
    ASSUME MemoryInv, MemoryNext
    PROVE  RetiredInv'
<1>1. ASSUME NEW r \in MemoryRuns, Remember(r)
      PROVE  RetiredInv'
  <2>1. UNCHANGED <<account, retired, errand>>
    BY <1>1, RunTyped
  <2> QED  BY <2>1 DEF MemoryInv, RetiredInv
<1> USE MemoryAssumption DEF MemoryInv, MemoryTypeOK, RetiredInv, Request, Errand
<1>2. CASE PurgeAccount
  <2>1. retired' \subseteq retired \cup {account.principal} /\ UNCHANGED account
    BY <1>2 DEF PurgeAccount
  <2>2. errand'.pc = "purged" /\ account.exists
    BY <1>2 DEF PurgeAccount
  <2>3. account.principal \in 1..account.principal
    OBVIOUS
  <2> QED  BY <2>1, <2>2, <2>3
<1>3. CASE DropAccount
  BY <1>3 DEF DropAccount
<1>4. CASE ReadAccounts
  BY <1>4 DEF ReadAccounts
<1>5. CASE AssignPrincipal
  BY <1>5 DEF AssignPrincipal
<1>6. CASE EraseMemory
  BY <1>6 DEF EraseMemory
<1>7. CASE MoveAccount
  BY <1>7 DEF MoveAccount
<1>8. ASSUME NEW org \in Orgs, CreateAccount(org)
      PROVE  RetiredInv'
  BY <1>8 DEF CreateAccount
<1>9. ASSUME NEW org \in Orgs, ReconcileLegacy(org)
      PROVE  RetiredInv'
  BY <1>9 DEF ReconcileLegacy
<1> QED
  BY <1>1, <1>2, <1>3, <1>4, <1>5, <1>6, <1>7, <1>8, <1>9 DEF MemoryNext

\* No step revives a row of a retired principal.  A run carries the principal its launch
\* found, so what keeps its row out is the fence; a backfill carries the account's own,
\* which is not retired while the request is on.
LEMMA DeletedStep ==
    ASSUME MemoryInv, MemoryNext
    PROVE  DeletedStaysDeleted'
<1>1. ASSUME NEW r \in MemoryRuns, Remember(r)
      PROVE  DeletedStaysDeleted'
  <2>1. UNCHANGED retired
    BY <1>1, RunTyped
  <2>2. CASE Shrinks
    BY <2>1, <2>2 DEF Shrinks, MemoryInv, DeletedStaysDeleted
  <2>3. ASSUME NEW row, Adds(row)
        PROVE  DeletedStaysDeleted'
    BY <2>1, <2>3 DEF Adds, MemoryInv, DeletedStaysDeleted
  <2> QED  BY <1>1, <2>2, <2>3, RunRows
<1>2. CASE PurgeAccount
  BY <1>2 DEF PurgeAccount, MemoryInv, DeletedStaysDeleted
<1>3. CASE DropAccount \/ ReadAccounts \/ MoveAccount \/ \E org \in Orgs : CreateAccount(org)
  BY <1>3 DEF DropAccount, ReadAccounts, MoveAccount, CreateAccount, MemoryInv, DeletedStaysDeleted
<1>4. CASE EraseMemory
  BY <1>4 DEF EraseMemory, MemoryInv, DeletedStaysDeleted
<1>5. ASSUME NEW org \in Orgs, ReconcileLegacy(org)
      PROVE  DeletedStaysDeleted'
  <2> DEFINE filed(x) == IF x.org = NoOrg THEN [x EXCEPT !.org = account.org] ELSE x
  <2>1. memories' = {filed(x) : x \in memories} /\ UNCHANGED retired
    BY <1>5 DEF ReconcileLegacy
  <2>2. \A x \in memories : filed(x).principal = x.principal
    BY DEF MemoryInv, MemoryTypeOK, Memories
  <2> HIDE DEF filed
  <2> QED  BY <2>1, <2>2 DEF MemoryInv, DeletedStaysDeleted
<1>6. CASE AssignPrincipal
  <2>1. errand.principal \notin retired /\ UNCHANGED retired
    BY <1>6 DEF AssignPrincipal, MemoryInv, RetiredInv
  <2>2. \A x \in Memories : [x EXCEPT !.principal = errand.principal].principal = errand.principal
    BY DEF Memories
  <2> QED  BY <1>6, <2>1, <2>2 DEF AssignPrincipal, MemoryInv, MemoryTypeOK, DeletedStaysDeleted
<1> QED
  BY <1>1, <1>2, <1>3, <1>4, <1>5, <1>6 DEF MemoryNext

\* A step keeps every row its author's: a run writes its own, and rows without an author
\* that outlive the first account make the exception of the invariant.
LEMMA AuthorStep ==
    ASSUME MemoryInv, MemoryNext
    PROVE  AuthorInv'
<1>1. ASSUME NEW r \in MemoryRuns, Remember(r)
      PROVE  AuthorInv'
  <2>1. UNCHANGED <<account, errand, unpurged>>
    BY <1>1, RunTyped
  <2>2. CASE Shrinks
    BY <2>1, <2>2 DEF Shrinks, MemoryInv, AuthorInv
  <2>3. ASSUME NEW row, Adds(row)
        PROVE  AuthorInv'
    <3>1. row.principal # 0 /\ row.principal = row.author /\ ~row.pre
      BY <2>3, MemoryAssumption DEF Adds
    <3> QED  BY <2>1, <2>3, <3>1 DEF Adds, MemoryInv, AuthorInv
  <2> QED  BY <1>1, <2>2, <2>3, RunRows
<1>2. CASE PurgeAccount
  BY <1>2 DEF PurgeAccount, MemoryInv, AuthorInv
<1>3. CASE DropAccount
  BY <1>3 DEF DropAccount, MemoryInv, AuthorInv
<1>4. CASE ReadAccounts
  BY <1>4 DEF ReadAccounts, Request, MemoryInv, AuthorInv
<1>5. CASE MoveAccount
  BY <1>5 DEF MoveAccount, Errand, MemoryInv, MemoryTypeOK, AuthorInv
<1>6. ASSUME NEW org \in Orgs, CreateAccount(org)
      PROVE  AuthorInv'
  BY <1>6 DEF CreateAccount, MemoryInv, AuthorInv
<1>7. CASE EraseMemory
  BY <1>7 DEF EraseMemory, MemoryInv, AuthorInv
<1>8. ASSUME NEW org \in Orgs, ReconcileLegacy(org)
      PROVE  AuthorInv'
  <2> DEFINE filed(x) == IF x.org = NoOrg THEN [x EXCEPT !.org = account.org] ELSE x
  <2>1. memories' = {filed(x) : x \in memories} /\ UNCHANGED <<account, unpurged>> /\ errand'.pc = "moving"
    BY <1>8 DEF ReconcileLegacy, Errand
  <2>2. \A x \in memories : filed(x).principal = x.principal /\ filed(x).author = x.author /\ filed(x).pre = x.pre
    BY DEF MemoryInv, MemoryTypeOK, Memories
  <2> HIDE DEF filed
  <2> QED  BY <2>1, <2>2 DEF MemoryInv, AuthorInv
<1>9. CASE AssignPrincipal
  <2> DEFINE filed(x) == IF x.principal = 0 /\ x.org = errand.org
                         THEN [x EXCEPT !.principal = errand.principal] ELSE x
  <2>1. memories' = {filed(x) : x \in memories} /\ UNCHANGED <<account, unpurged>> /\ errand'.pc = "idle"
    BY <1>9 DEF AssignPrincipal, Errand
  <2>2. errand.principal = account.principal
    BY <1>9 DEF AssignPrincipal, MemoryInv, RetiredInv
  <2>3. \A x \in memories :
          /\ filed(x).author = x.author /\ filed(x).pre = x.pre
          /\ filed(x).principal = x.principal \/ (x.principal = 0 /\ filed(x).principal = account.principal)
    BY <2>2 DEF MemoryInv, MemoryTypeOK, Memories
  <2> HIDE DEF filed
  <2> QED  BY <1>9, <2>1, <2>3 DEF MemoryInv, AuthorInv
<1> QED
  BY <1>1, <1>2, <1>3, <1>4, <1>5, <1>6, <1>7, <1>8, <1>9 DEF MemoryNext

----------------------------------------------------------------------------
\* The theorems.

LEMMA MemoryInitInv == MemoryInit => MemoryInv
<1> SUFFICES ASSUME MemoryInit PROVE MemoryInv
  OBVIOUS
<1> USE MemoryAssumption DEF MemoryInit
<1>0. 1 \in 1..MaxAccounts /\ 1 \in 0..MaxMemories
  OBVIOUS
<1>1. account.exists /\ account.principal = 1 /\ account \in [exists : BOOLEAN, principal : 1..MaxAccounts, org : Orgs]
  BY <1>0
<1>2. PICK f \in Facts : memories = {[id |-> 1, org |-> NoOrg, principal |-> 0, kind |-> "semantic",
                                       fact |-> f, author |-> 1, pre |-> TRUE]}
  OBVIOUS
<1>3. memories \subseteq Memories
  BY <1>2 DEF Memories, Principals, Kinds
<1>4. Recorder("none", account) \in Recorders
  BY <1>1 DEF Recorder, Recorders
<1>5. MemoryTypeOK
  BY <1>1, <1>2, <1>3, <1>4 DEF MemoryTypeOK, Errand
<1>6. StepInv /\ RetiredInv
  <2>1. StepInv
    <3>1. \A x \in memories : x.id <= written
      BY <1>2
    <3>2. written \in 0..MaxMemories /\ errand.pc = "idle"
      BY <1>0 DEF Errand
    <3>3. unpurged \in BOOLEAN
      OBVIOUS
    <3> QED  BY <3>1, <3>2, <3>3 DEF StepInv
  <2>2. RetiredInv
    BY <1>1 DEF RetiredInv, Errand
  <2> QED  BY <2>1, <2>2
<1>7. AuthorInv /\ DeletedStaysDeleted
  BY <1>1, <1>2 DEF AuthorInv, DeletedStaysDeleted, Errand
<1> QED  BY <1>5, <1>6, <1>7 DEF MemoryInv

LEMMA MemoryStutter ==
    ASSUME MemoryInv, UNCHANGED memoryVars
    PROVE  MemoryInv'
  BY DEF memoryVars, MemoryInv, MemoryTypeOK, StepInv, RetiredInv, AuthorInv, DeletedStaysDeleted

\* The inductive invariant holds: the memory component is a closed system whose every step
\* keeps types, fence and authors.
THEOREM MemoryInvariance == MemorySpec => []MemoryInv
<1>1. MemoryInit => MemoryInv
  BY MemoryInitInv
<1>2. MemoryInv /\ [MemoryNext]_memoryVars => MemoryInv'
  BY TypeStep, RetiredStep, DeletedStep, AuthorStep, MemoryStutter DEF MemoryInv
<1> QED  BY <1>1, <1>2, PTL DEF MemorySpec

\* Rows, recorders, the account and the operator's request keep their types, and no two
\* rows have one id.
THEOREM MemoryTypeCorrect == MemorySpec => []MemoryTypeOK
<1>1. MemoryInv => MemoryTypeOK
  BY DEF MemoryInv
<1> QED  BY <1>1, MemoryInvariance, PTL

\* Nothing of a purged account comes back, however its runs, the operator's requests and
\* the successors of its username interleave (memory.py: the fence in add, retired_principals).
THEOREM DeletedStaysDeletedHolds == MemorySpec => []DeletedStaysDeleted
<1>1. MemoryInv => DeletedStaysDeleted
  BY DEF MemoryInv
<1> QED  BY <1>1, MemoryInvariance, PTL

\* A run recalls only what its own account wrote, but for rows that outlived an account
\* deleted without its memory (memory.py: _candidates; admin.py: backfill-memory-principals).
THEOREM RecallIsOwnHolds == MemorySpec => []RecallIsOwn
<1>1. ASSUME MemoryInv PROVE RecallIsOwn
  <2> SUFFICES ASSUME NEW r \in MemoryRuns, NEW x \in Visible(r, Kinds)
               PROVE  x.author = recorder[r].principal \/ (x.pre /\ unpurged)
    BY DEF RecallIsOwn
  <2>1. x \in memories /\ x.principal = recorder[r].principal
    BY DEF Visible
  <2>2. recorder[r].principal # 0
    BY <1>1, MemoryAssumption DEF MemoryInv, MemoryTypeOK, Recorders
  <2> QED  BY <1>1, <2>1, <2>2 DEF MemoryInv, AuthorInv
<1> QED  BY <1>1, MemoryInvariance, PTL

----------------------------------------------------------------------------
(* Deployment.                                                             *)

\* The inductive invariant, by what each part is about.

\* Who is ready has the lock, and what made the request acceptable is still so: nothing a
\* check looked at changes while its request waits to commit.
Stands(q) ==
    /\ q.act \in {"publish_team", "go_live"} => Builds(Resolved(q.design))
    /\ q.act = "drop_skill" => ~(team.exists /\ team.version.pin = q.tier)
    /\ q.act = "drop_base" => ~(team.exists /\ team.version.design.base)

LockInv ==
    \A c \in Changes :
        LET q == change[c] IN
        /\ q.pc # "idle" => q.act # "none"
        /\ q.pc = "ready" => mutex = c
        /\ q.pc = "ready" => Stands(q)

\* What a visitor's request read had no email tool, and it is what it compiles.
VisitInv == "mail" \notin Tools(visit)

DeploymentInv == DeploymentTypeOK /\ LockInv /\ VisitInv /\ PublishedTeamBuilds /\ VisitorsReadNoMail

----------------------------------------------------------------------------
\* What a version is made of.

\* Publishing a design now makes a version.
LEMMA ResolvedTyped ==
    ASSUME DeploymentTypeOK, NEW d \in Design
    PROVE  Resolved(d) \in Version /\ Resolved(d).design = d
<1>1. Seen \in Tiers \cup {"none"}
  BY DEF Seen, Tiers
<1>2. GrantsSeen \in Grants
  BY <1>1 DEF DeploymentTypeOK, GrantsSeen, Grants, Tiers
<1> QED  BY <1>1, <1>2 DEF Resolved, Version, Grants

LEMMA NothingTyped ==
    /\ NoDesign \in Design /\ NoVersion \in Version /\ NoSession \in Sessions /\ NoChange.pc = "idle"
    /\ NoDraft \in [stage : Stages \cup {"none"}, spec : Design]
    /\ Tools(NoVersion) = {}
<1>1. NoDesign \in Design
  BY DEF NoDesign, Design
<1>2. NoVersion \in Version
  BY <1>1 DEF NoVersion, Version, Grants
<1>3. NoSession \in Sessions
  BY <1>1 DEF NoSession, Sessions, Stages
<1>4. Tools(NoVersion) = {}
  BY DEF Tools, NoVersion, NoDesign
<1> QED  BY <1>1, <1>2, <1>3, <1>4 DEF NoChange, NoDraft

LEMMA NoChangeTyped == NoChange \in ChangeStates
  BY NothingTyped DEF NoChange, ChangeStates, Acts, Tiers, Grants

LEMMA ToolsTyped == ASSUME NEW v \in Version PROVE Tools(v) \in SUBSET {"mail", "web"}
  BY DEF Version, Design, Grants, Tools

----------------------------------------------------------------------------
\* Requests under the lock.

\* A request that moves to q, with everything else of the lock as it was.
LEMMA ChangeAdvances ==
    ASSUME DeploymentInv, NEW c \in Changes, NEW q \in ChangeStates,
           change' = [change EXCEPT ![c] = q], q.pc # "idle" => q.act # "none",
           UNCHANGED <<skillRow, baseRow, team, session, draft, link, visit, running, recorded>>,
           \/ q.pc # "ready" /\ change[c].pc # "ready" /\ UNCHANGED mutex
           \/ q.pc = "ready" /\ Stands(q) /\ mutex = "free" /\ mutex' = c
    PROVE  DeploymentInv'
<1>1. \A b \in Changes : change'[b] = IF b = c THEN q ELSE change[b]
  BY DEF DeploymentInv, DeploymentTypeOK
<1>2. DeploymentTypeOK'
  BY <1>1 DEF DeploymentInv, DeploymentTypeOK
<1>3. LockInv'
  <2>1. \A b \in Changes : b # c /\ change[b].pc = "ready" => mutex = b /\ mutex # "free"
    BY DeploymentAssumption DEF DeploymentInv, LockInv
  <2>2. \A r : Stands(r)' <=> Stands(r)
    BY DEF Stands, Builds, Resolved, Seen, GrantsSeen
  <2> QED  BY <1>1, <2>1, <2>2 DEF DeploymentInv, LockInv
<1>4. VisitInv' /\ PublishedTeamBuilds' /\ VisitorsReadNoMail'
  BY DEF DeploymentInv, VisitInv, PublishedTeamBuilds, VisitorsReadNoMail, Builds
<1> QED  BY <1>2, <1>3, <1>4 DEF DeploymentInv

LEMMA AskStep ==
    ASSUME DeploymentInv, NEW c \in Changes, AskChange(c)
    PROVE  DeploymentInv'
<1>1. PICK act \in Acts \ {"none"}, d \in Designs, k \in Tiers, g \in Grants :
        /\ act = "go_live" => session.exists /\ session.has /\ d = session.spec
        /\ act \notin {"go_live", "publish_team"} => d = CHOOSE e \in Designs : TRUE
        /\ act \notin {"publish_skill", "drop_skill"} => k = "own"
        /\ act # "publish_skill" => g = "nothing"
        /\ change' = [change EXCEPT ![c] = [pc |-> "asked", act |-> act, design |-> d, tier |-> k, grants |-> g]]
  BY DEF AskChange
<1> DEFINE q == [pc |-> "asked", act |-> act, design |-> d, tier |-> k, grants |-> g]
<1>2. q \in ChangeStates /\ q.pc = "asked" /\ q.act # "none"
  BY DeploymentAssumption DEF ChangeStates
<1> HIDE DEF q
<1>3. change' = [change EXCEPT ![c] = q]
  BY <1>1 DEF q
<1> QED  BY <1>2, <1>3, ChangeAdvances DEF AskChange

\* What the handler checks is what has to stand until it commits.
LEMMA CheckStep ==
    ASSUME DeploymentInv, NEW c \in Changes, CheckChange(c)
    PROVE  DeploymentInv'
<1>1. change[c] \in ChangeStates /\ change[c].pc = "asked" /\ change[c].act # "none" /\ mutex = "free"
  BY DEF CheckChange, MutexFree, DeploymentInv, DeploymentTypeOK, LockInv
<1>2. CASE change' = [change EXCEPT ![c] = NoChange] /\ UNCHANGED mutex
  BY <1>1, <1>2, ChangeAdvances, NoChangeTyped, NothingTyped DEF CheckChange
<1>3. CASE Accepted(change[c]) /\ mutex' = c /\ change' = [change EXCEPT ![c].pc = "ready"]
  <2> DEFINE q == [change[c] EXCEPT !.pc = "ready"]
  <2>1. /\ q \in ChangeStates /\ q.pc = "ready" /\ q.act = change[c].act
        /\ q.design = change[c].design /\ q.tier = change[c].tier
    BY <1>1 DEF ChangeStates
  <2>2. change' = [change EXCEPT ![c] = q]
    BY <1>1, <1>3 DEF ChangeStates
  <2> HIDE DEF q
  <2>3. Stands(q)
    <3>1. q.act \in {"publish_team", "go_live"} => Builds(Resolved(q.design))
      BY <1>3, <2>1 DEF Accepted
    <3>2. q.act = "drop_skill" => ~(team.exists /\ team.version.pin = q.tier)
      BY <1>3, <2>1 DEF Accepted
    <3>3. q.act = "drop_base" => ~(team.exists /\ team.version.design.base)
      BY <1>3, <2>1 DEF Accepted
    <3> QED  BY <3>1, <3>2, <3>3 DEF Stands
  <2> QED  BY <1>1, <1>3, <2>1, <2>2, <2>3, ChangeAdvances DEF CheckChange
<1> QED  BY <1>2, <1>3 DEF CheckChange

\* A commit gives the lock back, and only it was ready.
LEMMA CommitFrees ==
    ASSUME DeploymentInv, NEW c \in Changes, CommitChange(c)
    PROVE  /\ change' \in [Changes -> ChangeStates] /\ mutex' = "free"
           /\ LockInv' /\ VisitInv' /\ VisitorsReadNoMail'
           /\ UNCHANGED <<draft, visit, running, recorded>>
<1>1. change[c].pc = "ready" /\ mutex' = "free" /\ change' = [change EXCEPT ![c] = NoChange]
  BY DEF CommitChange
<1>2. UNCHANGED <<draft, visit, running, recorded>>
  BY DEF CommitChange
<1>3. change' \in [Changes -> ChangeStates] /\ \A b \in Changes : change'[b] = IF b = c THEN NoChange ELSE change[b]
  BY <1>1, NoChangeTyped DEF DeploymentInv, DeploymentTypeOK
<1>4. \A b \in Changes : change[b].pc = "ready" => b = c
  BY <1>1 DEF DeploymentInv, LockInv
<1>5. \A b \in Changes : change'[b].pc # "ready" /\ (change'[b].pc # "idle" => change'[b].act # "none")
  BY <1>3, <1>4, NothingTyped DEF DeploymentInv, LockInv
<1>6. LockInv'
  BY <1>5 DEF LockInv
<1>7. VisitInv' /\ VisitorsReadNoMail'
  BY <1>2 DEF DeploymentInv, VisitInv, VisitorsReadNoMail
<1> QED  BY <1>1, <1>2, <1>3, <1>6, <1>7

\* What a commit writes to the team, the resources and the session.
ResourcesOK ==
    /\ skillRow \in [Tiers -> [exists : BOOLEAN, grants : Grants]] /\ baseRow \in BOOLEAN
    /\ team \in [exists : BOOLEAN, active : BOOLEAN, version : Version]
    /\ session \in Sessions
    /\ session.live => session.exists /\ team.exists
    /\ link \in {"none", "minting", "active", "revoked"}
    /\ PublishedTeamBuilds

\* A version that is published was resolved under the lock that checked it.
LEMMA PublishStep ==
    ASSUME DeploymentInv, NEW q \in ChangeStates, PublishTeam(q), Builds(Resolved(q.design)),
           session' \in Sessions, session'.live => session'.exists
    PROVE  ResourcesOK'
<1>1. q.design \in Design
  BY DEF ChangeStates
<1>2. Resolved(q.design) \in Version
  BY <1>1, ResolvedTyped DEF DeploymentInv
<1>3. team' \in [exists : BOOLEAN, active : BOOLEAN, version : Version]
  BY <1>2 DEF PublishTeam, DeploymentInv, DeploymentTypeOK
<1>4. team'.exists /\ team'.version = Resolved(q.design) /\ UNCHANGED <<skillRow, baseRow, link>>
  BY <1>2 DEF PublishTeam, DeploymentInv, DeploymentTypeOK
<1>5. PublishedTeamBuilds'
  BY <1>4 DEF PublishedTeamBuilds, Builds
<1> QED  BY <1>3, <1>4, <1>5 DEF ResourcesOK, DeploymentInv, DeploymentTypeOK

LEMMA CommitWrites ==
    ASSUME DeploymentInv, NEW c \in Changes, CommitChange(c)
    PROVE  ResourcesOK'
<1> DEFINE q == change[c]
<1>1. q \in ChangeStates /\ q.pc = "ready" /\ Stands(q) /\ q.act # "none"
  BY DEF CommitChange, DeploymentInv, DeploymentTypeOK, LockInv
<1>2. ResourcesOK
  BY DEF DeploymentInv, DeploymentTypeOK, ResourcesOK
<1>3. team.version \in Version /\ Tiers = {"own", "shared"}
  BY DEF DeploymentInv, DeploymentTypeOK, Tiers
<1> HIDE DEF q
<1>4. CASE q.act = "publish_team" /\ PublishTeam(q) /\ UNCHANGED session
  <2>1. Builds(Resolved(q.design))
    BY <1>1, <1>4 DEF Stands
  <2> QED  BY <1>1, <1>2, <1>4, <2>1, PublishStep DEF ResourcesOK
<1>5. CASE /\ q.act = "go_live" /\ session.exists /\ PublishTeam(q)
           /\ session' = [session EXCEPT !.status = "deployed", !.live = TRUE]
  <2>1. Builds(Resolved(q.design))
    BY <1>1, <1>5 DEF Stands
  <2>2. session' \in Sessions /\ session'.exists
    BY <1>2, <1>5 DEF ResourcesOK, Sessions, Stages
  <2> QED  BY <1>1, <1>5, <2>1, <2>2, PublishStep
<1>6. CASE UNCHANGED <<team, skillRow, baseRow, link, session>>
  BY <1>2, <1>6 DEF ResourcesOK, PublishedTeamBuilds, Builds
<1>7. CASE DropTeam
  <2>1. /\ team' \in [exists : BOOLEAN, active : BOOLEAN, version : Version] /\ ~team'.exists
        /\ link' \in {"none", "minting", "active", "revoked"}
    BY <1>2, <1>7, NothingTyped DEF DropTeam, ResourcesOK
  <2>2. session' \in Sessions /\ ~session'.live
    BY <1>2, <1>7 DEF DropTeam, ResourcesOK, Sessions
  <2> QED  BY <1>2, <1>7, <2>1, <2>2 DEF DropTeam, ResourcesOK, PublishedTeamBuilds
<1>8. CASE /\ q.act \in {"publish_skill", "drop_skill"}
           /\ skillRow' = [skillRow EXCEPT ![q.tier] = [exists |-> q.act = "publish_skill", grants |-> q.grants]]
           /\ UNCHANGED <<team, baseRow, link, session>>
  <2>1. q.tier \in Tiers /\ q.grants \in Grants
    BY <1>1 DEF ChangeStates
  <2>2. skillRow' \in [Tiers -> [exists : BOOLEAN, grants : Grants]]
    BY <1>2, <1>8, <2>1 DEF ResourcesOK
  <2>3. \A k \in Tiers : skillRow'[k].exists \/ (k = q.tier /\ q.act = "drop_skill") \/ ~skillRow[k].exists
    <3> SUFFICES ASSUME NEW k \in Tiers
                 PROVE  skillRow'[k].exists \/ (k = q.tier /\ q.act = "drop_skill") \/ ~skillRow[k].exists
      OBVIOUS
    <3>1. CASE k # q.tier
      <4>1. skillRow'[k].exists = skillRow[k].exists /\ skillRow[k].exists \in BOOLEAN
        BY <1>2, <1>8, <2>1, <3>1 DEF ResourcesOK
      <4> QED  BY <4>1
    <3>2. CASE k = q.tier /\ q.act = "publish_skill"
      <4>1. skillRow'[k] = [exists |-> q.act = "publish_skill", grants |-> q.grants]
        BY <1>2, <1>8, <2>1, <3>2 DEF ResourcesOK
      <4>2. skillRow'[k].exists = (q.act = "publish_skill")
        BY <4>1
      <4> QED  BY <3>2, <4>2
    <3> QED  BY <1>8, <3>1, <3>2
  <2>4. PublishedTeamBuilds'
    <3> SUFFICES ASSUME team.exists, team.version.design.skill
                 PROVE  skillRow'[team.version.pin].exists
      BY <1>2, <1>8 DEF PublishedTeamBuilds, Builds, ResourcesOK
    <3>1. team.version.pin \in Tiers /\ skillRow[team.version.pin].exists
      BY <1>2, <1>3 DEF PublishedTeamBuilds, Builds, ResourcesOK, Version
    <3>2. q.act = "drop_skill" => team.version.pin # q.tier
      BY <1>1 DEF Stands
    <3> QED  BY <2>3, <3>1, <3>2
  <2> QED  BY <1>2, <1>8, <2>2, <2>4 DEF ResourcesOK
<1>9. CASE q.act = "drop_base" /\ baseRow' = FALSE /\ UNCHANGED <<team, skillRow, link, session>>
  <2>1. ~(team.exists /\ team.version.design.base)
    BY <1>1, <1>9 DEF Stands
  <2> QED  BY <1>2, <1>9, <2>1 DEF ResourcesOK, PublishedTeamBuilds, Builds
<1> QED
  BY <1>4, <1>5, <1>6, <1>7, <1>8, <1>9 DEF CommitChange, q

LEMMA CommitStep ==
    ASSUME DeploymentInv, NEW c \in Changes, CommitChange(c)
    PROVE  DeploymentInv'
  BY CommitFrees, CommitWrites DEF DeploymentInv, DeploymentTypeOK, ResourcesOK

----------------------------------------------------------------------------
\* The other requests leave the lock and what it guards alone.

\* Whoever has no lock may pause the team, and nothing else of it.
Untouched ==
    /\ UNCHANGED <<skillRow, baseRow, mutex, change>>
    /\ team'.exists = team.exists /\ team'.version = team.version
    /\ team' \in [exists : BOOLEAN, active : BOOLEAN, version : Version]

LEMMA UntouchedKeeps ==
    ASSUME DeploymentInv, Untouched
    PROVE  LockInv' /\ PublishedTeamBuilds'
<1>1. PublishedTeamBuilds'
  BY DEF Untouched, DeploymentInv, PublishedTeamBuilds, Builds
<1>2. \A q : Stands(q)' <=> Stands(q)
  BY DEF Untouched, Stands, Builds, Resolved, Seen, GrantsSeen
<1>3. LockInv'
  BY <1>2 DEF Untouched, DeploymentInv, LockInv
<1> QED  BY <1>1, <1>3

\* Requests of the builder.
Builder ==
    \/ \E stage \in {"requirements", "spec", "solution"} : StartDraft(stage)
    \/ OpenSession \/ FinishDraft \/ TestTeam \/ DiscardSession

LEMMA BuilderStep ==
    ASSUME DeploymentInv, Builder
    PROVE  DeploymentInv'
<1> DEFINE Drafts == [stage : Stages \cup {"none"}, spec : Design]
<1>1. UNCHANGED <<skillRow, baseRow, team, mutex, change, link, visit, running, recorded>>
  BY DEF Builder, StartDraft, OpenSession, FinishDraft, TestTeam, DiscardSession
<1>2. Untouched
  BY <1>1 DEF Untouched, DeploymentInv, DeploymentTypeOK
<1>3. VisitInv' /\ VisitorsReadNoMail'
  BY <1>1 DEF DeploymentInv, VisitInv, VisitorsReadNoMail
<1>4. session \in Sessions /\ draft \in Drafts /\ (session.live => session.exists /\ team.exists)
  BY DEF DeploymentInv, DeploymentTypeOK
<1>5. session' \in Sessions /\ draft' \in Drafts /\ (session'.live => session'.exists /\ team'.exists)
  <2>1. ASSUME NEW stage \in {"requirements", "spec", "solution"}, StartDraft(stage)
        PROVE  session' = session /\ draft' \in Drafts
    <3>1. UNCHANGED session /\ \E d \in Designs : draft' = [stage |-> stage, spec |-> d]
      BY <2>1 DEF StartDraft
    <3> QED  BY <3>1, DeploymentAssumption DEF Stages
  <2>2. CASE OpenSession
    <3>1. session' \in Sessions /\ ~session'.live
      BY <2>2, NothingTyped DEF OpenSession, NoSession, Sessions
    <3> QED  BY <1>4, <2>2, <3>1 DEF OpenSession
  <2>3. CASE FinishDraft
    <3>1. draft' \in Drafts
      BY <2>3, NothingTyped DEF FinishDraft
    <3>2. CASE session.exists /\ session' = [session EXCEPT !.status = "requirements"]
      BY <1>1, <1>4, <3>1, <3>2 DEF Sessions, Stages
    <3>3. CASE /\ session.exists /\ draft.stage # "none"
               /\ session' = [session EXCEPT !.status = draft.stage, !.spec = draft.spec, !.has = TRUE]
      BY <1>1, <1>4, <3>1, <3>3 DEF Sessions
    <3> QED  BY <1>1, <1>4, <2>3, <3>1, <3>2, <3>3 DEF FinishDraft
  <2>4. CASE TestTeam
    BY <1>1, <1>4, <2>4 DEF TestTeam, Sessions, Stages
  <2>5. CASE DiscardSession
    <3>1. session' \in Sessions /\ ~session'.live
      BY <2>5, NothingTyped DEF DiscardSession, NoSession
    <3> QED  BY <1>4, <2>5, <3>1 DEF DiscardSession
  <2> QED  BY <1>1, <1>4, <2>1, <2>2, <2>3, <2>4, <2>5 DEF Builder
<1> QED
  BY <1>1, <1>2, <1>3, <1>5, UntouchedKeeps DEF DeploymentInv, DeploymentTypeOK

\* Running the team, and the link.
InOperation ==
    \/ PauseTeam \/ RunTeam \/ RecordRun \/ StartLink \/ MintLink \/ RevokeLink \/ VisitTeam \/ AnswerVisitor

LEMMA RunningStep ==
    ASSUME DeploymentInv, InOperation
    PROVE  DeploymentInv'
<1> DEFINE Runs == [visitor : BOOLEAN, tools : SUBSET {"mail", "web"}]
<1>1. UNCHANGED <<skillRow, baseRow, mutex, change, session, draft>>
  BY DEF InOperation, PauseTeam, RunTeam, RecordRun, StartLink, MintLink, RevokeLink, VisitTeam, AnswerVisitor
<1>2. team \in [exists : BOOLEAN, active : BOOLEAN, version : Version] /\ visit \in Version /\ running \subseteq Runs
  BY DEF DeploymentInv, DeploymentTypeOK
<1>3. Untouched
  <2>1. CASE PauseTeam
    BY <1>1, <1>2, <2>1 DEF PauseTeam, Untouched
  <2>2. CASE UNCHANGED team
    BY <1>1, <1>2, <2>2 DEF Untouched
  <2> QED
    BY <2>1, <2>2 DEF InOperation, RunTeam, RecordRun, StartLink, MintLink, RevokeLink, VisitTeam, AnswerVisitor
<1>4. visit' \in Version /\ VisitInv'
  <2>1. CASE VisitTeam
    BY <1>2, <2>1 DEF VisitTeam, VisitInv
  <2>2. CASE AnswerVisitor
    BY <2>2, NothingTyped DEF AnswerVisitor, VisitInv
  <2> QED
    BY <1>2, <2>1, <2>2 DEF InOperation, PauseTeam, RunTeam, RecordRun, StartLink, MintLink, RevokeLink,
                            DeploymentInv, VisitInv
<1>5. running' \subseteq Runs /\ VisitorsReadNoMail' /\ recorded' \in BOOLEAN
  <2>1. running \subseteq Runs /\ VisitorsReadNoMail /\ recorded \in BOOLEAN
    BY DEF DeploymentInv, DeploymentTypeOK
  <2>2. CASE RunTeam
    <3>1. Tools(team.version) \in SUBSET {"mail", "web"}
      BY <1>2, ToolsTyped
    <3> DEFINE run == [visitor |-> FALSE, tools |-> Tools(team.version)]
    <3>2. run \in Runs /\ ~run.visitor
      BY <3>1
    <3>3. running' = running \cup {run} /\ UNCHANGED recorded
      BY <2>2 DEF RunTeam
    <3> HIDE DEF run
    <3> QED  BY <2>1, <3>2, <3>3 DEF VisitorsReadNoMail
  <2>3. CASE AnswerVisitor
    <3>1. Tools(visit) \in SUBSET {"mail", "web"} /\ "mail" \notin Tools(visit)
      BY <1>2, ToolsTyped DEF DeploymentInv, VisitInv
    <3> DEFINE run == [visitor |-> TRUE, tools |-> Tools(visit)]
    <3>2. run \in Runs /\ "mail" \notin run.tools
      BY <3>1
    <3>3. running' \subseteq running \cup {run} /\ recorded' \in BOOLEAN
      BY <2>1, <2>3 DEF AnswerVisitor, Compiled
    <3> HIDE DEF run
    <3> QED  BY <2>1, <3>2, <3>3 DEF VisitorsReadNoMail
  <2>4. CASE RecordRun
    BY <2>1, <2>4 DEF RecordRun, VisitorsReadNoMail
  <2> QED
    BY <2>1, <2>2, <2>3, <2>4 DEF InOperation, PauseTeam, StartLink, MintLink, RevokeLink, VisitTeam, VisitorsReadNoMail
<1>6. link' \in {"none", "minting", "active", "revoked"}
  BY DEF InOperation, PauseTeam, RunTeam, RecordRun, StartLink, MintLink, RevokeLink, VisitTeam, AnswerVisitor,
         DeploymentInv, DeploymentTypeOK
<1> QED
  BY <1>1, <1>3, <1>4, <1>5, <1>6, UntouchedKeeps DEF Untouched, DeploymentInv, DeploymentTypeOK

----------------------------------------------------------------------------
\* The theorems.

LEMMA DeploymentInitInv == DeploymentInit => DeploymentInv
<1> SUFFICES ASSUME DeploymentInit PROVE DeploymentInv
  OBVIOUS
<1> USE NothingTyped DEF DeploymentInit
<1>1. skillRow \in [Tiers -> [exists : BOOLEAN, grants : Grants]]
  BY DEF Grants
<1>2. team \in [exists : BOOLEAN, active : BOOLEAN, version : Version] /\ ~team.exists
  OBVIOUS
<1>3. change \in [Changes -> ChangeStates] /\ \A c \in Changes : change[c] = NoChange
  BY NoChangeTyped
<1>4. session \in Sessions /\ ~session.live
  BY DEF NoSession
<1>5. DeploymentTypeOK
  BY <1>1, <1>2, <1>3, <1>4 DEF DeploymentTypeOK
<1>6. LockInv
  BY <1>3 DEF LockInv
<1>7. VisitInv /\ PublishedTeamBuilds /\ VisitorsReadNoMail
  BY <1>2 DEF VisitInv, PublishedTeamBuilds, VisitorsReadNoMail
<1> QED  BY <1>5, <1>6, <1>7 DEF DeploymentInv

LEMMA DeploymentStutter ==
    ASSUME DeploymentInv, UNCHANGED deploymentVars
    PROVE  DeploymentInv'
<1> USE DEF deploymentVars
<1>1. Untouched
  BY DEF Untouched, DeploymentInv, DeploymentTypeOK
<1>2. DeploymentTypeOK'
  BY DEF DeploymentInv, DeploymentTypeOK
<1> QED  BY <1>1, <1>2, UntouchedKeeps DEF DeploymentInv, VisitInv, VisitorsReadNoMail

\* The inductive invariant holds: what a request has checked stands until it commits.
THEOREM DeploymentInvariance == DeploymentSpec => []DeploymentInv
<1>1. ASSUME DeploymentInv, DeploymentNext PROVE DeploymentInv'
  BY <1>1, AskStep, CheckStep, CommitStep, BuilderStep, RunningStep DEF DeploymentNext, Builder, InOperation
<1>2. DeploymentInv /\ [DeploymentNext]_deploymentVars => DeploymentInv'
  BY <1>1, DeploymentStutter
<1> QED  BY <1>2, DeploymentInitInv, PTL DEF DeploymentSpec

\* The rows, the requests and the lock keep their types; who has the lock is about to commit,
\* and a session that is live has a published team.
THEOREM DeploymentTypeCorrect == DeploymentSpec => []DeploymentTypeOK
<1>1. DeploymentInv => DeploymentTypeOK
  BY DEF DeploymentInv
<1> QED  BY <1>1, DeploymentInvariance, PTL

\* A published team can be built, whatever is published and deleted around it
\* (component_lock.py: component_mutation_lock).
THEOREM PublishedTeamBuildsHolds == DeploymentSpec => []PublishedTeamBuilds
<1>1. DeploymentInv => PublishedTeamBuilds
  BY DEF DeploymentInv
<1> QED  BY <1>1, DeploymentInvariance, PTL

\* A visitor's run holds no email tool, also when the team is published again while the
\* visitor's message is being taken (share_chat.py: the version that was checked is compiled).
THEOREM VisitorsReadNoMailHolds == DeploymentSpec => []VisitorsReadNoMail
<1>1. DeploymentInv => VisitorsReadNoMail
  BY DEF DeploymentInv
<1> QED  BY <1>1, DeploymentInvariance, PTL

----------------------------------------------------------------------------
(* Ingestion.                                                              *)

\* An id that has not been given out has no row; a completed generation has its
\* rows, and no unreadable file has any.
RowsInv ==
    /\ \A j \in Jobs : j > made => job[j].status = "gone"
    /\ \A j \in Completed : chunked[j] = Readable(job[j].files) /\ chunked[j] # {}
    /\ \A j \in Jobs : chunked[j] = Readable(chunked[j])

\* A job is in flight while a request or a worker has it.
WorkInv ==
    /\ \A j \in Jobs :
        /\ indexer[j].pc = "queued" => job[j].status = "queued" /\ submitting # j /\ indexer[j].carried = {}
        /\ indexer[j].pc \in {"chunks", "finish"} =>
            /\ job[j].status = "running"
            /\ indexer[j].carried \subseteq Readable(job[j].files)
        /\ submitting = j => job[j].status = "queued"
    /\ ~crowded => \A i, j \in InFlight : i = j

\* While one job at a time is in flight, what it carries over has its vectors.
CarryInv ==
    ~crowded => \A j \in Jobs : job[j].shape = "hybrid" =>
        /\ indexer[j].pc = "chunks" => \A k \in indexer[j].sources : k \in Kept /\ job[k].shape = "hybrid"
        /\ indexer[j].pc = "finish" => indexer[j].bare = {}

\* What a prune has decided on is not kept, and what it spares is all that is cited
\* of it.
PruneInv ==
    \A c \in chores :
        /\ c.old \cap Kept = {} /\ c.spared \subseteq c.old
        /\ \A j \in c.old : job[j].status \in {"completed", "gone"} /\ j <= made
        /\ c.do # "reap" => c.old = {}
        /\ ~lateCite => c.old \cap cited \subseteq c.spared

CiteInv ==
    /\ ~lateCite => cited \subseteq Completed
    /\ \A j \in {cached, loader.built} \ {0} : job[j].status \in {"completed", "gone"} /\ j <= made

\* Until a change has cleared the cache, what is cached and what may be stored is live.
LiveInv ==
    (\A c \in chores : c.do # "invalidate") =>
        /\ cached \in {0, Live}
        /\ loader.pc = "store" /\ loader.current => loader.built = Live

IngestInv ==
    /\ IngestTypeOK
    /\ RowsInv /\ WorkInv /\ GenerationsAreWhole /\ CarryInv
    /\ PruneInv /\ CiteInv /\ LiveInv

----------------------------------------------------------------------------
\* The newest of a set of ids.

\* A finite set of integers that is not empty has a greatest element.
LEMMA MaxIs ==
    ASSUME NEW S \in SUBSET Int, IsFiniteSet(S), S # {}
    PROVE  Max(S) \in S /\ \A k \in S : Max(S) >= k
<1> DEFINE Above(i) == {k \in S : k > i}
           family == {U \in SUBSET S : \E i \in S : U = Above(i)}
<1>1. family \subseteq FiniteSubsetsOf(S) /\ family # {}
  <2>1. \A U \in family : U \in FiniteSubsetsOf(S)
    BY FS_Subset DEF FiniteSubsetsOf
  <2>2. PICK i \in S : TRUE
    OBVIOUS
  <2>3. Above(i) \in family
    BY <2>2
  <2> QED  BY <2>1, <2>3
<1>2. PICK U \in family : \A V \in family : ~(<<V, U>> \in StrictSubsetOrdering(S))
  <2>1. IsWellFoundedOn(StrictSubsetOrdering(S), FiniteSubsetsOf(S))
    BY FS_StrictSubsetOrderingWellFounded
  <2> HIDE DEF family
  <2> QED  BY <1>1, <2>1, WFMin
<1>3. PICK i \in S : U = Above(i)
  OBVIOUS
<1>4. \A k \in S : i >= k
  <2> SUFFICES ASSUME NEW k \in S, ~(i >= k) PROVE FALSE
    OBVIOUS
  <2>1. k \in Int /\ i \in Int /\ k > i
    OBVIOUS
  <2>2. Above(k) \subseteq U /\ k \in U /\ k \notin Above(k)
    <3>1. \A l \in S : l > k => l > i
      BY <2>1
    <3>2. ~(k > k)
      BY <2>1
    <3> QED  BY <1>3, <2>1, <3>1, <3>2
  <2>3. Above(k) \in family
    OBVIOUS
  <2>4. <<Above(k), U>> \in StrictSubsetOrdering(S)
    BY <2>2 DEF StrictSubsetOrdering
  <2> QED  BY <1>2, <2>3, <2>4
<1> QED  BY <1>4 DEF Max

LEMMA JobsFinite == Jobs \subseteq Int /\ IsFiniteSet(Jobs)
<1>1. 1 \in Int /\ MaxJobs \in Int
  BY IngestAssumption
<1> QED  BY <1>1, FS_Interval DEF Jobs

LEMMA NewestIs ==
    ASSUME NEW S \in SUBSET Jobs
    PROVE  /\ S = {} => Newest(S) = 0
           /\ S # {} => Newest(S) \in S /\ \A k \in S : Newest(S) >= k
<1>1. S \subseteq Int /\ IsFiniteSet(S)
  BY JobsFinite, FS_Subset
<1> QED  BY <1>1, MaxIs DEF Newest

\* Among the n newest of a set are those of its members that are among the n newest of
\* a larger one.
LEMMA NewestOfSmaller ==
    ASSUME NEW S \in SUBSET Jobs, NEW T \in SUBSET S, NEW n \in Nat
    PROVE  NewestOf(S, n) \cap T \subseteq NewestOf(T, n)
<1> SUFFICES ASSUME NEW j \in NewestOf(S, n), j \in T PROVE j \in NewestOf(T, n)
  OBVIOUS
<1> DEFINE above == {k \in S : k > j}
           fewer == {k \in T : k > j}
<1>1. IsFiniteSet(above)
  BY JobsFinite, FS_Subset
<1>2. fewer \in SUBSET above
  OBVIOUS
<1>3. Cardinality(above) < n
  BY DEF NewestOf
<1>4. Cardinality(fewer) <= Cardinality(above)
  BY <1>1, <1>2, FS_Subset
<1>5. Cardinality(fewer) \in Nat /\ Cardinality(above) \in Nat
  BY <1>1, <1>2, FS_Subset, FS_CardinalityType
<1>6. Cardinality(fewer) < n
  <2> HIDE DEF fewer, above
  <2> QED  BY <1>3, <1>4, <1>5
<1> QED  BY <1>6 DEF NewestOf

\* The newest is kept.
LEMMA NewestIsKept ==
    ASSUME NEW S \in SUBSET Jobs, S # {}
    PROVE  Newest(S) \in NewestOf(S, 2)
<1>1. Newest(S) \in S /\ \A k \in S : Newest(S) >= k /\ S \subseteq Int
  BY NewestIs, JobsFinite
<1>2. {k \in S : k > Newest(S)} = {}
  BY <1>1
<1>3. Cardinality({k \in S : k > Newest(S)}) = 0
  BY <1>2, FS_EmptySet
<1> QED  BY <1>1, <1>3 DEF NewestOf

\* Two of those kept are newer than one that is not.
LEMMA TwoAreNewer ==
    ASSUME NEW S \in SUBSET Jobs, NEW j \in S, j \notin NewestOf(S, 2)
    PROVE  \E p, q \in NewestOf(S, 2) : p # q /\ p > j /\ q > j
<1> DEFINE above == {k \in S : k > j}
           p == Max(above)
           q == Max(above \ {p})
<1>1. above \subseteq Int /\ IsFiniteSet(above)
  BY JobsFinite, FS_Subset
<1>2. Cardinality(above) >= 2 /\ Cardinality(above) \in Nat
  <2>1. ~(Cardinality(above) < 2)
    BY DEF NewestOf
  <2>2. Cardinality(above) \in Nat
    BY <1>1, FS_CardinalityType
  <2> HIDE DEF above
  <2> QED  BY <2>1, <2>2
<1>3. above # {}
  BY <1>2, FS_EmptySet
<1>4. p \in above /\ \A k \in above : p >= k
  <2> HIDE DEF above
  <2> QED  BY <1>1, <1>3, MaxIs
<1>5. IsFiniteSet(above \ {p}) /\ above \ {p} # {}
  <2> HIDE DEF above, p
  <2>1. IsFiniteSet(above \ {p}) /\ Cardinality(above \ {p}) = Cardinality(above) - 1
    BY <1>1, <1>4, FS_RemoveElement
  <2>2. Cardinality(above \ {p}) # 0
    BY <1>2, <2>1
  <2> QED  BY <2>1, <2>2, FS_EmptySet
<1>6. q \in above \ {p} /\ \A k \in above \ {p} : q >= k
  <2>1. above \ {p} \in SUBSET Int
    BY <1>1
  <2> HIDE DEF above, p
  <2> QED  BY <1>5, <2>1, MaxIs
<1> HIDE DEF p, q
<1>7. p \in S /\ q \in S /\ p # q /\ p > j /\ q > j /\ p \in Int /\ q \in Int /\ j \in Int
  BY <1>1, <1>4, <1>6, JobsFinite
<1>8. p \in NewestOf(S, 2)
  <2>1. {k \in S : k > p} = {}
    <3> SUFFICES ASSUME NEW k \in S, k > p PROVE FALSE
      OBVIOUS
    <3>1. k \in Int /\ k > j
      BY <1>7, JobsFinite
    <3> QED  BY <1>4, <1>7, <3>1
  <2>2. Cardinality({k \in S : k > p}) = 0
    BY <2>1, FS_EmptySet
  <2> QED  BY <1>7, <2>2 DEF NewestOf
<1>9. q \in NewestOf(S, 2)
  <2>1. {k \in S : k > q} \subseteq {p}
    <3> SUFFICES ASSUME NEW k \in S, k > q, k # p PROVE FALSE
      OBVIOUS
    <3>1. k \in Int /\ k > j
      BY <1>7, JobsFinite
    <3> QED  BY <1>6, <1>7, <3>1
  <2>2. IsFiniteSet({p}) /\ Cardinality({p}) = 1
    BY FS_Singleton
  <2>3. Cardinality({k \in S : k > q}) <= 1 /\ IsFiniteSet({k \in S : k > q})
    BY <2>1, <2>2, FS_Subset
  <2>4. Cardinality({k \in S : k > q}) \in Nat
    BY <2>3, FS_CardinalityType
  <2>5. Cardinality({k \in S : k > q}) < 2
    BY <2>3, <2>4
  <2> QED  BY <1>7, <2>5 DEF NewestOf
<1> QED  BY <1>7, <1>8, <1>9

\* What is kept stays kept when something else goes.
LEMMA KeptStays ==
    ASSUME NEW S \in SUBSET Jobs, NEW T \in SUBSET S, NewestOf(S, 2) \subseteq T
    PROVE  NewestOf(T, 2) = NewestOf(S, 2) /\ Newest(T) = Newest(S)
<1>1. NewestOf(S, 2) \subseteq NewestOf(T, 2)
  BY NewestOfSmaller
<1>2. ASSUME NEW j \in NewestOf(T, 2), j \notin NewestOf(S, 2) PROVE FALSE
  <2>1. j \in T /\ j \in S
    BY DEF NewestOf
  <2>2. PICK p \in NewestOf(S, 2), q \in NewestOf(S, 2) : p # q /\ p > j /\ q > j
    BY <1>2, <2>1, TwoAreNewer
  <2> DEFINE above == {k \in T : k > j}
  <2>3. {p, q} \in SUBSET above
    BY <2>2
  <2>4. IsFiniteSet(above)
    BY JobsFinite, FS_Subset
  <2>5. Cardinality({p, q}) = 2
    <3>1. IsFiniteSet({p}) /\ Cardinality({p}) = 1
      BY FS_Singleton
    <3>2. Cardinality({p} \cup {q}) = 1 + 1
      BY <2>2, <3>1, FS_AddElement
    <3>3. {p} \cup {q} = {p, q}
      OBVIOUS
    <3> QED  BY <3>2, <3>3
  <2>6. Cardinality({p, q}) <= Cardinality(above) /\ Cardinality(above) \in Nat
    BY <2>3, <2>4, FS_Subset, FS_CardinalityType
  <2>7. Cardinality(above) < 2
    BY <1>2 DEF NewestOf
  <2> HIDE DEF above
  <2> QED  BY <2>5, <2>6, <2>7
<1>3. Newest(T) = Newest(S)
  <2>1. CASE S = {}
    BY <2>1
  <2>2. CASE S # {}
    <3>1. Newest(S) \in T /\ (\A k \in S : Newest(S) >= k)
      BY <2>2, NewestIs, NewestIsKept
    <3>2. Newest(T) \in T /\ (\A k \in T : Newest(T) >= k)
      BY <3>1, NewestIs
    <3>3. Newest(T) \in Int /\ Newest(S) \in Int
      BY <3>1, <3>2, JobsFinite
    <3> QED  BY <3>1, <3>2, <3>3
  <2> QED  BY <2>1, <2>2
<1> QED  BY <1>1, <1>2, <1>3

----------------------------------------------------------------------------
\* Typing, and what depends on the statuses only.

LEMMA IngestTypes ==
    ASSUME IngestTypeOK
    PROVE  /\ \A j \in Jobs :
                /\ job[j] \in JobRows /\ job[j].status \in {"gone", "queued", "running", "completed", "failed"}
                /\ job[j].shape \in Shapes /\ job[j].files \in SUBSET File
                /\ indexer[j] \in Indexers /\ indexer[j].pc \in {"none", "queued", "chunks", "finish"}
                /\ indexer[j].sources \in SUBSET Jobs /\ indexer[j].carried \in SUBSET File
                /\ indexer[j].bare \in SUBSET File
                /\ chunked[j] \in SUBSET File /\ vectored[j] \in SUBSET File
           /\ \A c \in chores : /\ c \in Chores /\ c.do \in {"invalidate", "survey", "reap", "failed"}
                                /\ c.by \in 0..MaxJobs /\ c.old \in SUBSET Jobs /\ c.spared \in SUBSET Jobs
           /\ loader.pc \in {"idle", "build", "store", "run", "cited", "over"}
           /\ loader.current \in BOOLEAN /\ loader.built \in 0..MaxJobs
           /\ made \in Nat /\ submitting \in Nat /\ cached \in Nat /\ MaxJobs \in Nat /\ made <= MaxJobs
BY IngestAssumption DEF IngestTypeOK, JobRows, Indexers, Chores, Loaders

LEMMA JobIs == \A j : j \in Jobs <=> j \in Nat /\ 1 <= j /\ j <= MaxJobs
BY IngestAssumption DEF Jobs

LEMMA NoneTyped ==
    /\ NoJob \in JobRows /\ NoJob.status = "gone"
    /\ NoIndexer \in Indexers /\ NoIndexer.pc = "none" /\ NoIndexer.carried = {} /\ NoIndexer.bare = {}
    /\ \A pc \in {"idle", "build", "store", "run", "cited", "over"} :
         Loader(pc) \in Loaders /\ Loader(pc).pc = pc /\ Loader(pc).current /\ Loader(pc).built = 0
    /\ \A do \in {"invalidate", "survey", "reap", "failed"}, j \in 0..MaxJobs :
         /\ Chore(do, j) \in Chores /\ Chore(do, j).do = do /\ Chore(do, j).by = j
         /\ Chore(do, j).old = {} /\ Chore(do, j).spared = {}
<1>1. 0 \in 0..MaxJobs
  BY IngestAssumption
<1> QED  BY <1>1 DEF NoJob, NoIndexer, Loader, Chore, JobRows, Indexers, Loaders, Chores, Shapes

LEMMA KeptIsCompleted == Kept \subseteq Completed /\ Completed \subseteq Jobs
BY DEF Kept, NewestOf, Completed

LEMMA LiveIs ==
    /\ Completed = {} => Live = 0
    /\ Completed # {} => Live \in Kept
BY NewestIs, NewestIsKept, KeptIsCompleted DEF Live, Kept

LEMMA SameCompleted ==
    ASSUME \A j \in Jobs : job'[j].status = "completed" <=> job[j].status = "completed"
    PROVE  Completed' = Completed /\ Kept' = Kept /\ Live' = Live
<1>1. Completed' = Completed
  BY DEF Completed
<1> QED  BY <1>1 DEF Kept, Live

LEMMA InvHas ==
    ASSUME IngestInv
    PROVE  /\ IngestTypeOK /\ RowsInv /\ WorkInv /\ GenerationsAreWhole /\ CarryInv
           /\ PruneInv /\ CiteInv /\ LiveInv
BY DEF IngestInv

----------------------------------------------------------------------------
\* Requests.

\* The job a request stages has an id nobody has had, and starts in the queue.
LEMMA StageStep ==
    ASSUME IngestInv, NEW files \in SUBSET File, NEW shape \in Shapes,
           Stage(files, shape),
           base' \in [exists : BOOLEAN, type : Shapes], mishaps' \in 0..MaxMishaps
    PROVE  IngestInv'
<1> USE InvHas, IngestTypes
<1> DEFINE n == made + 1
           row == [status |-> "queued", shape |-> shape, files |-> files]
<1>1. /\ made < MaxJobs /\ made' = n /\ submitting' = n /\ dirs' = dirs \cup {n}
      /\ job' = [job EXCEPT ![n] = row] /\ crowded' = (crowded \/ InFlight # {})
      /\ UNCHANGED <<chunked, vectored, indexer, chores, cited, cached, loader, lateCite>>
  BY DEF Stage
<1>2. n \in Jobs /\ n \in 0..MaxJobs /\ n > made /\ row \in JobRows /\ row.status = "queued" /\ row.shape = shape
  <2>1. made \in Nat /\ MaxJobs \in Nat /\ made < MaxJobs
    BY <1>1
  <2>2. n \in Jobs /\ n \in 0..MaxJobs /\ n > made
    BY <2>1, JobIs
  <2> QED  BY <2>2 DEF JobRows
<1>3. job[n].status = "gone" /\ indexer[n].pc = "none"
  <2>1. job[n].status = "gone"
    BY <1>2 DEF RowsInv
  <2> QED  BY <1>2, <2>1 DEF WorkInv
<1>4. \A j \in Jobs : j <= made => j # n /\ j <= made'
  BY <1>1, <1>2, JobIs
<1> HIDE DEF n, row
<1>5. /\ job' \in [Jobs -> JobRows] /\ job'[n] = row /\ \A j \in Jobs : j # n => job'[j] = job[j]
  BY <1>1, <1>2 DEF IngestTypeOK
<1>6. Completed' = Completed /\ Kept' = Kept /\ Live' = Live
  BY <1>2, <1>3, <1>5, SameCompleted
<1>7. n \notin Completed
  BY <1>3 DEF Completed
<1>8. IngestTypeOK'
  <2>1. made' \in 0..MaxJobs /\ submitting' \in 0..made' /\ cached' \in 0..made'
    <3>1. made \in Nat /\ cached \in 0..made /\ n \in Nat /\ n > made /\ n \in 0..MaxJobs
      BY <1>2, JobIs DEF IngestTypeOK
    <3> QED  BY <1>1, <3>1
  <2>2. crowded' \in BOOLEAN
    BY <1>1
  <2> QED  BY <1>1, <1>2, <1>5, <2>1, <2>2 DEF IngestTypeOK
<1>9. RowsInv'
  <2>1. ASSUME NEW j \in Jobs, j > made' PROVE job'[j].status = "gone"
    <3>1. j > made /\ j # n
      <4>1. j \in Nat /\ made \in Nat /\ n = made + 1 /\ j > n
        BY <1>1, <2>1, JobIs DEF n
      <4> QED  BY <4>1
    <3> QED  BY <1>5, <3>1 DEF RowsInv
  <2>2. \A j \in Completed' : chunked'[j] = Readable(job'[j].files) /\ chunked'[j] # {}
    BY <1>1, <1>5, <1>6, <1>7, KeptIsCompleted DEF RowsInv
  <2> QED  BY <1>1, <2>1, <2>2 DEF RowsInv
<1>10. WorkInv'
  <2>1. ASSUME NEW j \in Jobs
        PROVE  /\ indexer'[j].pc = "queued" => job'[j].status = "queued" /\ submitting' # j /\ indexer'[j].carried = {}
               /\ indexer'[j].pc \in {"chunks", "finish"} =>
                    /\ job'[j].status = "running"
                    /\ indexer'[j].carried \subseteq Readable(job'[j].files)
               /\ submitting' = j => job'[j].status = "queued"
    <3>1. CASE j = n
      BY <1>1, <1>2, <1>3, <1>5, <3>1
    <3>2. CASE j # n
      BY <1>1, <1>5, <3>2 DEF WorkInv
    <3> QED  BY <3>1, <3>2
  <2>2. ~crowded' => \A i, j \in InFlight' : i = j
    <3> SUFFICES ASSUME ~crowded', NEW i \in InFlight' PROVE i = n
      OBVIOUS
    <3>1. InFlight = {}
      BY <1>1
    <3> QED  BY <1>5, <3>1 DEF InFlight
  <2> QED  BY <2>1, <2>2 DEF WorkInv
<1>11. GenerationsAreWhole'
  <2>1. ASSUME NEW j \in Kept
        PROVE  /\ chunked'[j] = Readable(job'[j].files) /\ chunked'[j] # {}
               /\ j \in dirs'
               /\ job'[j].shape = "hybrid" /\ ~crowded' => vectored'[j] = chunked'[j]
    <3>1. j \in Jobs /\ job'[j] = job[j]
      BY <1>5, <1>7, KeptIsCompleted
    <3> QED  BY <1>1, <3>1 DEF GenerationsAreWhole
  <2> QED  BY <1>6, <2>1 DEF GenerationsAreWhole
<1>12. CarryInv'
  <2>1. ASSUME ~crowded', NEW j \in Jobs, job'[j].shape = "hybrid"
        PROVE  /\ indexer'[j].pc = "chunks" => \A k \in indexer'[j].sources : k \in Kept' /\ job'[k].shape = "hybrid"
               /\ indexer'[j].pc = "finish" => indexer'[j].bare = {}
    <3>1. CASE j = n
      BY <1>1, <1>3, <3>1
    <3>2. CASE j # n
      <4>1. job[j].shape = "hybrid" /\ ~crowded
        BY <1>1, <1>5, <2>1, <3>2
      <4>2. \A k \in Kept : job'[k] = job[k]
        BY <1>5, <1>7, KeptIsCompleted
      <4> QED  BY <1>1, <1>6, <4>1, <4>2 DEF CarryInv
    <3> QED  BY <3>1, <3>2
  <2> QED  BY <2>1 DEF CarryInv
<1>13. PruneInv'
  BY <1>1, <1>4, <1>5, <1>6 DEF PruneInv
<1>14. CiteInv'
  <2>1. ~lateCite' => cited' \subseteq Completed'
    BY <1>1, <1>6 DEF CiteInv
  <2>2. ASSUME NEW j \in {cached, loader.built} \ {0}
        PROVE  job'[j].status \in {"completed", "gone"} /\ j <= made'
    <3>1. job[j].status \in {"completed", "gone"} /\ j <= made /\ j \in Jobs
      <4>1. j \in Nat /\ j <= MaxJobs /\ j # 0
        BY DEF IngestTypeOK
      <4> QED  BY <4>1, JobIs DEF CiteInv
    <3> QED  BY <1>4, <1>5, <3>1
  <2> QED  BY <1>1, <2>1, <2>2 DEF CiteInv
<1>15. LiveInv'
  BY <1>1, <1>6 DEF LiveInv
<1> QED  BY <1>8, <1>9, <1>10, <1>11, <1>12, <1>13, <1>14, <1>15 DEF IngestInv

\* A job that is neither completed nor gone, and does not become so, is of no concern
\* to those who search, prune, cite or cache.
LEMMA JobMoves ==
    ASSUME IngestInv, NEW j \in Jobs, job[j].status \in {"queued", "running", "failed"},
           job'[j].status \in {"queued", "running", "failed"},
           \A i \in Jobs \ {j} : job'[i] = job[i] /\ chunked'[i] = chunked[i] /\ vectored'[i] = vectored[i],
           chunked'[j] = Readable(chunked'[j]),
           chores \subseteq chores', \A c \in chores' : c \in chores \/ c = Chore("failed", j),
           UNCHANGED <<dirs, made, cited, cached, loader, crowded, lateCite>>
    PROVE  /\ RowsInv' /\ GenerationsAreWhole' /\ PruneInv' /\ CiteInv' /\ LiveInv'
           /\ Kept' = Kept /\ j \notin Completed
<1> USE InvHas, IngestTypes
<1>1. Completed' = Completed /\ Kept' = Kept /\ Live' = Live
  BY SameCompleted
<1>2. j \notin Completed
  BY DEF Completed
<1>3. RowsInv'
  <2>1. \A i \in Jobs : i > made' => job'[i].status = "gone"
    BY DEF RowsInv
  <2>2. \A i \in Completed' : chunked'[i] = Readable(job'[i].files) /\ chunked'[i] # {}
    <3> SUFFICES ASSUME NEW i \in Completed PROVE chunked'[i] = Readable(job'[i].files) /\ chunked'[i] # {}
      BY <1>1
    <3>1. i \in Jobs \ {j}
      BY <1>2, KeptIsCompleted
    <3> QED  BY <3>1 DEF RowsInv
  <2>3. \A i \in Jobs : chunked'[i] = Readable(chunked'[i])
    BY DEF RowsInv
  <2> QED  BY <2>1, <2>2, <2>3 DEF RowsInv
<1>4. GenerationsAreWhole'
  <2>1. ASSUME NEW i \in Kept
        PROVE  /\ chunked'[i] = Readable(job'[i].files) /\ chunked'[i] # {}
               /\ i \in dirs'
               /\ job'[i].shape = "hybrid" /\ ~crowded' => vectored'[i] = chunked'[i]
    <3>1. i \in Jobs \ {j}
      BY <1>2, KeptIsCompleted
    <3> QED  BY <3>1 DEF GenerationsAreWhole
  <2> QED  BY <1>1, <2>1 DEF GenerationsAreWhole
<1>5. PruneInv'
  <2>1. ASSUME NEW c \in chores'
        PROVE  /\ c.old \cap Kept' = {} /\ c.spared \subseteq c.old
               /\ \A i \in c.old : job'[i].status \in {"completed", "gone"} /\ i <= made'
               /\ c.do # "reap" => c.old = {}
               /\ ~lateCite' => c.old \cap cited' \subseteq c.spared
    <3>1. CASE c \in chores
      <4>1. j \notin c.old
        BY <3>1 DEF PruneInv
      <4>2. c.old \subseteq Jobs
        BY <3>1
      <4> QED  BY <1>1, <3>1, <4>1, <4>2 DEF PruneInv
    <3>2. CASE c = Chore("failed", j)
      <4>1. j \in 0..MaxJobs
        BY JobIs
      <4>2. c.old = {} /\ c.spared = {}
        BY <3>2, <4>1, NoneTyped
      <4> QED  BY <4>2
    <3> QED  BY <3>1, <3>2
  <2> QED  BY <2>1 DEF PruneInv
<1>6. CiteInv'
  <2>1. ASSUME NEW i \in {cached, loader.built} \ {0} PROVE job'[i].status \in {"completed", "gone"} /\ i <= made
    <3>1. i \in Jobs /\ job[i].status \in {"completed", "gone"} /\ i <= made
      <4>1. i \in Nat /\ i <= MaxJobs /\ i # 0
        BY DEF IngestTypeOK
      <4> QED  BY <4>1, JobIs DEF CiteInv
    <3> QED  BY <3>1
  <2> QED  BY <1>1, <2>1 DEF CiteInv
<1>7. LiveInv'
  <2>1. ASSUME \A c \in chores' : c.do # "invalidate"
        PROVE  cached' \in {0, Live'} /\ (loader'.pc = "store" /\ loader'.current => loader'.built = Live')
    <3>1. \A c \in chores : c.do # "invalidate"
      BY <2>1
    <3> QED  BY <1>1, <3>1 DEF LiveInv
  <2> QED  BY <2>1 DEF LiveInv
<1> QED  BY <1>1, <1>2, <1>3, <1>4, <1>5, <1>6, <1>7

LEMMA RequestsStep ==
    ASSUME IngestInv,
           \/ \E F \in Uploads : \/ \E mode \in {"replace", "add"}, shape \in Shapes : UploadOwn(F, mode, shape)
                                 \/ UploadAsAdmin(F)
           \/ \E f \in File : RemoveDocument(f)
           \/ RestorePrevious
    PROVE  IngestInv'
<1> USE InvHas, IngestTypes
<1>1. \A j \in Jobs : \A S : Carry(j, S) \subseteq File
  BY DEF Carry
<1>2. mishaps \in 0..MaxMishaps /\ base \in [exists : BOOLEAN, type : Shapes]
  BY DEF IngestTypeOK
<1>3. base.type \in Shapes /\ "local_folder" \in Shapes
  BY <1>2 DEF Shapes
<1>4. Live \in Jobs \cup {0}
  BY LiveIs, KeptIsCompleted
<1>5. \A F \in Uploads : F \subseteq File
  BY DEF File
<1>6. Mishap => mishaps' \in 0..MaxMishaps
  BY <1>2, IngestAssumption DEF Mishap
<1>7. ASSUME NEW F \in Uploads, NEW mode \in {"replace", "add"}, NEW shape \in Shapes, UploadOwn(F, mode, shape)
      PROVE  IngestInv'
  <2> DEFINE files == F \cup (IF mode = "add" THEN Carry(Live, NameOf(F)) ELSE {})
  <2>1. Stage(files, shape) /\ base' = [exists |-> TRUE, type |-> shape] /\ UNCHANGED mishaps
    BY <1>7 DEF UploadOwn
  <2>2. files \in SUBSET File
    <3>1. Live = 0 => Carry(Live, NameOf(F)) = {}
      <4>1. 0 \notin dirs
        BY JobIs DEF IngestTypeOK
      <4> QED  BY <4>1 DEF Carry
    <3>2. Carry(Live, NameOf(F)) \subseteq File
      BY <1>1, <1>4, <3>1
    <3> QED  BY <1>5, <3>2
  <2> HIDE DEF files
  <2> QED  BY <1>2, <2>1, <2>2, StageStep
<1>8. ASSUME NEW F \in Uploads, UploadAsAdmin(F) PROVE IngestInv'
  <2> DEFINE shape == IF base.exists THEN base.type ELSE "local_folder"
  <2>1. /\ Stage(F, shape) /\ base' = [exists |-> TRUE, type |-> shape]
        /\ UNCHANGED mishaps \/ Mishap
    BY <1>8 DEF UploadAsAdmin
  <2>2. shape \in Shapes /\ mishaps' \in 0..MaxMishaps /\ F \in SUBSET File
    BY <1>2, <1>3, <1>5, <1>6, <2>1
  <2> HIDE DEF shape
  <2> QED  BY <2>1, <2>2, StageStep
<1>9. ASSUME NEW f \in File, RemoveDocument(f) PROVE IngestInv'
  <2>1. Live \in Jobs /\ Stage(Carry(Live, {f[1]}), job[Live].shape) /\ UNCHANGED <<base, mishaps>>
    BY <1>4, <1>9 DEF RemoveDocument
  <2>2. Carry(Live, {f[1]}) \in SUBSET File /\ job[Live].shape \in Shapes
    BY <1>1, <2>1
  <2> QED  BY <1>2, <2>1, <2>2, StageStep
<1>10. ASSUME RestorePrevious PROVE IngestInv'
  <2>1. /\ Previous \in Jobs /\ Stage(Carry(Previous, {}), job[Previous].shape)
        /\ UNCHANGED <<base, mishaps>>
    BY <1>10 DEF RestorePrevious, IngestTypeOK
  <2>2. Carry(Previous, {}) \in SUBSET File /\ job[Previous].shape \in Shapes
    BY <1>1, <2>1
  <2> QED  BY <1>2, <2>1, <2>2, StageStep
<1> QED  BY <1>7, <1>8, <1>9, <1>10

LEMMA RetryJobStep ==
    ASSUME IngestInv, NEW j \in Jobs, RetryJob(j)
    PROVE  IngestInv'
<1> USE InvHas, IngestTypes
<1>1. /\ job[j].status = "failed" /\ submitting = 0 /\ InFlight = {} /\ submitting' = j
      /\ job' = [job EXCEPT ![j].status = "queued"]
      /\ chunked' = [chunked EXCEPT ![j] = {}] /\ vectored' = [vectored EXCEPT ![j] = {}]
      /\ UNCHANGED <<base, dirs, made, indexer, chores, cited, cached, loader, mishaps, crowded, lateCite>>
  BY DEF RetryJob, Quiet, Retryable
<1>2. /\ job' \in [Jobs -> JobRows] /\ job'[j].status = "queued"
      /\ \A i \in Jobs \ {j} : job'[i] = job[i] /\ chunked'[i] = chunked[i] /\ vectored'[i] = vectored[i]
      /\ chunked'[j] = {} /\ vectored'[j] = {}
      /\ chunked' \in [Jobs -> SUBSET File] /\ vectored' \in [Jobs -> SUBSET File]
  BY <1>1 DEF IngestTypeOK, JobRows
<1>3. {} = Readable({})
  BY DEF Readable
<1>4. /\ RowsInv' /\ GenerationsAreWhole' /\ PruneInv' /\ CiteInv' /\ LiveInv'
      /\ Kept' = Kept /\ j \notin Completed
  BY <1>1, <1>2, <1>3, JobMoves
<1>5. IngestTypeOK'
  <2>1. submitting' \in 0..made'
    <3>1. j <= made
      BY <1>1, JobIs DEF RowsInv
    <3> QED  BY <1>1, <3>1, JobIs
  <2>2. \A i \in Jobs : vectored'[i] \subseteq chunked'[i]
    BY <1>2 DEF IngestTypeOK
  <2> QED  BY <1>1, <1>2, <2>1, <2>2 DEF IngestTypeOK
<1>6. \A i \in Jobs : indexer[i].pc = "none"
  BY <1>1 DEF WorkInv, InFlight
<1>7. WorkInv'
  <2>1. \A i \in InFlight' : i = j
    BY <1>1, <1>2 DEF InFlight
  <2> QED  BY <1>1, <1>2, <1>6, <2>1 DEF WorkInv
<1>8. CarryInv'
  BY <1>1, <1>6 DEF CarryInv
<1> QED  BY <1>4, <1>5, <1>7, <1>8 DEF IngestInv

LEMMA SubmitJobStep ==
    ASSUME IngestInv, SubmitJob
    PROVE  IngestInv'
<1> USE InvHas, IngestTypes
<1> DEFINE j == submitting
<1>1. /\ j \in Jobs /\ job[j].status = "queued" /\ submitting' = 0
      /\ UNCHANGED <<base, chunked, vectored, dirs, made, chores, cited, cached, loader, crowded, lateCite>>
  <2>1. j \in Nat /\ j # 0 /\ j <= MaxJobs
    BY DEF SubmitJob, IngestTypeOK
  <2>2. j \in Jobs
    BY <2>1, JobIs
  <2> QED  BY <2>2 DEF SubmitJob, WorkInv
<1>2. mishaps \in 0..MaxMishaps
  BY DEF IngestTypeOK
<1>3. indexer[j].pc = "none"
  BY <1>1 DEF WorkInv
<1> HIDE DEF j
<1>4. CASE indexer' = [indexer EXCEPT ![j] = [NoIndexer EXCEPT !.pc = "queued"]] /\ UNCHANGED <<job, mishaps>>
  <2>1. /\ indexer' \in [Jobs -> Indexers] /\ indexer'[j].pc = "queued" /\ indexer'[j].carried = {}
        /\ \A i \in Jobs \ {j} : indexer'[i] = indexer[i]
    BY <1>1, <1>4 DEF IngestTypeOK, NoIndexer, Indexers
  <2>2. chunked'[j] = Readable(chunked'[j])
    BY <1>1 DEF RowsInv
  <2>3. /\ RowsInv' /\ GenerationsAreWhole' /\ PruneInv' /\ CiteInv' /\ LiveInv' /\ Kept' = Kept
    BY <1>1, <1>4, <2>2, JobMoves
  <2>4. IngestTypeOK'
    BY <1>1, <1>4, <2>1 DEF IngestTypeOK
  <2>5. WorkInv'
    <3>1. ASSUME NEW i \in Jobs
          PROVE  /\ indexer'[i].pc = "queued" => job'[i].status = "queued" /\ submitting' # i /\ indexer'[i].carried = {}
                 /\ indexer'[i].pc \in {"chunks", "finish"} =>
                      /\ job'[i].status = "running"
                      /\ indexer'[i].carried \subseteq Readable(job'[i].files)
                 /\ submitting' = i => job'[i].status = "queued"
      BY <1>1, <1>4, <2>1, JobIs DEF WorkInv
    <3>2. InFlight' = InFlight
      BY <1>4 DEF InFlight
    <3> QED  BY <1>1, <3>1, <3>2 DEF WorkInv
  <2>6. CarryInv'
    BY <1>1, <1>4, <2>1, <2>3 DEF CarryInv
  <2> QED  BY <2>3, <2>4, <2>5, <2>6 DEF IngestInv
<1>5. CASE Mishap /\ job' = [job EXCEPT ![j].status = "failed"] /\ UNCHANGED indexer
  <2>1. /\ job' \in [Jobs -> JobRows] /\ job'[j].status = "failed"
        /\ job'[j].shape = job[j].shape /\ job'[j].files = job[j].files
        /\ \A i \in Jobs \ {j} : job'[i] = job[i]
    BY <1>1, <1>5 DEF IngestTypeOK, JobRows
  <2>2. chunked'[j] = Readable(chunked'[j])
    BY <1>1 DEF RowsInv
  <2>3. /\ RowsInv' /\ GenerationsAreWhole' /\ PruneInv' /\ CiteInv' /\ LiveInv' /\ Kept' = Kept
        /\ j \notin Completed
    BY <1>1, <2>1, <2>2, JobMoves
  <2>4. mishaps' \in 0..MaxMishaps
    BY <1>2, <1>5, IngestAssumption DEF Mishap
  <2>5. IngestTypeOK'
    BY <1>1, <1>5, <2>1, <2>4 DEF IngestTypeOK
  <2>6. WorkInv'
    <3>1. ASSUME NEW i \in Jobs
          PROVE  /\ indexer'[i].pc = "queued" => job'[i].status = "queued" /\ submitting' # i /\ indexer'[i].carried = {}
                 /\ indexer'[i].pc \in {"chunks", "finish"} =>
                      /\ job'[i].status = "running"
                      /\ indexer'[i].carried \subseteq Readable(job'[i].files)
                 /\ submitting' = i => job'[i].status = "queued"
      BY <1>1, <1>3, <1>5, <2>1, JobIs DEF WorkInv
    <3>2. InFlight' \subseteq InFlight
      BY <2>1 DEF InFlight
    <3> QED  BY <1>1, <3>1, <3>2 DEF WorkInv
  <2>7. CarryInv'
    BY <1>1, <1>5, <2>1, <2>3 DEF CarryInv
  <2> QED  BY <2>3, <2>5, <2>6, <2>7 DEF IngestInv
<1> QED  BY <1>4, <1>5 DEF SubmitJob, j

LEMMA DeleteBaseStep ==
    ASSUME IngestInv, DeleteBase
    PROVE  IngestInv'
<1> USE InvHas, IngestTypes
<1> DEFINE order == [do |-> "invalidate", by |-> 0, old |-> {}, spared |-> {}]
<1>1. /\ InFlight = {} /\ submitting = 0 /\ Mishap
      /\ base' = [base EXCEPT !.exists = FALSE]
      /\ job' = [j \in Jobs |-> NoJob]
      /\ chunked' = [j \in Jobs |-> {}] /\ vectored' = [j \in Jobs |-> {}]
      /\ dirs' = {} /\ cited' = {} /\ chores' = chores \cup {order}
      /\ UNCHANGED <<made, submitting, indexer, cached, loader, crowded, lateCite>>
  BY DEF DeleteBase, Quiet
<1>2. order \in Chores /\ order.do = "invalidate" /\ order.old = {} /\ order.spared = {}
  <2>1. 0 \in 0..MaxJobs
    BY IngestAssumption
  <2> QED  BY <2>1 DEF Chores
<1> HIDE DEF order
<1>3. \A j \in Jobs : job'[j].status = "gone" /\ chunked'[j] = {}
  BY <1>1, NoneTyped
<1>4. Completed' = {} /\ Kept' = {} /\ InFlight' = {}
  BY <1>3 DEF Completed, Kept, NewestOf, InFlight
<1>5. \A j \in Jobs : indexer[j].pc = "none"
  BY <1>1 DEF WorkInv, InFlight
<1>6. IngestTypeOK'
  <2>1. mishaps' \in 0..MaxMishaps
    BY <1>1, IngestAssumption DEF Mishap, IngestTypeOK
  <2>2. base' \in [exists : BOOLEAN, type : Shapes]
    BY <1>1 DEF IngestTypeOK
  <2>3. job' \in [Jobs -> JobRows]
    BY <1>1, NoneTyped
  <2> QED  BY <1>1, <1>2, <2>1, <2>2, <2>3 DEF IngestTypeOK
<1>7. RowsInv'
  BY <1>1, <1>3, <1>4 DEF RowsInv, Readable
<1>8. WorkInv' /\ GenerationsAreWhole' /\ CarryInv'
  BY <1>1, <1>4, <1>5, JobIs DEF WorkInv, GenerationsAreWhole, CarryInv
<1>9. PruneInv'
  <2>1. ASSUME NEW c \in chores'
        PROVE  /\ c.old \cap Kept' = {} /\ c.spared \subseteq c.old
               /\ \A i \in c.old : job'[i].status \in {"completed", "gone"} /\ i <= made'
               /\ c.do # "reap" => c.old = {}
               /\ ~lateCite' => c.old \cap cited' \subseteq c.spared
    <3>1. CASE c \in chores
      <4>1. c.old \subseteq Jobs
        BY <3>1
      <4> QED  BY <1>1, <1>3, <1>4, <3>1, <4>1 DEF PruneInv
    <3>2. CASE c = order
      BY <1>2, <3>2
    <3> QED  BY <1>1, <3>1, <3>2
  <2> QED  BY <2>1 DEF PruneInv
<1>10. CiteInv'
  <2>1. ASSUME NEW i \in {cached, loader.built} \ {0} PROVE job'[i].status \in {"completed", "gone"} /\ i <= made
    <3>1. i \in Jobs /\ i <= made
      <4>1. i \in Nat /\ i <= MaxJobs /\ i # 0
        BY DEF IngestTypeOK
      <4> QED  BY <4>1, JobIs DEF CiteInv
    <3> QED  BY <1>3, <3>1
  <2> QED  BY <1>1, <2>1 DEF CiteInv
<1>11. LiveInv'
  BY <1>1, <1>2 DEF LiveInv
<1> QED  BY <1>6, <1>7, <1>8, <1>9, <1>10, <1>11 DEF IngestInv

----------------------------------------------------------------------------
\* The workers.

\* The candidates of a job that is not completed are what is kept.
LEMMA BeginJobStep ==
    ASSUME IngestInv, NEW j \in Jobs, BeginJob(j)
    PROVE  IngestInv'
<1> USE InvHas, IngestTypes
<1> DEFINE found == {k \in Candidates(j) : job[k].shape = job[j].shape}
<1>1. /\ indexer[j].pc = "queued"
      /\ job' = [job EXCEPT ![j].status = "running"]
      /\ indexer' = [indexer EXCEPT ![j] = [@ EXCEPT !.pc = "chunks", !.sources = found]]
      /\ UNCHANGED <<base, chunked, vectored, dirs, made, submitting, chores, cited, cached,
                     loader, mishaps, crowded, lateCite>>
  BY DEF BeginJob, At
<1>2. job[j].status = "queued" /\ submitting # j
  BY <1>1 DEF WorkInv
<1>3. found = {k \in Kept : job[k].shape = job[j].shape} /\ found \subseteq Jobs
  <2>1. Completed \ {j} = Completed
    BY <1>2 DEF Completed
  <2> QED  BY <2>1, KeptIsCompleted DEF Candidates, Kept
<1> HIDE DEF found
<1>4. /\ job' \in [Jobs -> JobRows] /\ job'[j].status = "running" /\ job'[j].shape = job[j].shape
      /\ \A i \in Jobs \ {j} : job'[i] = job[i]
  BY <1>1 DEF IngestTypeOK, JobRows
<1>5. /\ indexer' \in [Jobs -> Indexers]
      /\ indexer'[j].pc = "chunks" /\ indexer'[j].sources = found /\ indexer'[j].carried = indexer[j].carried
      /\ \A i \in Jobs \ {j} : indexer'[i] = indexer[i]
  <2> DEFINE row == [indexer[j] EXCEPT !.pc = "chunks", !.sources = found]
  <2>1. row \in Indexers /\ row.pc = "chunks" /\ row.sources = found /\ row.carried = indexer[j].carried
    <3>1. indexer[j] \in Indexers
      OBVIOUS
    <3> QED  BY <1>3, <3>1 DEF Indexers
  <2>2. indexer' = [indexer EXCEPT ![j] = row]
    BY <1>1
  <2> HIDE DEF row
  <2> QED  BY <2>1, <2>2 DEF IngestTypeOK
<1>6. chunked'[j] = Readable(chunked'[j])
  BY <1>1 DEF RowsInv
<1>7. /\ RowsInv' /\ GenerationsAreWhole' /\ PruneInv' /\ CiteInv' /\ LiveInv' /\ Kept' = Kept
      /\ j \notin Completed
  BY <1>1, <1>2, <1>4, <1>6, JobMoves
<1>8. IngestTypeOK'
  BY <1>1, <1>4, <1>5 DEF IngestTypeOK
<1>9. WorkInv'
  <2>1. indexer[j].carried = {}
    BY <1>1 DEF WorkInv
  <2>2. ASSUME NEW i \in Jobs
        PROVE  /\ indexer'[i].pc = "queued" => job'[i].status = "queued" /\ submitting' # i /\ indexer'[i].carried = {}
               /\ indexer'[i].pc \in {"chunks", "finish"} =>
                    /\ job'[i].status = "running"
                    /\ indexer'[i].carried \subseteq Readable(job'[i].files)
               /\ submitting' = i => job'[i].status = "queued"
    BY <1>1, <1>2, <1>4, <1>5, <2>1 DEF WorkInv
  <2>3. InFlight' = InFlight
    BY <1>2, <1>4 DEF InFlight
  <2> QED  BY <1>1, <2>2, <2>3 DEF WorkInv
<1>10. CarryInv'
  <2>1. ASSUME ~crowded', NEW i \in Jobs, job'[i].shape = "hybrid"
        PROVE  /\ indexer'[i].pc = "chunks" => \A k \in indexer'[i].sources : k \in Kept' /\ job'[k].shape = "hybrid"
               /\ indexer'[i].pc = "finish" => indexer'[i].bare = {}
    <3>1. \A k \in Kept : job'[k] = job[k]
      BY <1>4, <1>7, KeptIsCompleted
    <3>2. CASE i = j
      BY <1>3, <1>4, <1>5, <1>7, <2>1, <3>1, <3>2
    <3>3. CASE i # j
      BY <1>1, <1>4, <1>5, <1>7, <2>1, <3>1, <3>3 DEF CarryInv
    <3> QED  BY <3>2, <3>3
  <2> QED  BY <2>1 DEF CarryInv
<1> QED  BY <1>7, <1>8, <1>9, <1>10 DEF IngestInv

\* A step that leaves the jobs, their rows and the chores alone changes nothing for
\* those who search and prune.
LEMMA IndexerMoves ==
    ASSUME IngestInv, UNCHANGED <<job, chunked, vectored, dirs, made, chores, cited, cached, loader, crowded, lateCite>>
    PROVE  /\ RowsInv' /\ GenerationsAreWhole' /\ PruneInv' /\ CiteInv' /\ LiveInv'
           /\ Kept' = Kept /\ InFlight' = InFlight
<1>1. Completed' = Completed /\ Kept' = Kept /\ Live' = Live /\ InFlight' = InFlight
  BY SameCompleted DEF InFlight
<1> QED  BY <1>1, InvHas DEF RowsInv, GenerationsAreWhole, PruneInv, CiteInv, LiveInv

\* What is carried is readable, and has its vectors when its source is still kept.
LEMMA ReadChunksStep ==
    ASSUME IngestInv, NEW j \in Jobs, ReadChunks(j)
    PROVE  IngestInv'
<1> USE InvHas, IngestTypes
<1> DEFINE holders(f) == {k \in indexer[j].sources : SameFile(f, k)}
           carry == {f \in job[j].files : holders(f) # {}}
           bare == {f \in carry : f \notin vectored[Max(holders(f))]}
<1>1. /\ indexer[j].pc = "chunks"
      /\ indexer' = [indexer EXCEPT ![j] = [@ EXCEPT !.pc = "finish", !.carried = carry, !.bare = bare]]
      /\ UNCHANGED <<base, job, chunked, vectored, dirs, made, submitting, chores, cited, cached,
                     loader, mishaps, crowded, lateCite>>
  BY DEF ReadChunks, At
<1>2. job[j].status = "running"
  BY <1>1 DEF WorkInv
<1>3. carry \subseteq Readable(job[j].files) /\ carry \subseteq File /\ bare \subseteq carry
  <2>1. ASSUME NEW f \in carry PROVE f[2] \notin Scans
    <3>1. PICK k \in indexer[j].sources : f \in chunked[k]
      BY <2>1 DEF SameFile
    <3>2. k \in Jobs /\ chunked[k] = Readable(chunked[k])
      BY <3>1 DEF RowsInv
    <3> QED  BY <3>1, <3>2 DEF Readable
  <2>2. carry \subseteq job[j].files /\ job[j].files \subseteq File
    OBVIOUS
  <2> QED  BY <2>1, <2>2 DEF Readable
<1>4. ASSUME ~crowded, job[j].shape = "hybrid" PROVE bare = {}
  <2> SUFFICES ASSUME NEW f \in carry PROVE f \in vectored[Max(holders(f))]
    OBVIOUS
  <2>1. holders(f) \subseteq Kept /\ holders(f) # {}
    BY <1>1, <1>4 DEF CarryInv
  <2>2. Max(holders(f)) \in holders(f)
    <3>1. holders(f) \in SUBSET Int /\ IsFiniteSet(holders(f))
      BY <2>1, KeptIsCompleted, JobsFinite, FS_Subset
    <3> HIDE DEF holders
    <3> QED  BY <2>1, <3>1, MaxIs
  <2> DEFINE k == Max(holders(f))
  <2>3. k \in Kept /\ job[k].shape = "hybrid" /\ f \in chunked[k]
    BY <1>1, <1>4, <2>1, <2>2 DEF CarryInv, SameFile
  <2> HIDE DEF k
  <2>4. vectored[k] = chunked[k]
    BY <1>4, <2>3 DEF GenerationsAreWhole
  <2> QED  BY <2>3, <2>4 DEF k
<1> HIDE DEF carry, bare
<1>5. /\ indexer' \in [Jobs -> Indexers]
      /\ indexer'[j].pc = "finish" /\ indexer'[j].carried = carry /\ indexer'[j].bare = bare
      /\ \A i \in Jobs \ {j} : indexer'[i] = indexer[i]
  <2> DEFINE row == [indexer[j] EXCEPT !.pc = "finish", !.carried = carry, !.bare = bare]
  <2>1. row \in Indexers /\ row.pc = "finish" /\ row.carried = carry /\ row.bare = bare
    <3>1. indexer[j] \in Indexers
      OBVIOUS
    <3> QED  BY <1>3, <3>1 DEF Indexers
  <2>2. indexer' = [indexer EXCEPT ![j] = row]
    BY <1>1
  <2> HIDE DEF row
  <2> QED  BY <2>1, <2>2 DEF IngestTypeOK
<1>6. /\ RowsInv' /\ GenerationsAreWhole' /\ PruneInv' /\ CiteInv' /\ LiveInv' /\ Kept' = Kept
      /\ InFlight' = InFlight
  BY <1>1, IndexerMoves
<1>7. IngestTypeOK'
  BY <1>1, <1>5 DEF IngestTypeOK
<1>8. WorkInv'
  <2>1. ASSUME NEW i \in Jobs
        PROVE  /\ indexer'[i].pc = "queued" => job'[i].status = "queued" /\ submitting' # i /\ indexer'[i].carried = {}
               /\ indexer'[i].pc \in {"chunks", "finish"} =>
                    /\ job'[i].status = "running"
                    /\ indexer'[i].carried \subseteq Readable(job'[i].files)
               /\ submitting' = i => job'[i].status = "queued"
    BY <1>1, <1>2, <1>3, <1>5 DEF WorkInv
  <2> QED  BY <1>1, <1>6, <2>1 DEF WorkInv
<1>9. CarryInv'
  BY <1>1, <1>4, <1>5, <1>6 DEF CarryInv
<1> QED  BY <1>6, <1>7, <1>8, <1>9 DEF IngestInv

\* A generation that is completed has all its readable files, and is live or older than
\* one that is.
LEMMA FinishJobStep ==
    ASSUME IngestInv, NEW j \in Jobs, FinishJob(j)
    PROVE  IngestInv'
<1> USE InvHas, IngestTypes
<1> DEFINE all == (indexer[j].carried \cap Staged(j)) \cup Fresh(j)
           ending == IF all # {} THEN "completed" ELSE "failed"
           done == Chore(IF ending = "completed" THEN "invalidate" ELSE "failed", j)
           vectors == IF job[j].shape = "hybrid" THEN all \ indexer[j].bare ELSE {}
<1>1. /\ indexer[j].pc = "finish" /\ indexer' = [indexer EXCEPT ![j] = NoIndexer]
      /\ job' = [job EXCEPT ![j].status = ending]
      /\ chunked' = [chunked EXCEPT ![j] = all] /\ vectored' = [vectored EXCEPT ![j] = vectors]
      /\ chores' = chores \cup {done}
      /\ UNCHANGED <<base, dirs, made, submitting, cited, cached, loader, mishaps, crowded, lateCite>>
  BY DEF FinishJob, At, Ended
<1>2. job[j].status = "running" /\ indexer[j].carried \subseteq Readable(job[j].files) /\ submitting # j
  BY <1>1 DEF WorkInv
<1>3. /\ all \subseteq Readable(job[j].files) /\ all = Readable(all) /\ all \in SUBSET File
      /\ all # {} => j \in dirs /\ all = Readable(job[j].files)
  <2>1. job[j].files \subseteq File
    OBVIOUS
  <2>2. CASE j \in dirs
    BY <1>2, <2>1, <2>2 DEF Staged, Fresh, Readable
  <2>3. CASE j \notin dirs
    BY <2>3 DEF Staged, Fresh, Readable
  <2> QED  BY <2>2, <2>3
<1>4. vectors \subseteq all /\ (job[j].shape = "hybrid" /\ ~crowded => vectors = all)
  BY <1>1 DEF CarryInv
<1>5. /\ done \in Chores /\ done.old = {} /\ done.spared = {}
      /\ ending = "completed" => done.do = "invalidate"
      /\ ending = "failed" => done = Chore("failed", j)
  <2>1. j \in 0..MaxJobs
    BY JobIs
  <2> QED  BY <2>1, NoneTyped
<1>6. ending \in {"completed", "failed"} /\ (ending = "completed" <=> all # {})
  OBVIOUS
<1> HIDE DEF all, ending, done, vectors
<1>7. /\ job' \in [Jobs -> JobRows] /\ job'[j].status = ending
      /\ job'[j].shape = job[j].shape /\ job'[j].files = job[j].files
      /\ \A i \in Jobs \ {j} : job'[i] = job[i] /\ chunked'[i] = chunked[i] /\ vectored'[i] = vectored[i]
      /\ chunked'[j] = all /\ vectored'[j] = vectors
  <2> DEFINE row == [job[j] EXCEPT !.status = ending]
  <2>1. row \in JobRows /\ row.status = ending /\ row.shape = job[j].shape /\ row.files = job[j].files
    <3>1. job[j] \in JobRows
      OBVIOUS
    <3> QED  BY <1>6, <3>1 DEF JobRows
  <2>2. job' = [job EXCEPT ![j] = row]
    BY <1>1
  <2> HIDE DEF row
  <2>3. job' \in [Jobs -> JobRows] /\ job'[j] = row /\ \A i \in Jobs \ {j} : job'[i] = job[i]
    BY <2>1, <2>2 DEF IngestTypeOK
  <2>4. chunked'[j] = all /\ \A i \in Jobs \ {j} : chunked'[i] = chunked[i]
    BY <1>1 DEF IngestTypeOK
  <2>5. vectored'[j] = vectors /\ \A i \in Jobs \ {j} : vectored'[i] = vectored[i]
    BY <1>1 DEF IngestTypeOK
  <2> QED  BY <2>1, <2>3, <2>4, <2>5
<1>8. /\ indexer' \in [Jobs -> Indexers] /\ indexer'[j] = NoIndexer /\ indexer'[j].pc = "none"
      /\ \A i \in Jobs \ {j} : indexer'[i] = indexer[i]
  BY <1>1, NoneTyped DEF IngestTypeOK
<1>9. IngestTypeOK'
  <2>1. /\ chunked' \in [Jobs -> SUBSET File] /\ vectored' \in [Jobs -> SUBSET File]
        /\ \A i \in Jobs : vectored'[i] \subseteq chunked'[i]
    BY <1>1, <1>3, <1>4, <1>7 DEF IngestTypeOK
  <2> QED  BY <1>1, <1>5, <1>7, <1>8, <2>1 DEF IngestTypeOK
<1>10. WorkInv'
  <2>1. ASSUME NEW i \in Jobs
        PROVE  /\ indexer'[i].pc = "queued" => job'[i].status = "queued" /\ submitting' # i /\ indexer'[i].carried = {}
               /\ indexer'[i].pc \in {"chunks", "finish"} =>
                    /\ job'[i].status = "running"
                    /\ indexer'[i].carried \subseteq Readable(job'[i].files)
               /\ submitting' = i => job'[i].status = "queued"
    BY <1>1, <1>2, <1>7, <1>8 DEF WorkInv
  <2>2. InFlight' \subseteq InFlight
    BY <1>6, <1>7 DEF InFlight
  <2>3. ~crowded' => \A i, k \in InFlight' : i = k
    BY <1>1, <2>2 DEF WorkInv
  <2> QED  BY <2>1, <2>3 DEF WorkInv
<1>11. CarryInv'
  <2>1. ASSUME ~crowded, NEW i \in Jobs, indexer'[i].pc \in {"chunks", "finish"} PROVE FALSE
    <3>1. i # j
      BY <1>8, <2>1
    <3>2. job[i].status = "running"
      BY <1>8, <2>1, <3>1 DEF WorkInv
    <3>3. i \in InFlight /\ j \in InFlight
      BY <1>2, <3>2 DEF InFlight
    <3> QED  BY <2>1, <3>1, <3>3 DEF WorkInv
  <2> QED  BY <1>1, <2>1 DEF CarryInv
<1>12. CASE ending = "failed"
  <2>1. \A c \in chores' : c \in chores \/ c = Chore("failed", j)
    BY <1>1, <1>5, <1>12
  <2>2. chores \subseteq chores' /\ UNCHANGED <<dirs, made, cited, cached, loader, crowded, lateCite>>
    BY <1>1
  <2>3. RowsInv' /\ GenerationsAreWhole' /\ PruneInv' /\ CiteInv' /\ LiveInv'
    BY <1>2, <1>3, <1>7, <1>12, <2>1, <2>2, JobMoves
  <2> QED  BY <1>9, <1>10, <1>11, <2>3 DEF IngestInv
<1>13. CASE ending = "completed"
  <2>1. Completed' = Completed \cup {j} /\ j \notin Completed
    BY <1>2, <1>7, <1>13 DEF Completed
  <2>2. Kept' \subseteq Kept \cup {j} /\ Kept' \subseteq Jobs
    <3>1. Completed' \in SUBSET Jobs /\ Completed \in SUBSET Completed' /\ 2 \in Nat
      BY <2>1, KeptIsCompleted
    <3>2. NewestOf(Completed', 2) \cap Completed \subseteq NewestOf(Completed, 2)
      BY <3>1, NewestOfSmaller
    <3>3. Kept' = NewestOf(Completed', 2) /\ NewestOf(Completed', 2) \subseteq Completed'
      BY DEF Kept, NewestOf
    <3> QED  BY <2>1, <3>1, <3>2, <3>3 DEF Kept
  <2>3. j \in dirs /\ all = Readable(job[j].files) /\ all # {}
    BY <1>3, <1>6, <1>13
  <2>4. RowsInv'
    <3>1. \A i \in Jobs : i > made' => job'[i].status = "gone"
      <4>1. ~(j > made)
        BY <1>2 DEF RowsInv
      <4> QED  BY <1>1, <1>7, <4>1 DEF RowsInv
    <3>2. ASSUME NEW i \in Completed' PROVE chunked'[i] = Readable(job'[i].files) /\ chunked'[i] # {}
      <4>1. CASE i = j
        BY <1>7, <2>3, <4>1
      <4>2. CASE i # j
        <5>1. i \in Completed /\ i \in Jobs
          BY <2>1, <4>2, KeptIsCompleted
        <5> QED  BY <1>7, <4>2, <5>1 DEF RowsInv
      <4> QED  BY <4>1, <4>2
    <3>3. \A i \in Jobs : chunked'[i] = Readable(chunked'[i])
      BY <1>3, <1>7 DEF RowsInv
    <3> QED  BY <3>1, <3>2, <3>3 DEF RowsInv
  <2>5. GenerationsAreWhole'
    <3>1. ASSUME NEW i \in Kept'
          PROVE  /\ chunked'[i] = Readable(job'[i].files) /\ chunked'[i] # {}
                 /\ i \in dirs'
                 /\ job'[i].shape = "hybrid" /\ ~crowded' => vectored'[i] = chunked'[i]
      <4>1. CASE i = j
        BY <1>1, <1>4, <1>7, <2>3, <4>1
      <4>2. CASE i # j
        <5>1. i \in Kept /\ i \in Jobs \ {j}
          BY <2>2, <4>2
        <5> QED  BY <1>1, <1>7, <5>1 DEF GenerationsAreWhole
      <4> QED  BY <4>1, <4>2
    <3> QED  BY <3>1 DEF GenerationsAreWhole
  <2>6. PruneInv'
    <3>1. ASSUME NEW c \in chores'
          PROVE  /\ c.old \cap Kept' = {} /\ c.spared \subseteq c.old
                 /\ \A i \in c.old : job'[i].status \in {"completed", "gone"} /\ i <= made'
                 /\ c.do # "reap" => c.old = {}
                 /\ ~lateCite' => c.old \cap cited' \subseteq c.spared
      <4>1. CASE c \in chores
        <5>1. j \notin c.old /\ c.old \subseteq Jobs
          BY <1>2, <4>1 DEF PruneInv
        <5> QED  BY <1>1, <1>7, <2>2, <4>1, <5>1 DEF PruneInv
      <4>2. CASE c = done
        BY <1>5, <4>2
      <4> QED  BY <1>1, <4>1, <4>2
    <3> QED  BY <3>1 DEF PruneInv
  <2>7. CiteInv'
    <3>1. ASSUME NEW i \in {cached, loader.built} \ {0} PROVE job'[i].status \in {"completed", "gone"} /\ i <= made
      <4>1. i \in Jobs /\ job[i].status \in {"completed", "gone"} /\ i <= made
        <5>1. i \in Nat /\ i <= MaxJobs /\ i # 0
          BY DEF IngestTypeOK
        <5> QED  BY <5>1, JobIs DEF CiteInv
      <4> QED  BY <1>2, <1>7, <4>1
    <3>2. ~lateCite' => cited' \subseteq Completed'
      BY <1>1, <2>1 DEF CiteInv
    <3> QED  BY <1>1, <3>1, <3>2 DEF CiteInv
  <2>8. LiveInv'
    <3>1. done \in chores' /\ done.do = "invalidate"
      BY <1>1, <1>5, <1>13
    <3> QED  BY <3>1 DEF LiveInv
  <2> QED  BY <1>9, <1>10, <1>11, <2>4, <2>5, <2>6, <2>7, <2>8 DEF IngestInv
<1> QED  BY <1>6, <1>12, <1>13

LEMMA FailJobStep ==
    ASSUME IngestInv, NEW j \in Jobs, FailJob(j)
    PROVE  IngestInv'
<1> USE InvHas, IngestTypes
<1>1. /\ indexer[j].pc \in {"chunks", "finish"} /\ Mishap /\ indexer' = [indexer EXCEPT ![j] = NoIndexer]
      /\ job' = [job EXCEPT ![j].status = "failed"]
      /\ chores' = chores \cup {Chore("failed", j)} \/ UNCHANGED chores
      /\ UNCHANGED <<base, chunked, vectored, dirs, made, submitting, cited, cached, loader, crowded, lateCite>>
  BY DEF FailJob, Ended
<1>2. job[j].status = "running" /\ submitting # j
  BY <1>1 DEF WorkInv
<1>3. /\ job' \in [Jobs -> JobRows] /\ job'[j].status = "failed"
      /\ job'[j].shape = job[j].shape /\ job'[j].files = job[j].files
      /\ \A i \in Jobs \ {j} : job'[i] = job[i]
  BY <1>1 DEF IngestTypeOK, JobRows
<1>4. /\ indexer' \in [Jobs -> Indexers] /\ indexer'[j] = NoIndexer /\ indexer'[j].pc = "none"
      /\ \A i \in Jobs \ {j} : indexer'[i] = indexer[i]
  BY <1>1, NoneTyped DEF IngestTypeOK
<1>5. chunked'[j] = Readable(chunked'[j])
  BY <1>1 DEF RowsInv
<1>6. chores \subseteq chores' /\ \A c \in chores' : c \in chores \/ c = Chore("failed", j)
  BY <1>1
<1>7. /\ RowsInv' /\ GenerationsAreWhole' /\ PruneInv' /\ CiteInv' /\ LiveInv' /\ Kept' = Kept
      /\ j \notin Completed
  BY <1>1, <1>2, <1>3, <1>5, <1>6, JobMoves
<1>8. IngestTypeOK'
  <2>1. mishaps' \in 0..MaxMishaps
    BY <1>1, IngestAssumption DEF Mishap, IngestTypeOK
  <2>2. chores' \subseteq Chores
    <3>1. j \in 0..MaxJobs
      BY JobIs
    <3> QED  BY <1>6, <3>1, NoneTyped
  <2> QED  BY <1>1, <1>3, <1>4, <2>1, <2>2 DEF IngestTypeOK
<1>9. WorkInv'
  <2>1. ASSUME NEW i \in Jobs
        PROVE  /\ indexer'[i].pc = "queued" => job'[i].status = "queued" /\ submitting' # i /\ indexer'[i].carried = {}
               /\ indexer'[i].pc \in {"chunks", "finish"} =>
                    /\ job'[i].status = "running"
                    /\ indexer'[i].carried \subseteq Readable(job'[i].files)
               /\ submitting' = i => job'[i].status = "queued"
    BY <1>1, <1>2, <1>3, <1>4 DEF WorkInv
  <2>2. InFlight' \subseteq InFlight
    BY <1>3 DEF InFlight
  <2> QED  BY <1>1, <2>1, <2>2 DEF WorkInv
<1>10. CarryInv'
  <2>1. ASSUME ~crowded', NEW i \in Jobs, job'[i].shape = "hybrid"
        PROVE  /\ indexer'[i].pc = "chunks" => \A k \in indexer'[i].sources : k \in Kept' /\ job'[k].shape = "hybrid"
               /\ indexer'[i].pc = "finish" => indexer'[i].bare = {}
    <3>1. \A k \in Kept : job'[k] = job[k]
      BY <1>3, <1>7, KeptIsCompleted
    <3> QED  BY <1>1, <1>3, <1>4, <1>7, <2>1, <3>1 DEF CarryInv
  <2> QED  BY <2>1 DEF CarryInv
<1> QED  BY <1>7, <1>8, <1>9, <1>10 DEF IngestInv

----------------------------------------------------------------------------
\* What is left to do after a commit.

\* Jobs and rows that stay as they are, with the directories of those kept.
LEMMA JobsStay ==
    ASSUME IngestInv, UNCHANGED <<job, chunked, vectored, indexer, submitting, made, crowded>>,
           Kept \subseteq dirs'
    PROVE  /\ RowsInv' /\ WorkInv' /\ GenerationsAreWhole' /\ CarryInv'
           /\ Completed' = Completed /\ Kept' = Kept /\ Live' = Live
<1>1. Completed' = Completed /\ Kept' = Kept /\ Live' = Live /\ InFlight' = InFlight
  BY SameCompleted DEF InFlight
<1> QED  BY <1>1, InvHas DEF RowsInv, WorkInv, GenerationsAreWhole, CarryInv

\* A chore that is done, with what follows it.
LEMMA ChoreDone ==
    ASSUME IngestInv, NEW c \in chores, NEW n \in SUBSET Chores, Next1(c, n),
           UNCHANGED <<job, made, cited, lateCite>>, Kept' = Kept,
           \A d \in n : /\ d.old \cap Kept = {} /\ d.spared \subseteq d.old
                        /\ \A j \in d.old : job[j].status \in {"completed", "gone"} /\ j <= made
                        /\ d.do # "reap" => d.old = {}
                        /\ ~lateCite => d.old \cap cited \subseteq d.spared
    PROVE  PruneInv' /\ chores' \subseteq Chores
<1>1. \A d \in chores' : d \in chores \/ d \in n
  BY DEF Next1
<1>2. PruneInv'
  BY <1>1, InvHas DEF PruneInv
<1>3. chores \subseteq Chores
  BY InvHas DEF IngestTypeOK
<1> QED  BY <1>1, <1>2, <1>3

LEMMA KeptOnDisk ==
    ASSUME IngestInv
    PROVE  Kept \subseteq dirs /\ Kept \cap OldFailures = {}
BY InvHas DEF GenerationsAreWhole, Kept, NewestOf, Completed, OldFailures, Failed

LEMMA InvalidateCacheStep ==
    ASSUME IngestInv, NEW c \in chores, InvalidateCache(c)
    PROVE  IngestInv'
<1> DEFINE n == IF c.by = 0 THEN {} ELSE {[c EXCEPT !.do = "survey"]}
<1>1. /\ c.do = "invalidate" /\ cached' = 0 /\ loader' = [loader EXCEPT !.current = FALSE]
      /\ Next1(c, n)
      /\ UNCHANGED <<base, job, chunked, vectored, dirs, made, submitting, indexer, cited,
                     mishaps, crowded, lateCite>>
  BY DEF InvalidateCache
<1>2. c.old = {} /\ c.spared = {}
  BY <1>1, InvHas DEF PruneInv
<1>3. \A d \in n : d \in Chores /\ d.old = {} /\ d.spared = {}
  BY <1>2, InvHas, IngestTypes DEF Chores
<1>4. loader' \in Loaders /\ loader'.built = loader.built /\ ~loader'.current
  BY <1>1, InvHas DEF IngestTypeOK, Loaders
<1>5. /\ RowsInv' /\ WorkInv' /\ GenerationsAreWhole' /\ CarryInv'
      /\ Completed' = Completed /\ Kept' = Kept /\ Live' = Live
  BY <1>1, JobsStay, KeptOnDisk
<1> HIDE DEF n
<1>6. PruneInv' /\ chores' \subseteq Chores
  BY <1>1, <1>3, <1>5, ChoreDone
<1>7. IngestTypeOK'
  <2>1. cached' \in 0..made'
    BY <1>1, InvHas, IngestTypes
  <2> QED  BY <1>1, <1>4, <1>6, <2>1, InvHas DEF IngestTypeOK
<1>8. CiteInv' /\ LiveInv'
  BY <1>1, <1>4, <1>5, InvHas DEF CiteInv, LiveInv
<1> QED  BY <1>5, <1>6, <1>7, <1>8 DEF IngestInv

LEMMA SurveyOldStep ==
    ASSUME IngestInv, NEW c \in chores, SurveyOld(c)
    PROVE  IngestInv'
<1> DEFINE old == Completed \ Kept
           reap == [c EXCEPT !.do = "reap", !.old = old, !.spared = Spared(old)]
<1>1. /\ c.do = "survey" /\ Next1(c, {reap})
      /\ UNCHANGED <<base, job, chunked, vectored, dirs, made, submitting, indexer, cited, cached,
                     loader, mishaps, crowded, lateCite>>
  BY DEF SurveyOld
<1>2. /\ reap \in Chores /\ reap.do = "reap" /\ reap.old = old /\ reap.spared = old \cap cited
      /\ old \subseteq Completed /\ old \cap Kept = {}
  BY InvHas, IngestTypes, KeptIsCompleted DEF Chores, Spared
<1> HIDE DEF reap, old
<1>3. \A j \in old : job[j].status \in {"completed", "gone"} /\ j <= made
  <2> SUFFICES ASSUME NEW j \in old PROVE job[j].status = "completed" /\ j <= made
    OBVIOUS
  <2>1. j \in Jobs /\ job[j].status = "completed"
    BY <1>2 DEF Completed
  <2>2. ~(j > made) /\ j \in Nat /\ made \in Nat
    BY <2>1, InvHas, IngestTypes, JobIs DEF RowsInv
  <2> QED  BY <2>1, <2>2
<1>4. /\ RowsInv' /\ WorkInv' /\ GenerationsAreWhole' /\ CarryInv'
      /\ Completed' = Completed /\ Kept' = Kept /\ Live' = Live
  BY <1>1, JobsStay, KeptOnDisk
<1>5. PruneInv' /\ chores' \subseteq Chores
  BY <1>1, <1>2, <1>3, <1>4, ChoreDone
<1>6. IngestTypeOK'
  BY <1>1, <1>5, InvHas DEF IngestTypeOK
<1>7. CiteInv'
  BY <1>1, <1>4, InvHas DEF CiteInv
<1>8. LiveInv'
  <2>1. (\A d \in chores' : d.do # "invalidate") => \A d \in chores : d.do # "invalidate"
    BY <1>1 DEF Next1
  <2> QED  BY <1>1, <1>4, <2>1, InvHas DEF LiveInv
<1> QED  BY <1>4, <1>5, <1>6, <1>7, <1>8 DEF IngestInv

LEMMA PruneFailedStep ==
    ASSUME IngestInv, NEW c \in chores, PruneFailed(c)
    PROVE  IngestInv'
<1>1. /\ c.do = "failed" /\ dirs' = dirs \ (OldFailures \ {c.by}) /\ Next1(c, {})
      /\ UNCHANGED <<base, job, chunked, vectored, made, submitting, indexer, cited, cached,
                     loader, mishaps, crowded, lateCite>>
  BY DEF PruneFailed
<1>2. /\ RowsInv' /\ WorkInv' /\ GenerationsAreWhole' /\ CarryInv'
      /\ Completed' = Completed /\ Kept' = Kept /\ Live' = Live
  <2>1. Kept \subseteq dirs'
    BY <1>1, KeptOnDisk
  <2> QED  BY <1>1, <2>1, JobsStay
<1>3. PruneInv' /\ chores' \subseteq Chores
  BY <1>1, <1>2, ChoreDone
<1>4. IngestTypeOK'
  BY <1>1, <1>3, InvHas DEF IngestTypeOK
<1>5. CiteInv'
  BY <1>1, <1>2, InvHas DEF CiteInv
<1>6. LiveInv'
  <2>1. (\A d \in chores' : d.do # "invalidate") => \A d \in chores : d.do # "invalidate"
    BY <1>1 DEF Next1
  <2> QED  BY <1>1, <1>2, <2>1, InvHas DEF LiveInv
<1> QED  BY <1>2, <1>3, <1>4, <1>5, <1>6 DEF IngestInv
\* A prune takes nothing that is kept, in flight or cited.
LEMMA ReapOldStep ==
    ASSUME IngestInv, NEW c \in chores, ReapOld(c)
    PROVE  IngestInv'
<1> DEFINE doomed == c.old \ c.spared
<1>1. /\ c.do = "reap" /\ dirs' = dirs \ (c.old \cup OldFailures)
      /\ vectored' = [j \in Jobs |-> IF j \in c.old THEN {} ELSE vectored[j]]
      /\ chunked' = [j \in Jobs |-> IF j \in doomed THEN {} ELSE chunked[j]]
      /\ job' = [j \in Jobs |-> IF j \in doomed THEN NoJob ELSE job[j]]
      /\ chores' = chores \ {c}
      /\ UNCHANGED <<base, made, submitting, indexer, cited, cached, loader, mishaps, crowded, lateCite>>
  BY DEF ReapOld, Next1
<1>2. /\ c.old \subseteq Jobs /\ c.old \cap Kept = {}
      /\ \A j \in c.old : job[j].status \in {"completed", "gone"}
      /\ ~lateCite => doomed \cap cited = {}
  BY InvHas, IngestTypes DEF PruneInv
<1>3. doomed \subseteq c.old
  OBVIOUS
<1> HIDE DEF doomed
<1>4. \A j \in Jobs : /\ j \in doomed => job'[j].status = "gone" /\ chunked'[j] = {}
                      /\ j \notin doomed => job'[j] = job[j] /\ chunked'[j] = chunked[j]
                      /\ j \in c.old => vectored'[j] = {}
                      /\ j \notin c.old => vectored'[j] = vectored[j]
  BY <1>1, NoneTyped
<1>5. Completed' = Completed \ doomed
  BY <1>4 DEF Completed
<1>6. Kept' = Kept /\ Live' = Live
  <2>1. Completed \in SUBSET Jobs /\ Completed' \in SUBSET Completed /\ NewestOf(Completed, 2) \subseteq Completed'
    BY <1>2, <1>3, <1>5, KeptIsCompleted DEF Kept
  <2>2. NewestOf(Completed', 2) = NewestOf(Completed, 2) /\ Newest(Completed') = Newest(Completed)
    BY <2>1, KeptStays
  <2>3. Kept' = NewestOf(Completed', 2) /\ Live' = Newest(Completed')
    BY DEF Kept, NewestOf, Live, Newest
  <2> QED  BY <2>2, <2>3 DEF Kept, Live
<1>7. \A j \in Kept : j \in Jobs /\ j \notin c.old /\ j \notin doomed
  BY <1>2, <1>3, KeptIsCompleted
<1>8. IngestTypeOK'
  <2>1. job' \in [Jobs -> JobRows]
    BY <1>1, NoneTyped, InvHas DEF IngestTypeOK
  <2>2. chunked' \in [Jobs -> SUBSET File] /\ vectored' \in [Jobs -> SUBSET File]
    BY <1>1, InvHas, IngestTypes
  <2>3. \A j \in Jobs : vectored'[j] \subseteq chunked'[j]
    BY <1>3, <1>4, InvHas DEF IngestTypeOK
  <2>4. chores' \subseteq Chores /\ dirs' \subseteq Jobs
    BY <1>1, InvHas DEF IngestTypeOK
  <2> QED  BY <1>1, <2>1, <2>2, <2>3, <2>4, InvHas DEF IngestTypeOK
<1>9. RowsInv'
  <2>1. \A j \in Jobs : j > made' => job'[j].status = "gone"
    BY <1>1, <1>4, InvHas DEF RowsInv
  <2>2. \A j \in Completed' : chunked'[j] = Readable(job'[j].files) /\ chunked'[j] # {}
    BY <1>4, <1>5, KeptIsCompleted, InvHas DEF RowsInv
  <2>3. \A j \in Jobs : chunked'[j] = Readable(chunked'[j])
    <3>1. Readable({}) = {}
      BY DEF Readable
    <3> QED  BY <1>4, <3>1, InvHas DEF RowsInv
  <2> QED  BY <2>1, <2>2, <2>3 DEF RowsInv
<1>10. WorkInv'
  <2>1. ASSUME NEW j \in Jobs
        PROVE  /\ indexer'[j].pc = "queued" => job'[j].status = "queued" /\ submitting' # j /\ indexer'[j].carried = {}
               /\ indexer'[j].pc \in {"chunks", "finish"} =>
                    /\ job'[j].status = "running"
                    /\ indexer'[j].carried \subseteq Readable(job'[j].files)
               /\ submitting' = j => job'[j].status = "queued"
    <3>1. job[j].status \in {"queued", "running"} => job'[j] = job[j]
      BY <1>2, <1>3, <1>4
    <3> QED  BY <1>1, <3>1, InvHas DEF WorkInv
  <2>2. InFlight' \subseteq InFlight
    BY <1>4 DEF InFlight
  <2>3. ~crowded' => \A i, j \in InFlight' : i = j
    BY <1>1, <2>2, InvHas DEF WorkInv
  <2> QED  BY <2>1, <2>3 DEF WorkInv
<1>11. GenerationsAreWhole'
  <2>1. ASSUME NEW j \in Kept
        PROVE  /\ chunked'[j] = Readable(job'[j].files) /\ chunked'[j] # {}
               /\ j \in dirs'
               /\ job'[j].shape = "hybrid" /\ ~crowded' => vectored'[j] = chunked'[j]
    <3>1. job'[j] = job[j] /\ chunked'[j] = chunked[j] /\ vectored'[j] = vectored[j]
      BY <1>4, <1>7
    <3>2. j \in dirs'
      BY <1>1, <1>7, KeptOnDisk
    <3> QED  BY <1>1, <3>1, <3>2, InvHas DEF GenerationsAreWhole
  <2> QED  BY <1>6, <2>1 DEF GenerationsAreWhole
<1>12. CarryInv'
  <2>1. ASSUME ~crowded', NEW j \in Jobs, job'[j].shape = "hybrid"
        PROVE  /\ indexer'[j].pc = "chunks" => \A k \in indexer'[j].sources : k \in Kept' /\ job'[k].shape = "hybrid"
               /\ indexer'[j].pc = "finish" => indexer'[j].bare = {}
    <3>1. CASE indexer[j].pc \in {"chunks", "finish"}
      <4>1. job[j].status = "running"
        BY <3>1, InvHas DEF WorkInv
      <4>2. job'[j] = job[j]
        BY <1>2, <1>3, <1>4, <4>1
      <4>3. \A k \in Kept : job'[k] = job[k]
        BY <1>4, <1>7
      <4> QED  BY <1>1, <1>6, <2>1, <4>2, <4>3, InvHas DEF CarryInv
    <3>2. CASE indexer[j].pc \notin {"chunks", "finish"}
      BY <1>1, <3>2
    <3> QED  BY <3>1, <3>2
  <2> QED  BY <2>1 DEF CarryInv
<1>13. PruneInv'
  <2>1. ASSUME NEW d \in chores'
        PROVE  /\ d.old \cap Kept' = {} /\ d.spared \subseteq d.old
               /\ \A j \in d.old : job'[j].status \in {"completed", "gone"} /\ j <= made'
               /\ d.do # "reap" => d.old = {}
               /\ ~lateCite' => d.old \cap cited' \subseteq d.spared
    <3>1. d \in chores /\ d.old \subseteq Jobs
      BY <1>1, InvHas, IngestTypes
    <3> QED  BY <1>1, <1>4, <1>6, <3>1, InvHas DEF PruneInv
  <2> QED  BY <2>1 DEF PruneInv
<1>14. CiteInv'
  <2>1. ~lateCite' => cited' \subseteq Completed'
    BY <1>1, <1>2, <1>5, InvHas DEF CiteInv
  <2>2. ASSUME NEW j \in {cached, loader.built} \ {0} PROVE job'[j].status \in {"completed", "gone"} /\ j <= made
    <3>1. j \in Jobs /\ job[j].status \in {"completed", "gone"} /\ j <= made
      <4>1. j \in Nat /\ j <= MaxJobs /\ j # 0
        BY InvHas, IngestTypes DEF IngestTypeOK
      <4> QED  BY <4>1, JobIs, InvHas DEF CiteInv
    <3> QED  BY <1>4, <3>1
  <2> QED  BY <1>1, <2>1, <2>2 DEF CiteInv
<1>15. LiveInv'
  <2>1. (\A d \in chores' : d.do # "invalidate") => \A d \in chores : d.do # "invalidate"
    BY <1>1
  <2> QED  BY <1>1, <1>6, <2>1, InvHas DEF LiveInv
<1> QED  BY <1>8, <1>9, <1>10, <1>11, <1>12, <1>13, <1>14, <1>15 DEF IngestInv
----------------------------------------------------------------------------
\* Those who compile the team and run it, and restarts.

\* Requests of a team leave everything but the cache, the references and themselves.
LEMMA LoaderMoves ==
    ASSUME IngestInv, UNCHANGED <<base, job, chunked, vectored, dirs, made, submitting, indexer, chores,
                                  mishaps, crowded>>,
           loader' \in Loaders, cached' \in 0..made, cited' \subseteq Jobs, lateCite' \in BOOLEAN,
           ~lateCite' => ~lateCite /\ cited' \subseteq Completed,
           \A c \in chores : ~lateCite' => c.old \cap cited' \subseteq c.spared,
           \A j \in {cached', loader'.built} \ {0} : job[j].status \in {"completed", "gone"} /\ j <= made,
           LiveInv'
    PROVE  IngestInv'
<1>1. /\ RowsInv' /\ WorkInv' /\ GenerationsAreWhole' /\ CarryInv'
      /\ Completed' = Completed /\ Kept' = Kept /\ Live' = Live
  BY JobsStay, KeptOnDisk
<1>2. IngestTypeOK'
  BY InvHas DEF IngestTypeOK
<1>3. PruneInv'
  BY <1>1, InvHas DEF PruneInv
<1>4. CiteInv'
  BY <1>1 DEF CiteInv
<1> QED  BY <1>1, <1>2, <1>3, <1>4 DEF IngestInv

LEMMA LoaderStep ==
    ASSUME IngestInv, ResolveTeam \/ BuildTeam \/ StoreTeam \/ CiteGeneration \/ EndRun
    PROVE  IngestInv'
<1>1. /\ loader \in Loaders /\ loader.built \in 0..MaxJobs /\ loader.current \in BOOLEAN
      /\ cached \in 0..made /\ made \in Nat /\ made <= MaxJobs /\ cached \in 0..MaxJobs
      /\ cited \subseteq Jobs /\ lateCite \in BOOLEAN
  <2>1. made \in 0..MaxJobs /\ cached \in 0..made /\ MaxJobs \in Nat
    BY InvHas, IngestTypes DEF IngestTypeOK
  <2>2. cached \in 0..MaxJobs
    BY <2>1
  <2> QED  BY <2>1, <2>2, InvHas, IngestTypes DEF IngestTypeOK
<1>2. /\ ~lateCite => cited \subseteq Completed
      /\ \A c \in chores : ~lateCite => c.old \cap cited \subseteq c.spared
      /\ \A j \in {cached, loader.built} \ {0} : job[j].status \in {"completed", "gone"} /\ j <= made
  BY InvHas DEF CiteInv, PruneInv
<1>3. ASSUME UNCHANGED job PROVE Live' = Live
  BY <1>3, SameCompleted
<1>4. CASE ResolveTeam
  <2>1. /\ loader' = [Loader(IF cached = 0 THEN "build" ELSE "run") EXCEPT !.built = cached]
        /\ UNCHANGED <<base, job, chunked, vectored, dirs, made, submitting, indexer, chores, cited,
                       cached, mishaps, crowded, lateCite>>
    BY <1>4 DEF ResolveTeam
  <2>2. loader' \in Loaders /\ loader'.built = cached /\ loader'.pc # "store"
    BY <1>1, <2>1 DEF Loader, Loaders
  <2>3. LiveInv'
    BY <1>3, <2>1, <2>2, InvHas DEF LiveInv
  <2> QED  BY <1>1, <1>2, <2>1, <2>2, <2>3, LoaderMoves
<1>5. CASE BuildTeam
  <2>1. /\ loader' = IF Live = 0 THEN Loader("idle") ELSE [loader EXCEPT !.pc = "store", !.built = Live]
        /\ UNCHANGED <<base, job, chunked, vectored, dirs, made, submitting, indexer, chores, cited,
                       cached, mishaps, crowded, lateCite>>
    BY <1>5 DEF BuildTeam
  <2>2. /\ Live \in 0..MaxJobs
        /\ Live # 0 => job[Live].status = "completed" /\ Live <= made
    <3>1. CASE Live = 0
      BY <1>1, <3>1, IngestAssumption
    <3>2. CASE Live # 0
      <4>1. Live \in Jobs /\ Live \in Completed
        BY <3>2, LiveIs, KeptIsCompleted
      <4>2. job[Live].status = "completed" /\ ~(Live > made) /\ Live \in Nat /\ Live <= MaxJobs
        BY <4>1, InvHas, JobIs DEF Completed, RowsInv
      <4> QED  BY <1>1, <4>2
    <3> QED  BY <3>1, <3>2
  <2>3. /\ loader' \in Loaders /\ loader'.built \in {0, Live}
        /\ loader'.pc = "store" => loader'.built = Live
    BY <1>1, <2>1, <2>2, NoneTyped DEF Loaders
  <2>4. LiveInv'
    BY <1>3, <2>1, <2>3, InvHas DEF LiveInv
  <2>5. \A j \in {cached', loader'.built} \ {0} : job[j].status \in {"completed", "gone"} /\ j <= made
    BY <1>2, <2>1, <2>2, <2>3
  <2> QED  BY <1>1, <1>2, <2>1, <2>3, <2>4, <2>5, LoaderMoves
<1>6. CASE StoreTeam
  <2>1. /\ loader.pc = "store" /\ cached' = IF loader.current THEN loader.built ELSE cached
        /\ loader' = [loader EXCEPT !.pc = "run"]
        /\ UNCHANGED <<base, job, chunked, vectored, dirs, made, submitting, indexer, chores, cited,
                       mishaps, crowded, lateCite>>
    BY <1>6 DEF StoreTeam, StillCurrent
  <2>2. loader' \in Loaders /\ loader'.built = loader.built /\ loader'.pc = "run"
    BY <1>1, <2>1 DEF Loaders
  <2>3. cached' \in {cached, loader.built} /\ loader.built \in 0..made
    BY <1>1, <1>2, <2>1
  <2>4. LiveInv'
    BY <1>3, <2>1, <2>2, InvHas DEF LiveInv
  <2>5. \A j \in {cached', loader'.built} \ {0} : job[j].status \in {"completed", "gone"} /\ j <= made
    BY <1>2, <2>2, <2>3
  <2>6. cached' \in 0..made
    BY <1>1, <2>3
  <2> QED  BY <1>1, <1>2, <2>1, <2>2, <2>4, <2>5, <2>6, LoaderMoves
<1>7. CASE CiteGeneration
  <2>1. /\ loader.built \in Present /\ cited' = cited \cup {loader.built}
        /\ lateCite' = (lateCite \/ \E c \in chores : c.do = "reap" /\ loader.built \in c.old \ c.spared)
        /\ loader' = [loader EXCEPT !.pc = "cited"]
        /\ UNCHANGED <<base, job, chunked, vectored, dirs, made, submitting, indexer, chores, cached,
                       mishaps, crowded>>
    BY <1>7 DEF CiteGeneration
  <2>2. loader' \in Loaders /\ loader'.built = loader.built /\ loader'.pc = "cited"
    BY <1>1, <2>1 DEF Loaders
  <2>3. loader.built \in Jobs /\ loader.built \in Completed
    <3>1. loader.built \in Jobs /\ job[loader.built].status # "gone"
      BY <2>1 DEF Present
    <3>2. loader.built # 0
      BY <3>1, JobIs
    <3> QED  BY <1>2, <3>1, <3>2 DEF Completed
  <2>4. \A c \in chores : ~lateCite' => c.old \cap cited' \subseteq c.spared
    <3> SUFFICES ASSUME NEW c \in chores, ~lateCite' PROVE c.old \cap cited' \subseteq c.spared
      OBVIOUS
    <3>1. c.old \cap cited \subseteq c.spared
      BY <1>2, <2>1
    <3>2. c.do # "reap" => c.old = {}
      BY InvHas DEF PruneInv
    <3> QED  BY <2>1, <3>1, <3>2
  <2>5. LiveInv'
    BY <1>3, <2>1, <2>2, InvHas DEF LiveInv
  <2>6. lateCite' \in BOOLEAN /\ (~lateCite' => ~lateCite)
    BY <1>1, <2>1
  <2> QED  BY <1>1, <1>2, <2>1, <2>2, <2>3, <2>4, <2>5, <2>6, LoaderMoves
<1>8. CASE EndRun
  <2>1. /\ loader' = Loader("over") /\ cited' = cited \ {loader.built}
        /\ UNCHANGED <<base, job, chunked, vectored, dirs, made, submitting, indexer, chores, cached,
                       mishaps, crowded, lateCite>>
    BY <1>8 DEF EndRun
  <2>2. loader' \in Loaders /\ loader'.built = 0 /\ loader'.pc = "over"
    BY <2>1, NoneTyped
  <2>3. LiveInv'
    BY <1>3, <2>1, <2>2, InvHas DEF LiveInv
  <2> QED  BY <1>1, <1>2, <2>1, <2>2, <2>3, LoaderMoves
<1> QED  BY <1>4, <1>5, <1>6, <1>7, <1>8

\* No job stays in flight across a restart, and nothing is left to do.
LEMMA RestartIngestStep ==
    ASSUME IngestInv, RestartIngest
    PROVE  IngestInv'
<1>1. /\ job' = [j \in Jobs |-> IF j \in InFlight THEN [job[j] EXCEPT !.status = "failed"] ELSE job[j]]
      /\ submitting' = 0 /\ indexer' = [j \in Jobs |-> NoIndexer] /\ chores' = {}
      /\ cached' = 0 /\ loader' = Loader("over") /\ Mishap
      /\ UNCHANGED <<base, chunked, vectored, dirs, made, cited, crowded, lateCite>>
  BY DEF RestartIngest
<1>2. ASSUME NEW j \in Jobs
      PROVE  /\ job'[j] \in JobRows /\ job'[j].shape = job[j].shape /\ job'[j].files = job[j].files
             /\ job'[j].status \notin {"queued", "running"}
             /\ job'[j].status = "completed" <=> job[j].status = "completed"
             /\ job[j].status = "gone" => job'[j].status = "gone"
  <2>1. job[j] \in JobRows
    BY InvHas, IngestTypes
  <2>2. CASE j \in InFlight
    <3>1. job'[j] = [job[j] EXCEPT !.status = "failed"] /\ job[j].status \in {"queued", "running"}
      BY <1>1, <2>2 DEF InFlight
    <3> QED  BY <2>1, <3>1 DEF JobRows
  <2>3. CASE j \notin InFlight
    BY <1>1, <2>1, <2>3 DEF InFlight
  <2> QED  BY <2>2, <2>3
<1>3. job' \in [Jobs -> JobRows] /\ indexer' \in [Jobs -> Indexers]
  BY <1>1, <1>2, NoneTyped
<1>4. Completed' = Completed /\ Kept' = Kept /\ Live' = Live
  BY <1>2, SameCompleted
<1>5. loader' \in Loaders /\ loader'.built = 0 /\ loader'.pc = "over"
  BY <1>1, NoneTyped
<1>6. IngestTypeOK'
  <2>1. mishaps' \in 0..MaxMishaps
    BY <1>1, IngestAssumption, InvHas DEF Mishap, IngestTypeOK
  <2>2. submitting' \in 0..made' /\ cached' \in 0..made'
    BY <1>1, InvHas, IngestTypes
  <2> QED  BY <1>1, <1>3, <1>5, <2>1, <2>2, InvHas DEF IngestTypeOK
<1>7. RowsInv'
  <2>1. \A j \in Completed' : chunked'[j] = Readable(job'[j].files) /\ chunked'[j] # {}
    BY <1>1, <1>2, <1>4, KeptIsCompleted, InvHas DEF RowsInv
  <2> QED  BY <1>1, <1>2, <2>1, InvHas DEF RowsInv
<1>8. WorkInv'
  <2>1. \A j \in Jobs : indexer'[j].pc = "none" /\ submitting' # j
    BY <1>1, NoneTyped, JobIs
  <2>2. InFlight' = {}
    BY <1>2 DEF InFlight
  <2> QED  BY <2>1, <2>2 DEF WorkInv
<1>9. GenerationsAreWhole'
  BY <1>1, <1>2, <1>4, KeptIsCompleted, InvHas DEF GenerationsAreWhole
<1>10. CarryInv'
  BY <1>1, NoneTyped DEF CarryInv
<1>11. PruneInv' /\ LiveInv'
  BY <1>1, <1>5 DEF PruneInv, LiveInv
<1>12. CiteInv'
  BY <1>1, <1>4, <1>5, InvHas DEF CiteInv
<1> QED  BY <1>6, <1>7, <1>8, <1>9, <1>10, <1>11, <1>12 DEF IngestInv
----------------------------------------------------------------------------
LEMMA IngestStarts == IngestInit => IngestInv
<1> SUFFICES ASSUME IngestInit PROVE IngestInv
  OBVIOUS
<1> USE DEF IngestInit
<1>1. 0 \in 0..MaxJobs /\ 0 \in 0..MaxMishaps /\ 0 \in 0..0
  BY IngestAssumption
<1>2. \A j \in Jobs : job[j] = NoJob /\ job[j].status = "gone" /\ indexer[j].pc = "none"
  BY NoneTyped
<1>3. Completed = {} /\ Kept = {} /\ Live = 0 /\ InFlight = {}
  <2>1. Completed = {} /\ InFlight = {}
    BY <1>2 DEF Completed, InFlight
  <2> QED  BY <2>1, KeptIsCompleted, LiveIs
<1>4. loader \in Loaders /\ loader.pc = "idle" /\ loader.built = 0
  BY NoneTyped
<1>5. IngestTypeOK
  BY <1>1, <1>4, NoneTyped DEF IngestTypeOK, Shapes
<1>6. RowsInv
  <2>1. Readable({}) = {}
    BY DEF Readable
  <2> QED  BY <1>2, <1>3, <2>1 DEF RowsInv
<1>7. WorkInv
  <2>1. \A j \in Jobs : submitting # j
    BY JobIs
  <2> QED  BY <1>2, <1>3, <2>1 DEF WorkInv
<1>8. GenerationsAreWhole /\ CarryInv /\ PruneInv /\ CiteInv /\ LiveInv
  BY <1>2, <1>3, <1>4 DEF GenerationsAreWhole, CarryInv, PruneInv, CiteInv, LiveInv
<1> QED  BY <1>5, <1>6, <1>7, <1>8 DEF IngestInv

LEMMA IngestStutter == IngestInv /\ UNCHANGED ingestVars => IngestInv'
<1> SUFFICES ASSUME IngestInv, UNCHANGED ingestVars PROVE IngestInv'
  OBVIOUS
<1>1. UNCHANGED <<base, job, chunked, vectored, dirs, made, submitting, indexer, chores,
                  cited, cached, loader, mishaps, crowded, lateCite>>
  BY DEF ingestVars
<1>2. /\ RowsInv' /\ GenerationsAreWhole' /\ PruneInv' /\ CiteInv' /\ LiveInv'
      /\ Kept' = Kept /\ InFlight' = InFlight
  BY <1>1, IndexerMoves
<1> QED  BY <1>1, <1>2, InvHas DEF IngestInv, IngestTypeOK, WorkInv, CarryInv

\* Every step of ingestion keeps the invariant: every reachable state has rows only for
\* ids given out, at most one job in flight unless an operator's upload did not wait,
\* prunes that have decided on old generations only, and a cache that is live or about
\* to be cleared.
THEOREM IngestInvariance == IngestSpec => []IngestInv
<1>1. IngestInit => IngestInv
  BY IngestStarts
<1>2. IngestInv /\ [IngestNext]_ingestVars => IngestInv'
  <2> SUFFICES ASSUME IngestInv, [IngestNext]_ingestVars PROVE IngestInv'
    OBVIOUS
  <2>1. CASE UNCHANGED ingestVars
    BY <2>1, IngestStutter
  <2>2. CASE \E F \in Uploads : \/ \E mode \in {"replace", "add"}, shape \in Shapes : UploadOwn(F, mode, shape)
                                \/ UploadAsAdmin(F)
    BY <2>2, RequestsStep
  <2>3. CASE (\E f \in File : RemoveDocument(f)) \/ RestorePrevious
    BY <2>3, RequestsStep
  <2>4. CASE SubmitJob \/ DeleteBase \/ RestartIngest
    BY <2>4, SubmitJobStep, DeleteBaseStep, RestartIngestStep
  <2>5. CASE \E j \in Jobs : RetryJob(j) \/ BeginJob(j) \/ ReadChunks(j) \/ FinishJob(j) \/ FailJob(j)
    BY <2>5, RetryJobStep, BeginJobStep, ReadChunksStep, FinishJobStep, FailJobStep
  <2>6. CASE \E c \in chores : InvalidateCache(c) \/ SurveyOld(c) \/ ReapOld(c) \/ PruneFailed(c)
    BY <2>6, InvalidateCacheStep, SurveyOldStep, ReapOldStep, PruneFailedStep
  <2>7. CASE ResolveTeam \/ BuildTeam \/ StoreTeam \/ CiteGeneration \/ EndRun
    BY <2>7, LoaderStep
  <2> QED  BY <2>1, <2>2, <2>3, <2>4, <2>5, <2>6, <2>7 DEF IngestNext
<1> QED  BY <1>1, <1>2, PTL DEF IngestSpec

\* Every variable of ingestion keeps its type, and no file has vectors without chunks.
THEOREM IngestTypeCorrect == IngestSpec => []IngestTypeOK
<1>1. IngestInv => IngestTypeOK
  BY DEF IngestInv
<1> QED  BY <1>1, IngestInvariance, PTL

\* A generation that can be searched or restored is whole, whatever uploads, retries,
\* prunes and restarts came between.
THEOREM GenerationsAreWholeHolds == IngestSpec => []GenerationsAreWhole
<1>1. IngestInv => GenerationsAreWhole
  BY DEF IngestInv
<1> QED  BY <1>1, IngestInvariance, PTL

\* Once the cache has been cleared after the last change, no pipeline compiled against
\* an older generation is served from it, though a request may have been compiling one
\* while it was cleared.
THEOREM CacheFollowsLiveHolds == IngestSpec => []CacheFollowsLive
<1>1. IngestInv => CacheFollowsLive
  BY DEF IngestInv, LiveInv, CacheFollowsLive
<1> QED  BY <1>1, IngestInvariance, PTL

\* What a stored trace names can be resolved to text, except for a reference written
\* while a prune was between its question and its answer.
THEOREM AuditResolvesHolds == IngestSpec => []AuditResolves
<1>1. IngestInv => AuditResolves
  BY DEF IngestInv, CiteInv, RowsInv, AuditResolves
<1> QED  BY <1>1, IngestInvariance, PTL

----------------------------------------------------------------------------
(* MailAftermath.                                                          *)

Running(r) == batchRun[r].status = "running"

\* The messages some persisted evidence says a draft was written for.
Evident == DraftedBy({q \in Ids : batchRun[q].status # "none"}, items)

\* Whether run q's evidence shows u drafted.
Shown(q, u) == u \in evidence[q] \/ (u \in Uids /\ items[q][u] = "drafted")

\* The messages whose evidence was lost, in one way or the other.
Pardoned == excused \cup untold

\* What the run at work has drafted or found drafted, reported or not.
Known == unreported \cup observed

\* What has been drafted is somewhere; unless it is pardoned, the run at work knows
\* it, or the evidence does.
TraceInv ==
    /\ Known \cup Evident \subseteq {u \in Uids : place[u] # "nowhere"}
    /\ \A u \in Uids : place[u] # "nowhere" => u \in Known \cup Pardoned \cup Evident
    /\ (\A r \in Ids : ~Running(r)) => Known = {}
    /\ \A q \in Ids : batchRun[q].status = "none" => \A u \in Uids : ~Shown(q, u)

\* A run at work asks only for messages it has drafted itself, that nobody has
\* drafted, or that are pardoned.
BatchInv ==
    \A r \in Ids : \A u \in Undealt(r) : place[u] = "nowhere" \/ u \in Pardoned

\* What the poller did not find in Drafts is on its way or sent, unless it was thrown
\* away once; what it has been looking for was written.
LookInv ==
    /\ ~look.on => look.gone = {}
    /\ look.gone \subseteq Pending
    /\ \A u \in look.gone : place[u] \in Away \/ u \in strayed \cup Pardoned
    /\ \A u \in Uids : place[u] = "trash" => u \in strayed
    /\ \A u \in Uids : outcome[u].status # "none" => place[u] # "nowhere"
    /\ \A u \in Pending : outcome[u].miss < MissThreshold

\* A message missed once is no longer about to leave, so that one missed twice has
\* been looked for in Sent after it arrived.
MissInv ==
    \A u \in Uids \ (strayed \cup Pardoned) :
        /\ outcome[u].status = "pending" /\ outcome[u].miss > 0 => place[u] \in {"late", "sent"}
        /\ outcome[u].status = "handled" => place[u] = "sent" /\ ~clue[u]

AftermathInv ==
    /\ AftermathTypeOK
    /\ TraceInv /\ BatchInv /\ SentMailIsNotRedrafted
    /\ LookInv /\ (MissThreshold > 1 => MissInv)

----------------------------------------------------------------------------
\* Typing.

LEMMA AftermathTypes ==
    ASSUME AftermathTypeOK
    PROVE  /\ \A r \in Ids : /\ batchRun[r] \in [status : Statuses, uids : SUBSET Uids]
                             /\ batchRun[r].status \in Statuses /\ batchRun[r].uids \in SUBSET Uids
                             /\ evidence[r] \in SUBSET Uids
                             /\ items[r] \in [Uids -> {"none", "drafted", "plain"}]
           /\ \A u \in Uids : /\ outcome[u].status \in {"none", "pending", "sent", "handled", "unknown"}
                              /\ outcome[u].miss \in 0..MissThreshold
                              /\ place[u] \in {"nowhere", "drafts", "outbox", "late", "sent", "trash"}
                              /\ clue[u] \in BOOLEAN
           /\ look.on \in BOOLEAN /\ look.gone \in SUBSET Uids
           /\ look = [on |-> look.on, gone |-> look.gone]
BY DEF AftermathTypeOK

LEMMA EvidentIs ==
    /\ \A u : u \in Evident <=> \E q \in Ids : batchRun[q].status # "none" /\ Shown(q, u)
    /\ \A u : u \in Evident' <=> \E q \in Ids : batchRun[q].status' # "none" /\ Shown(q, u)'
BY DEF Evident, DraftedBy, Shown

LEMMA FamilyIs == \A r \in Ids : DraftedBy(Family(r), items) = Evident
BY DEF Family, Evident

\* A step of the customer's or the poller's moves no draft out of the mailbox's sight,
\* and changes nothing of what the runs know.
LEMMA RunsUntouched ==
    ASSUME AftermathInv, UNCHANGED <<batchRun, unreported, observed, evidence, items, toldVars>>,
           \A u \in Uids : place'[u] = "nowhere" <=> place[u] = "nowhere"
    PROVE  TraceInv' /\ BatchInv' /\ SentMailIsNotRedrafted'
<1>1. Evident' = Evident
  BY DEF Evident, DraftedBy
<1>2. TraceInv /\ BatchInv /\ SentMailIsNotRedrafted /\ Evident \subseteq Uids /\ Known \subseteq Uids
  BY DEF AftermathInv, TraceInv
<1>3. Known' = Known /\ Pardoned' = Pardoned /\ redone' = redone /\ excused' = excused /\ untold' = untold
  BY DEF Known, Pardoned, toldVars
<1>4. TraceInv'
  BY <1>1, <1>2, <1>3 DEF TraceInv, Running, Shown
<1>5. BatchInv'
  <2>1. \A r \in Ids : Undealt(r) \subseteq Uids /\ Undealt(r)' = Undealt(r)
    BY AftermathTypes DEF AftermathInv, Undealt
  <2> QED  BY <1>2, <1>3, <2>1 DEF BatchInv
<1> QED  BY <1>2, <1>3, <1>4, <1>5 DEF SentMailIsNotRedrafted

----------------------------------------------------------------------------
\* The runs.

\* A draft is written for a message that is nowhere yet, or excused, or whose last
\* draft the scan did not look for.
LEMMA WriteDraftStep ==
    ASSUME AftermathInv, NEW r \in Ids, NEW u \in Uids, WriteDraft(r, u)
    PROVE  AftermathInv'
<1>1. /\ AftermathTypeOK /\ TraceInv /\ BatchInv /\ LookInv /\ redone \subseteq Pardoned
      /\ MissThreshold > 1 => MissInv
  BY DEF AftermathInv, SentMailIsNotRedrafted, Pardoned
<1>2. PICK scanned \in BOOLEAN : (scanned => place[u] # "drafts") /\ Mischance(~scanned)
  BY DEF WriteDraft
<1>3. /\ u \in Undealt(r) /\ unreported' = unreported \cup {u}
      /\ excused' = IF place[u] # "drafts" THEN excused ELSE excused \cup {u}
      /\ redone' = IF place[u] \in Away THEN redone \cup {u} ELSE redone
      /\ place' = [place EXCEPT ![u] = "drafts"] /\ clue' = [clue EXCEPT ![u] = FALSE]
      /\ UNCHANGED <<batchRun, contract, observed, evidence, items, outcome, look, untold, strayed>>
  BY DEF WriteDraft
<1>4. place[u] = "nowhere" \/ u \in Pardoned
  BY <1>1, <1>3 DEF BatchInv
<1>5. /\ place' \in [Uids -> {"nowhere", "drafts", "outbox", "late", "sent", "trash"}]
      /\ place'[u] = "drafts" /\ \A v \in Uids \ {u} : place'[v] = place[v] /\ clue'[v] = clue[v]
      /\ clue' \in [Uids -> BOOLEAN]
  BY <1>1, <1>3 DEF AftermathTypeOK
<1>6. Known' = Known \cup {u} /\ Pardoned \subseteq Pardoned' /\ Pardoned' \subseteq Pardoned \cup {u}
  BY <1>3 DEF Known, Pardoned
<1>7. Running(r) /\ u \in batchRun[r].uids
  BY <1>3 DEF Undealt, Running
<1>8. Evident' = Evident
  BY <1>3 DEF Evident, DraftedBy
<1>9. AftermathTypeOK'
  <2>1. mischances' \in 0..MaxMischances
    <3>1. mischances \in 0..MaxMischances
      BY <1>1 DEF AftermathTypeOK
    <3> QED  BY <1>2, <3>1, AftermathAssumption DEF Mischance
  <2>2. redone' \cup excused' \cup untold' \cup strayed' \subseteq Uids /\ unreported' \cup observed' \subseteq Uids
    BY <1>1, <1>3 DEF AftermathTypeOK
  <2>3. /\ batchRun' \in [Ids -> [status : Statuses, uids : SUBSET Uids]]
        /\ \A p, q \in Ids : batchRun'[p].status = "running" /\ batchRun'[q].status = "running" => p = q
        /\ contract' \in BOOLEAN /\ evidence' \in [Ids -> SUBSET Uids]
        /\ items' \in [Ids -> [Uids -> {"none", "drafted", "plain"}]]
        /\ outcome' \in [Uids -> [status : {"none", "pending", "sent", "handled", "unknown"}, miss : 0 .. MissThreshold]]
        /\ look' \in [on : BOOLEAN, gone : SUBSET Uids]
    BY <1>1, <1>3 DEF AftermathTypeOK
  <2> QED  BY <1>5, <2>1, <2>2, <2>3 DEF AftermathTypeOK
<1>10. TraceInv'
  <2>1. Known' \cup Evident' \subseteq {v \in Uids : place'[v] # "nowhere"}
    BY <1>1, <1>5, <1>6, <1>8 DEF TraceInv
  <2>2. \A v \in Uids : place'[v] # "nowhere" => v \in Known' \cup Pardoned' \cup Evident'
    BY <1>1, <1>5, <1>6, <1>8 DEF TraceInv
  <2>3. Running(r)'
    BY <1>3, <1>7 DEF Running
  <2>4. \A q \in Ids : batchRun'[q].status = "none" => \A v \in Uids : ~Shown(q, v)'
    BY <1>1, <1>3 DEF TraceInv, Shown
  <2> QED  BY <2>1, <2>2, <2>3, <2>4 DEF TraceInv
<1>11. BatchInv'
  <2>1. \A q \in Ids : Undealt(q)' \subseteq Undealt(q) \ {u} /\ Undealt(q) \subseteq Uids
    BY <1>1, <1>3, AftermathTypes DEF Undealt
  <2> QED  BY <1>1, <1>5, <1>6, <2>1 DEF BatchInv
<1>12. SentMailIsNotRedrafted'
  <2>1. redone' \subseteq redone \cup {u} /\ (u \in redone' => u \in redone \/ place[u] \in Away)
    BY <1>3
  <2> QED  BY <1>1, <1>4, <1>6, <2>1 DEF SentMailIsNotRedrafted, Pardoned, Away
<1>13. LookInv'
  <2>1. Pending' = Pending
    BY <1>3 DEF Pending
  <2>2. \A v \in look.gone : place'[v] \in Away \/ v \in strayed' \cup Pardoned'
    <3> SUFFICES ASSUME NEW v \in look.gone PROVE place'[v] \in Away \/ v \in strayed' \cup Pardoned'
      OBVIOUS
    <3>1. place[v] \in Away \/ v \in strayed \cup Pardoned
      BY <1>1 DEF LookInv
    <3>2. v \in Uids
      BY <1>1, AftermathTypes
    <3> QED  BY <1>3, <1>4, <1>5, <1>6, <3>1, <3>2 DEF Away
  <2> QED  BY <1>1, <1>3, <1>5, <2>1, <2>2 DEF LookInv
<1>14. (MissThreshold > 1) => MissInv'
  <2> SUFFICES ASSUME MissThreshold > 1 PROVE MissInv'
    OBVIOUS
  <2> SUFFICES ASSUME NEW v \in Uids \ (strayed' \cup Pardoned')
               PROVE  /\ outcome'[v].status = "pending" /\ outcome'[v].miss > 0 => place'[v] \in {"late", "sent"}
                      /\ outcome'[v].status = "handled" => place'[v] = "sent" /\ ~clue'[v]
    BY DEF MissInv
  <2>1. MissInv /\ v \in Uids \ (strayed \cup Pardoned)
    BY <1>1, <1>3, <1>6
  <2>2. CASE v = u
    <3>1. place[u] = "nowhere"
      BY <1>4, <2>1, <2>2
    <3>2. outcome[u].status = "none"
      BY <1>1, <3>1 DEF LookInv
    <3> QED  BY <1>3, <2>2, <3>2
  <2>3. CASE v # u
    BY <1>3, <1>5, <2>1, <2>3 DEF MissInv
  <2> QED  BY <2>2, <2>3
<1> QED  BY <1>9, <1>10, <1>11, <1>12, <1>13, <1>14 DEF AftermathInv

\* The scan finds the draft: the run will tell.
LEMMA FindDraftStep ==
    ASSUME AftermathInv, NEW r \in Ids, NEW u \in Uids, FindDraft(r, u)
    PROVE  AftermathInv'
<1>1. /\ AftermathTypeOK /\ TraceInv /\ BatchInv /\ LookInv /\ redone \subseteq Pardoned
      /\ MissThreshold > 1 => MissInv
  BY DEF AftermathInv, SentMailIsNotRedrafted, Pardoned
<1>2. /\ u \in Undealt(r) /\ place[u] = "drafts" /\ unreported' = unreported \cup {u}
      /\ UNCHANGED <<batchRun, contract, observed, evidence, items, outcome, place, clue, look, redone, excused,
                     untold, strayed, mischances>>
  BY DEF FindDraft, toldVars
<1>3. Known' = Known \cup {u} /\ Pardoned' = Pardoned /\ Evident' = Evident
  BY <1>2 DEF Known, Pardoned, Evident, DraftedBy
<1>4. Running(r)'
  BY <1>2 DEF Undealt, Running
<1>5. AftermathTypeOK'
  BY <1>1, <1>2 DEF AftermathTypeOK
<1>6. TraceInv'
  <2>1. \A q \in Ids : batchRun'[q].status = "none" => \A v \in Uids : ~Shown(q, v)'
    BY <1>1, <1>2 DEF TraceInv, Shown
  <2>2. /\ Known' \cup Evident' \subseteq {v \in Uids : place'[v] # "nowhere"}
        /\ \A v \in Uids : place'[v] # "nowhere" => v \in Known' \cup Pardoned' \cup Evident'
    BY <1>1, <1>2, <1>3 DEF TraceInv
  <2> QED  BY <1>4, <2>1, <2>2 DEF TraceInv
<1>7. BatchInv' /\ SentMailIsNotRedrafted'
  <2>1. \A q \in Ids : Undealt(q)' \subseteq Undealt(q)
    BY <1>2 DEF Undealt
  <2> QED  BY <1>1, <1>2, <1>3, <2>1 DEF BatchInv, SentMailIsNotRedrafted, Pardoned
<1>8. LookInv' /\ (MissThreshold > 1 => MissInv')
  <2>1. Pending' = Pending
    BY <1>2 DEF Pending
  <2> QED  BY <1>1, <1>2, <1>3, <2>1 DEF LookInv, MissInv
<1> QED  BY <1>5, <1>6, <1>7, <1>8 DEF AftermathInv

\* The worker hears of a draft: its memory shows it from now on, and the trace if the
\* event is persisted.
LEMMA ReportStep ==
    ASSUME AftermathInv, NEW r \in Ids, NEW u \in Uids, Report(r, u)
    PROVE  AftermathInv'
<1>1. /\ AftermathTypeOK /\ TraceInv /\ BatchInv /\ LookInv /\ redone \subseteq Pardoned
      /\ MissThreshold > 1 => MissInv
  BY DEF AftermathInv, SentMailIsNotRedrafted, Pardoned
<1>2. PICK persisted \in BOOLEAN :
        /\ Mischance(~persisted)
        /\ evidence' = [evidence EXCEPT ![r] = IF persisted THEN @ \cup {u} ELSE @]
  BY DEF Report
<1>3. /\ Running(r) /\ u \in unreported
      /\ unreported' = unreported \ {u} /\ observed' = observed \cup {u}
      /\ UNCHANGED <<batchRun, contract, items, outcome, place, clue, look, redone, excused, untold, strayed>>
  BY DEF Report, Running, toldVars
<1>4. Known' = Known /\ u \in Known /\ Pardoned' = Pardoned
  BY <1>3 DEF Known, Pardoned
<1>5. /\ evidence' \in [Ids -> SUBSET Uids]
      /\ \A q \in Ids : evidence[q] \subseteq evidence'[q] /\ evidence'[q] \subseteq evidence[q] \cup {u}
  BY <1>1, <1>2 DEF AftermathTypeOK
<1>6. Evident \subseteq Evident' /\ Evident' \subseteq Evident \cup {u}
  <2>1. ASSUME NEW v \in Evident PROVE v \in Evident'
    <3>1. PICK q \in Ids : batchRun[q].status # "none" /\ Shown(q, v)
      BY EvidentIs
    <3>2. Shown(q, v)'
      BY <1>3, <1>5, <3>1 DEF Shown
    <3> QED  BY <1>3, <3>1, <3>2, EvidentIs
  <2>2. ASSUME NEW v \in Evident', v # u PROVE v \in Evident
    <3>1. PICK q \in Ids : batchRun[q].status' # "none" /\ Shown(q, v)'
      BY EvidentIs
    <3>2. Shown(q, v)
      BY <1>3, <1>5, <2>2, <3>1 DEF Shown
    <3> QED  BY <1>3, <3>1, <3>2, EvidentIs
  <2> QED  BY <2>1, <2>2
<1>7. AftermathTypeOK'
  <2>1. mischances' \in 0..MaxMischances
    <3>1. mischances \in 0..MaxMischances
      BY <1>1 DEF AftermathTypeOK
    <3> QED  BY <1>2, <3>1, AftermathAssumption DEF Mischance
  <2> QED  BY <1>1, <1>3, <1>5, <2>1 DEF AftermathTypeOK
<1>8. TraceInv'
  <2>1. Running(r)'
    BY <1>3 DEF Running
  <2>2. \A q \in Ids : batchRun'[q].status = "none" => \A v \in Uids : ~Shown(q, v)'
    <3> SUFFICES ASSUME NEW q \in Ids, batchRun'[q].status = "none", NEW v \in Uids PROVE ~Shown(q, v)'
      OBVIOUS
    <3>1. q # r /\ ~Shown(q, v)
      BY <1>1, <1>3 DEF TraceInv, Running
    <3> QED  BY <1>1, <1>2, <1>3, <3>1 DEF Shown, AftermathTypeOK
  <2>3. /\ Known' \cup Evident' \subseteq {v \in Uids : place'[v] # "nowhere"}
        /\ \A v \in Uids : place'[v] # "nowhere" => v \in Known' \cup Pardoned' \cup Evident'
    BY <1>1, <1>3, <1>4, <1>6 DEF TraceInv
  <2> QED  BY <2>1, <2>2, <2>3 DEF TraceInv
<1>9. BatchInv' /\ SentMailIsNotRedrafted'
  <2>1. \A q \in Ids : Undealt(q)' \subseteq Undealt(q)
    BY <1>3 DEF Undealt
  <2> QED  BY <1>1, <1>3, <1>4, <2>1 DEF BatchInv, SentMailIsNotRedrafted, Pardoned
<1>10. LookInv' /\ (MissThreshold > 1 => MissInv')
  <2>1. Pending' = Pending
    BY <1>3 DEF Pending
  <2> QED  BY <1>1, <1>3, <1>4, <2>1 DEF LookInv, MissInv
<1> QED  BY <1>7, <1>8, <1>9, <1>10 DEF AftermathInv

\* A run ends: its rows are written or not, and what it saw and nothing shows is
\* excused.
LEMMA EndBatchStep ==
    ASSUME AftermathInv, NEW r \in Ids, EndBatch(r)
    PROVE  AftermathInv'
<1>1. /\ AftermathTypeOK /\ TraceInv /\ BatchInv /\ LookInv /\ redone \subseteq Pardoned
      /\ MissThreshold > 1 => MissInv
  BY DEF AftermathInv, SentMailIsNotRedrafted, Pardoned
<1>2. PICK s \in {"failed", "completed"}, how \in {"finished", "lost", "interrupted"} :
        /\ Mischance(how # "finished")
        /\ batchRun' = [batchRun EXCEPT ![r].status = s]
        /\ items' = RowsAfter(r, how)
        /\ outcome' = [u \in Uids |->
             IF /\ how # "interrupted" /\ outcome[u].status = "none"
                /\ u \in batchRun[r].uids \cap DraftedBy(Family(r), items')
             THEN [status |-> "pending", miss |-> 0] ELSE outcome[u]]
        /\ excused' = excused \cup (observed \ DraftedBy({r}, items'))
                               \cup IF how = "interrupted" THEN unreported ELSE {}
        /\ untold' = IF how = "interrupted" THEN untold ELSE untold \cup unreported
  BY DEF EndBatch
<1>3. /\ Running(r) /\ unreported' = {} /\ observed' = {}
      /\ UNCHANGED <<contract, evidence, place, clue, look, redone, strayed>>
  BY DEF EndBatch, Running
<1>4. /\ batchRun' \in [Ids -> [status : Statuses, uids : SUBSET Uids]]
      /\ batchRun'[r].status = s
      /\ \A q \in Ids : /\ batchRun'[q].uids = batchRun[q].uids /\ (q # r => batchRun'[q] = batchRun[q])
                        /\ batchRun'[q].status = "none" <=> batchRun[q].status = "none"
  <2>1. batchRun \in [Ids -> [status : Statuses, uids : SUBSET Uids]] /\ s \in Statuses /\ s # "none"
    BY <1>1 DEF AftermathTypeOK, Statuses
  <2>2. batchRun[r].status # "none" /\ batchRun' = [batchRun EXCEPT ![r].status = s]
    BY <1>2, <1>3 DEF Running
  <2> QED  BY <2>1, <2>2
<1>5. \A q \in Ids : batchRun'[q].status # "running"
  <2> SUFFICES ASSUME NEW q \in Ids, batchRun'[q].status = "running" PROVE FALSE
    OBVIOUS
  <2>1. CASE q = r
    BY <1>2, <1>4, <2>1
  <2>2. CASE q # r
    <3>1. batchRun[q].status = "running" /\ batchRun[r].status = "running"
      BY <1>3, <1>4, <2>2 DEF Running
    <3>2. \A p, k \in Ids : batchRun[p].status = "running" /\ batchRun[k].status = "running" => p = k
      BY <1>1 DEF AftermathTypeOK
    <3> QED  BY <2>2, <3>1, <3>2
  <2> QED  BY <2>1, <2>2
<1>6. /\ items' \in [Ids -> [Uids -> {"none", "drafted", "plain"}]]
      /\ \A q \in Ids, u \in Uids :
           /\ items[q][u] = "drafted" => items'[q][u] = "drafted"
           /\ items'[q][u] = "drafted" => items[q][u] = "drafted" \/ u \in observed
           /\ q # r => items'[q][u] = items[q][u]
  <2>1. items \in [Ids -> [Uids -> {"none", "drafted", "plain"}]]
    BY <1>1 DEF AftermathTypeOK
  <2>2. CASE items' = items
    BY <2>1, <2>2
  <2>3. CASE \E confirmed \in {observed, {}} : items' = Normalized(r, confirmed)
    <3>1. PICK confirmed \in {observed, {}} : items' = Normalized(r, confirmed)
      BY <2>3
    <3> DEFINE row == [u \in Uids |-> IF u \notin batchRun[r].uids \/ items[r][u] # "none" THEN items[r][u]
                                      ELSE IF u \in confirmed THEN "drafted" ELSE "plain"]
    <3>2. items' = [items EXCEPT ![r] = row]
      BY <3>1 DEF Normalized
    <3>3. /\ row \in [Uids -> {"none", "drafted", "plain"}]
          /\ \A u \in Uids : /\ items[r][u] = "drafted" => row[u] = "drafted"
                             /\ row[u] = "drafted" => items[r][u] = "drafted" \/ u \in observed
      BY <2>1
    <3> HIDE DEF row
    <3> QED  BY <2>1, <3>2, <3>3
  <2> QED  BY <1>2, <2>2, <2>3 DEF RowsAfter
<1>7. Evident \subseteq Evident' /\ Evident' \subseteq Evident \cup observed
  <2>1. ASSUME NEW v \in Evident PROVE v \in Evident'
    <3>1. PICK q \in Ids : batchRun[q].status # "none" /\ Shown(q, v)
      BY EvidentIs
    <3>2. Shown(q, v)'
      BY <1>3, <1>6, <3>1 DEF Shown
    <3> QED  BY <1>4, <3>1, <3>2, EvidentIs
  <2>2. ASSUME NEW v \in Evident', v \notin observed PROVE v \in Evident
    <3>1. PICK q \in Ids : batchRun[q].status' # "none" /\ Shown(q, v)'
      BY EvidentIs
    <3>2. Shown(q, v)
      BY <1>3, <1>6, <2>2, <3>1 DEF Shown
    <3> QED  BY <1>4, <3>1, <3>2, EvidentIs
  <2> QED  BY <2>1, <2>2
<1>8. /\ DraftedBy({r}, items') \subseteq Evident'
      /\ DraftedBy(Family(r), items') \subseteq Evident'
  <2>1. batchRun'[r].status # "none"
    BY <1>2, <1>4
  <2>2. \A v : v \in DraftedBy({r}, items') => Shown(r, v)'
    BY <1>3 DEF DraftedBy, Shown
  <2>3. \A v : v \in DraftedBy(Family(r), items') => \E q \in Ids : batchRun[q].status # "none" /\ Shown(q, v)'
    BY <1>3 DEF DraftedBy, Shown, Family
  <2> QED  BY <1>4, <2>1, <2>2, <2>3, EvidentIs
<1>9. /\ Pardoned \subseteq Pardoned' /\ Pardoned' \subseteq Pardoned \cup Known
      /\ Known \subseteq Pardoned' \cup Evident' /\ Known' = {}
      /\ Evident' \subseteq Evident \cup Known
  BY <1>2, <1>3, <1>7, <1>8 DEF Pardoned, Known
<1>10. /\ outcome' \in [Uids -> [status : {"none", "pending", "sent", "handled", "unknown"}, miss : 0 .. MissThreshold]]
       /\ \A u \in Uids : \/ outcome'[u] = outcome[u]
                          \/ /\ outcome[u].status = "none" /\ u \in Evident'
                             /\ outcome'[u].status = "pending" /\ outcome'[u].miss = 0
  <2>1. [status |-> "pending", miss |-> 0] \in [status : {"none", "pending", "sent", "handled", "unknown"},
                                                 miss : 0 .. MissThreshold]
    <3>1. 0 \in 0..MissThreshold
      BY AftermathAssumption
    <3> QED  BY <3>1
  <2> QED  BY <1>1, <1>2, <1>8, <2>1 DEF AftermathTypeOK
<1>11. AftermathTypeOK'
  <2>1. mischances' \in 0..MaxMischances
    <3>1. mischances \in 0..MaxMischances
      BY <1>1 DEF AftermathTypeOK
    <3>2. mischances' = mischances \/ (mischances < MaxMischances /\ mischances' = mischances + 1)
      BY <1>2 DEF Mischance
    <3> QED  BY <3>1, <3>2, AftermathAssumption
  <2>2. /\ redone' \cup excused' \cup untold' \cup strayed' \subseteq Uids
        /\ unreported' \cup observed' \subseteq Uids
        /\ contract' \in BOOLEAN /\ evidence' \in [Ids -> SUBSET Uids]
        /\ place' \in [Uids -> {"nowhere", "drafts", "outbox", "late", "sent", "trash"}]
        /\ clue' \in [Uids -> BOOLEAN] /\ look' \in [on : BOOLEAN, gone : SUBSET Uids]
    BY <1>1, <1>2, <1>3 DEF AftermathTypeOK
  <2> QED  BY <1>4, <1>5, <1>6, <1>10, <2>1, <2>2 DEF AftermathTypeOK
<1>12. TraceInv'
  <2>1. Known' \cup Evident' \subseteq {v \in Uids : place'[v] # "nowhere"}
    BY <1>1, <1>3, <1>9 DEF TraceInv
  <2>2. \A v \in Uids : place'[v] # "nowhere" => v \in Known' \cup Pardoned' \cup Evident'
    BY <1>1, <1>3, <1>7, <1>9 DEF TraceInv
  <2>3. \A q \in Ids : batchRun'[q].status = "none" => \A v \in Uids : ~Shown(q, v)'
    <3> SUFFICES ASSUME NEW q \in Ids, batchRun'[q].status = "none", NEW v \in Uids PROVE ~Shown(q, v)'
      OBVIOUS
    <3>1. q # r /\ ~Shown(q, v)
      BY <1>1, <1>2, <1>4 DEF TraceInv
    <3> QED  BY <1>3, <1>6, <3>1 DEF Shown
  <2> QED  BY <1>9, <2>1, <2>2, <2>3 DEF TraceInv
<1>13. BatchInv' /\ SentMailIsNotRedrafted'
  <2>1. \A q \in Ids : Undealt(q)' = {}
    BY <1>5 DEF Undealt
  <2> QED  BY <1>1, <1>3, <1>9, <2>1 DEF BatchInv, SentMailIsNotRedrafted, Pardoned
<1>14. LookInv'
  <2>1. Pending \subseteq Pending'
    BY <1>10 DEF Pending
  <2>2. \A u \in Uids : outcome'[u].status # "none" => place'[u] # "nowhere"
    BY <1>1, <1>3, <1>10, <1>12 DEF LookInv, TraceInv
  <2>3. \A u \in Pending' : outcome'[u].miss < MissThreshold
    <3> SUFFICES ASSUME NEW u \in Uids, outcome'[u].status = "pending" PROVE outcome'[u].miss < MissThreshold
      BY DEF Pending
    <3>1. 0 < MissThreshold
      BY AftermathAssumption
    <3>2. CASE outcome'[u] = outcome[u]
      BY <1>1, <3>2 DEF LookInv, Pending
    <3> QED  BY <1>10, <3>1, <3>2
  <2> QED  BY <1>1, <1>3, <1>9, <2>1, <2>2, <2>3 DEF LookInv
<1>15. (MissThreshold > 1) => MissInv'
  <2> SUFFICES ASSUME MissInv, NEW u \in Uids \ (strayed' \cup Pardoned')
               PROVE  /\ outcome'[u].status = "pending" /\ outcome'[u].miss > 0 => place'[u] \in {"late", "sent"}
                      /\ outcome'[u].status = "handled" => place'[u] = "sent" /\ ~clue'[u]
    BY <1>1 DEF MissInv
  <2>1. u \in Uids \ (strayed \cup Pardoned)
    BY <1>3, <1>9
  <2>2. CASE outcome'[u] = outcome[u]
    BY <1>3, <2>1, <2>2 DEF MissInv
  <2>3. CASE outcome'[u].status = "pending" /\ outcome'[u].miss = 0
    <3>1. ~(outcome'[u].miss > 0)
      BY <2>3
    <3> QED  BY <2>3, <3>1
  <2> QED  BY <1>10, <2>1, <2>2, <2>3
<1> QED  BY <1>11, <1>12, <1>13, <1>14, <1>15 DEF AftermathInv

\* A retry asks for what neither the family's evidence nor the Drafts folder shows.
LEMMA RetryRunStep ==
    ASSUME AftermathInv, NEW r \in Ids, RetryRun(r)
    PROVE  AftermathInv'
<1>1. /\ AftermathTypeOK /\ TraceInv /\ BatchInv /\ LookInv /\ redone \subseteq Pardoned
      /\ MissThreshold > 1 => MissInv
  BY DEF AftermathInv, SentMailIsNotRedrafted, Pardoned
<1>2. PICK k \in Ids, scanned \in BOOLEAN :
        LET left == batchRun[r].uids \ (Drafted(r) \cup IF scanned THEN {u \in Uids : place[u] = "drafts"} ELSE {})
        IN /\ batchRun[k].status = "none"
           /\ Mischance(~scanned)
           /\ batchRun' = [batchRun EXCEPT ![k] = [status |-> "running", uids |-> left]]
  BY DEF RetryRun
<1> DEFINE left == batchRun[r].uids \ (Drafted(r) \cup IF scanned THEN {u \in Uids : place[u] = "drafts"} ELSE {})
<1>3. /\ \A q \in Ids : ~Running(q)
      /\ UNCHANGED <<contract, unreported, observed, evidence, items, outcome, place, clue, look, redone, excused,
                     untold, strayed>>
  BY DEF RetryRun, Running, toldVars
<1>4. left \subseteq Uids /\ left \subseteq batchRun[r].uids /\ left \cap Evident = {}
  <2>1. batchRun[r].uids \subseteq Uids
    BY <1>1, AftermathTypes
  <2> QED  BY <2>1, FamilyIs DEF Drafted
<1>5. batchRun[k].status = "none" /\ batchRun' = [batchRun EXCEPT ![k] = [status |-> "running", uids |-> left]]
  BY <1>2
<1>6. mischances' \in 0..MaxMischances
  <2>1. mischances \in 0..MaxMischances
    BY <1>1 DEF AftermathTypeOK
  <2> QED  BY <1>2, <2>1, AftermathAssumption DEF Mischance
<1> HIDE DEF left
<1>7. /\ batchRun' \in [Ids -> [status : Statuses, uids : SUBSET Uids]]
      /\ batchRun'[k].status = "running" /\ batchRun'[k].uids = left
      /\ \A q \in Ids : q # k => batchRun'[q] = batchRun[q]
  BY <1>1, <1>4, <1>5 DEF AftermathTypeOK, Statuses
<1>8. \A q \in Ids : Running(q)' <=> q = k
  BY <1>3, <1>7 DEF Running
<1>9. Evident' = Evident
  <2>1. ASSUME NEW v \in Evident PROVE v \in Evident'
    <3>1. PICK q \in Ids : batchRun[q].status # "none" /\ Shown(q, v)
      BY EvidentIs
    <3>2. Shown(q, v)' /\ q # k
      BY <1>3, <1>5, <3>1 DEF Shown
    <3> QED  BY <1>7, <3>1, <3>2, EvidentIs
  <2>2. ASSUME NEW v \in Evident' PROVE v \in Evident
    <3>1. PICK q \in Ids : batchRun[q].status' # "none" /\ Shown(q, v)'
      BY EvidentIs
    <3>2. Shown(q, v) /\ v \in Uids
      BY <1>1, <1>3, <3>1, AftermathTypes DEF Shown
    <3>3. batchRun[q].status # "none"
      BY <1>1, <3>2 DEF TraceInv
    <3> QED  BY <3>2, <3>3, EvidentIs
  <2> QED  BY <2>1, <2>2
<1>10. Known = {} /\ Known' = Known /\ Pardoned' = Pardoned
  BY <1>1, <1>3 DEF TraceInv, Known, Pardoned
<1>11. AftermathTypeOK'
  <2>1. \A p, q \in Ids : batchRun'[p].status = "running" /\ batchRun'[q].status = "running" => p = q
    BY <1>8 DEF Running
  <2>2. /\ redone' \cup excused' \cup untold' \cup strayed' \subseteq Uids
        /\ unreported' \cup observed' \subseteq Uids
        /\ contract' \in BOOLEAN /\ evidence' \in [Ids -> SUBSET Uids]
        /\ items' \in [Ids -> [Uids -> {"none", "drafted", "plain"}]]
        /\ outcome' \in [Uids -> [status : {"none", "pending", "sent", "handled", "unknown"}, miss : 0 .. MissThreshold]]
        /\ place' \in [Uids -> {"nowhere", "drafts", "outbox", "late", "sent", "trash"}]
        /\ clue' \in [Uids -> BOOLEAN] /\ look' \in [on : BOOLEAN, gone : SUBSET Uids]
    BY <1>1, <1>3 DEF AftermathTypeOK
  <2> QED  BY <1>6, <1>7, <2>1, <2>2 DEF AftermathTypeOK
<1>12. TraceInv'
  <2>1. \A q \in Ids : batchRun'[q].status = "none" => \A v \in Uids : ~Shown(q, v)'
    BY <1>1, <1>3, <1>7 DEF TraceInv, Shown
  <2>2. /\ Known' \cup Evident' \subseteq {v \in Uids : place'[v] # "nowhere"}
        /\ \A v \in Uids : place'[v] # "nowhere" => v \in Known' \cup Pardoned' \cup Evident'
    BY <1>1, <1>3, <1>9, <1>10 DEF TraceInv
  <2> QED  BY <1>3, <1>10, <2>1, <2>2 DEF TraceInv
<1>13. BatchInv'
  <2>1. \A u \in left : place[u] = "nowhere" \/ u \in Pardoned
    BY <1>1, <1>4, <1>10 DEF TraceInv
  <2>2. \A q \in Ids : Undealt(q)' \subseteq left
    BY <1>7, <1>8 DEF Undealt, Running
  <2> QED  BY <1>3, <1>10, <2>1, <2>2 DEF BatchInv
<1>14. LookInv' /\ (MissThreshold > 1 => MissInv') /\ SentMailIsNotRedrafted'
  <2>1. Pending' = Pending
    BY <1>3 DEF Pending
  <2> QED  BY <1>1, <1>3, <1>10, <2>1 DEF LookInv, MissInv, SentMailIsNotRedrafted, Pardoned
<1> QED  BY <1>11, <1>12, <1>13, <1>14 DEF AftermathInv

\* A purge takes evidence, and what it took is excused.
LEMMA PurgeRunsStep ==
    ASSUME AftermathInv, NEW rs \in SUBSET Ids, PurgeRuns(rs)
    PROVE  AftermathInv'
<1>1. /\ AftermathTypeOK /\ TraceInv /\ BatchInv /\ LookInv /\ redone \subseteq Pardoned
      /\ MissThreshold > 1 => MissInv
  BY DEF AftermathInv, SentMailIsNotRedrafted, Pardoned
<1>2. /\ \A r \in rs : batchRun[r].status \in {"failed", "completed"}
      /\ evidence' = [r \in Ids |-> IF r \in rs THEN {} ELSE evidence[r]]
      /\ items' = [r \in Ids |-> IF r \notin rs THEN items[r]
                                 ELSE [u \in Uids |-> IF items[r][u] = "none" THEN "none" ELSE "plain"]]
      /\ excused' = excused \cup DraftedBy(rs, items) /\ Mischance(TRUE)
      /\ UNCHANGED <<batchRun, contract, unreported, observed, outcome, place, clue, look, redone, untold, strayed>>
  BY DEF PurgeRuns
<1>3. /\ items' \in [Ids -> [Uids -> {"none", "drafted", "plain"}]] /\ evidence' \in [Ids -> SUBSET Uids]
      /\ \A q \in Ids, u \in Uids : items'[q][u] = "drafted" => items[q][u] = "drafted" /\ q \notin rs
      /\ \A q \in Ids : evidence'[q] \subseteq evidence[q]
      /\ \A q \in Ids \ rs : evidence'[q] = evidence[q] /\ items'[q] = items[q]
  BY <1>1, <1>2 DEF AftermathTypeOK
<1>4. \A q \in Ids : \A v : Shown(q, v)' => Shown(q, v)
  BY <1>3 DEF Shown
<1>5. Evident' \subseteq Evident /\ Evident \subseteq Evident' \cup Pardoned'
  <2>1. ASSUME NEW v \in Evident, v \notin Pardoned' PROVE v \in Evident'
    <3>1. PICK q \in Ids : batchRun[q].status # "none" /\ Shown(q, v)
      BY EvidentIs
    <3>2. q \notin rs
      BY <1>2, <2>1, <3>1 DEF Shown, DraftedBy, Pardoned
    <3>3. Shown(q, v)'
      BY <1>3, <3>1, <3>2 DEF Shown
    <3> QED  BY <1>2, <3>1, <3>3, EvidentIs
  <2>2. ASSUME NEW v \in Evident' PROVE v \in Evident
    BY <1>2, <1>4, EvidentIs
  <2> QED  BY <2>1, <2>2
<1>6. Pardoned \subseteq Pardoned' /\ excused' \subseteq Uids /\ Known' = Known
  <2>1. DraftedBy(rs, items) \subseteq Uids /\ excused \subseteq Uids
    BY <1>1 DEF DraftedBy, AftermathTypeOK
  <2> QED  BY <1>2, <2>1 DEF Known, Pardoned
<1>7. AftermathTypeOK'
  <2>1. mischances' \in 0..MaxMischances
    <3>1. mischances \in 0..MaxMischances
      BY <1>1 DEF AftermathTypeOK
    <3> QED  BY <1>2, <3>1, AftermathAssumption DEF Mischance
  <2>2. /\ batchRun' \in [Ids -> [status : Statuses, uids : SUBSET Uids]]
        /\ \A p, q \in Ids : batchRun'[p].status = "running" /\ batchRun'[q].status = "running" => p = q
        /\ redone' \cup excused' \cup untold' \cup strayed' \subseteq Uids
        /\ unreported' \cup observed' \subseteq Uids
        /\ contract' \in BOOLEAN
        /\ outcome' \in [Uids -> [status : {"none", "pending", "sent", "handled", "unknown"}, miss : 0 .. MissThreshold]]
        /\ place' \in [Uids -> {"nowhere", "drafts", "outbox", "late", "sent", "trash"}]
        /\ clue' \in [Uids -> BOOLEAN] /\ look' \in [on : BOOLEAN, gone : SUBSET Uids]
    BY <1>1, <1>2, <1>6 DEF AftermathTypeOK
  <2> QED  BY <1>3, <2>1, <2>2 DEF AftermathTypeOK
<1>8. TraceInv'
  <2>1. \A q \in Ids : batchRun'[q].status = "none" => \A v \in Uids : ~Shown(q, v)'
    BY <1>1, <1>2, <1>4 DEF TraceInv
  <2>2. /\ Known' \cup Evident' \subseteq {v \in Uids : place'[v] # "nowhere"}
        /\ \A v \in Uids : place'[v] # "nowhere" => v \in Known' \cup Pardoned' \cup Evident'
    BY <1>1, <1>2, <1>5, <1>6 DEF TraceInv
  <2> QED  BY <1>1, <1>2, <1>6, <2>1, <2>2 DEF TraceInv, Running
<1>9. BatchInv' /\ SentMailIsNotRedrafted'
  <2>1. \A q \in Ids : Undealt(q)' = Undealt(q)
    BY <1>2 DEF Undealt
  <2> QED  BY <1>1, <1>2, <1>6, <2>1 DEF BatchInv, SentMailIsNotRedrafted, Pardoned
<1>10. LookInv' /\ (MissThreshold > 1 => MissInv')
  <2>1. Pending' = Pending
    BY <1>2 DEF Pending
  <2> QED  BY <1>1, <1>2, <1>6, <2>1 DEF LookInv, MissInv
<1> QED  BY <1>7, <1>8, <1>9, <1>10 DEF AftermathInv

----------------------------------------------------------------------------
\* The mailbox, and the poller that looks into it.

\* One draft moves: into the trash or out of it, or towards Sent.
LEMMA DraftMoves ==
    ASSUME AftermathInv, NEW u \in Uids, NEW p \in {"drafts", "outbox", "sent", "trash"},
           place[u] \notin {"nowhere", "sent"}, place' = [place EXCEPT ![u] = p],
           clue' \in [Uids -> BOOLEAN], \A v \in Uids \ {u} : clue'[v] = clue[v],
           strayed \subseteq strayed', strayed' \subseteq Uids, mischances' \in 0..MaxMischances,
           p = "trash" => u \in strayed',
           p = "sent" \/ u \in strayed' \/ place[u] \notin Away,
           UNCHANGED <<familyVars, outcome, look, toldVars>>
    PROVE  AftermathInv'
<1>1. /\ AftermathTypeOK /\ LookInv /\ (MissThreshold > 1 => MissInv)
      /\ UNCHANGED <<batchRun, contract, unreported, observed, evidence, items, redone, excused, untold>>
      /\ Pardoned' = Pardoned
  BY DEF AftermathInv, familyVars, toldVars, Pardoned
<1>2. /\ place' \in [Uids -> {"nowhere", "drafts", "outbox", "late", "sent", "trash"}]
      /\ place'[u] = p /\ \A v \in Uids \ {u} : place'[v] = place[v]
  BY <1>1 DEF AftermathTypeOK
<1>3. TraceInv' /\ BatchInv' /\ SentMailIsNotRedrafted'
  BY <1>1, <1>2, RunsUntouched
<1>4. AftermathTypeOK'
  <2>1. redone' \cup excused' \cup untold' \cup strayed' \subseteq Uids
    BY <1>1 DEF AftermathTypeOK
  <2> QED  BY <1>1, <1>2, <2>1 DEF AftermathTypeOK
<1>5. LookInv'
  <2>1. Pending' = Pending
    BY DEF Pending
  <2>2. ASSUME NEW v \in look.gone PROVE place'[v] \in Away \/ v \in strayed' \cup Pardoned'
    <3>1. v \in Uids /\ (place[v] \in Away \/ v \in strayed \cup Pardoned)
      BY <1>1, AftermathTypes DEF LookInv
    <3> QED  BY <1>1, <1>2, <3>1 DEF Away
  <2>3. \A v \in Uids : outcome[v].status # "none" => place'[v] # "nowhere"
    BY <1>1, <1>2 DEF LookInv
  <2>4. \A v \in Uids : place'[v] = "trash" => v \in strayed'
    BY <1>1, <1>2 DEF LookInv
  <2> QED  BY <1>1, <2>1, <2>2, <2>3, <2>4 DEF LookInv
<1>6. (MissThreshold > 1) => MissInv'
  <2> SUFFICES ASSUME MissInv, NEW v \in Uids \ (strayed' \cup Pardoned')
               PROVE  /\ outcome[v].status = "pending" /\ outcome[v].miss > 0 => place'[v] \in {"late", "sent"}
                      /\ outcome[v].status = "handled" => place'[v] = "sent" /\ ~clue'[v]
    BY <1>1 DEF MissInv
  <2>1. /\ outcome[v].status = "pending" /\ outcome[v].miss > 0 => place[v] \in {"late", "sent"}
        /\ outcome[v].status = "handled" => place[v] = "sent" /\ ~clue[v]
    BY <1>1 DEF MissInv
  <2> QED  BY <1>2, <2>1 DEF Away
<1> QED  BY <1>1, <1>3, <1>4, <1>5, <1>6 DEF AftermathInv

LEMMA MailboxStep ==
    ASSUME AftermathInv, NEW u \in Uids, Send(u) \/ Arrive(u) \/ ThrowAway(u) \/ PutBack(u)
    PROVE  AftermathInv'
<1>1. /\ place \in [Uids -> {"nowhere", "drafts", "outbox", "late", "sent", "trash"}]
      /\ clue \in [Uids -> BOOLEAN] /\ strayed \subseteq Uids /\ mischances \in 0..MaxMischances
  BY DEF AftermathInv, AftermathTypeOK
<1>2. CASE Send(u)
  <2>1. PICK c \in BOOLEAN : clue' = [clue EXCEPT ![u] = c]
    BY <1>2 DEF Send
  <2>2. clue' \in [Uids -> BOOLEAN] /\ \A v \in Uids \ {u} : clue'[v] = clue[v]
    BY <1>1, <2>1
  <2>3. /\ place[u] = "drafts" /\ place' = [place EXCEPT ![u] = "outbox"]
        /\ UNCHANGED <<familyVars, outcome, look, toldVars, strayed, mischances>>
    BY <1>2 DEF Send
  <2> QED  BY <1>1, <2>2, <2>3, DraftMoves DEF Away
<1>3. CASE Arrive(u)
  BY <1>1, <1>3, DraftMoves DEF Arrive
<1>4. CASE ThrowAway(u)
  <2>1. mischances' \in 0..MaxMischances
    <3>1. mischances' = mischances + 1 /\ mischances < MaxMischances
      BY <1>4 DEF ThrowAway, Mischance
    <3> QED  BY <1>1, <3>1, AftermathAssumption
  <2> QED  BY <1>1, <1>4, <2>1, DraftMoves DEF ThrowAway
<1>5. CASE PutBack(u)
  BY <1>1, <1>5, DraftMoves DEF PutBack, Away
<1> QED  BY <1>2, <1>3, <1>4, <1>5

LEMMA LookInDraftsStep ==
    ASSUME AftermathInv, LookInDrafts
    PROVE  AftermathInv'
<1>1. /\ AftermathTypeOK /\ LookInv /\ (MissThreshold > 1 => MissInv) /\ Pending \subseteq Uids
  BY DEF AftermathInv, Pending
<1>2. /\ ~look.on /\ look.gone = {}
      /\ UNCHANGED <<batchRun, contract, unreported, observed, evidence, items, place, clue, toldVars, redone, excused,
                     untold, strayed>>
      /\ Pardoned' = Pardoned
  BY <1>1 DEF LookInDrafts, LookInv, familyVars, toldVars, Pardoned
<1>3. mischances' \in 0..MaxMischances
  <2>1. mischances \in 0..MaxMischances
    BY <1>1 DEF AftermathTypeOK
  <2>2. mischances' = mischances \/ (mischances < MaxMischances /\ mischances' = mischances + 1)
    BY DEF LookInDrafts, Mischance
  <2> QED  BY <2>1, <2>2, AftermathAssumption
<1>4. TraceInv' /\ BatchInv' /\ SentMailIsNotRedrafted'
  BY <1>2, RunsUntouched
<1>5. /\ outcome' \in [Uids -> [status : {"none", "pending", "sent", "handled", "unknown"}, miss : 0 .. MissThreshold]]
      /\ look' \in [on : BOOLEAN, gone : SUBSET Uids] /\ (~look'.on => look'.gone = {})
      /\ \A u \in look'.gone : u \in Pending /\ outcome'[u].status = "pending" /\ place[u] # "drafts"
      /\ \A u \in Uids : \/ outcome'[u] = outcome[u]
                         \/ u \in Pending /\ outcome'[u].status = "pending" /\ outcome'[u].miss = 0
                         \/ u \in Pending /\ outcome'[u].status = "unknown"
  <2>0. 0 \in 0..MissThreshold
    BY AftermathAssumption
  <2>1. CASE /\ look' = [on |-> TRUE, gone |-> {u \in Pending : place[u] # "drafts"}]
             /\ outcome' = [u \in Uids |-> IF u \in Pending /\ place[u] = "drafts"
                                           THEN [outcome[u] EXCEPT !.miss = 0] ELSE outcome[u]]
    <3>1. outcome' \in [Uids -> [status : {"none", "pending", "sent", "handled", "unknown"}, miss : 0 .. MissThreshold]]
      BY <1>1, <2>0, <2>1 DEF AftermathTypeOK
    <3>2. \A u \in Uids : \/ outcome'[u] = outcome[u]
                          \/ u \in Pending /\ outcome'[u].status = "pending" /\ outcome'[u].miss = 0
      BY <1>1, <2>1 DEF AftermathTypeOK, Pending
    <3>3. look' \in [on : BOOLEAN, gone : SUBSET Uids] /\ look'.on
      BY <1>1, <2>1
    <3>4. \A u \in look'.gone : u \in Pending /\ outcome'[u].status = "pending" /\ place[u] # "drafts"
      BY <2>1 DEF Pending
    <3> QED  BY <3>1, <3>2, <3>3, <3>4
  <2>2. CASE /\ outcome' = [u \in Uids |-> IF u \in Pending THEN [outcome[u] EXCEPT !.status = "unknown"] ELSE outcome[u]]
             /\ UNCHANGED look
    <3>1. outcome' \in [Uids -> [status : {"none", "pending", "sent", "handled", "unknown"}, miss : 0 .. MissThreshold]]
      BY <1>1, <2>2 DEF AftermathTypeOK
    <3>2. \A u \in Uids : \/ outcome'[u] = outcome[u]
                          \/ u \in Pending /\ outcome'[u].status = "unknown"
      BY <1>1, <2>2 DEF AftermathTypeOK
    <3>3. look' \in [on : BOOLEAN, gone : SUBSET Uids] /\ look'.gone = {}
      BY <1>1, <1>2, <2>2 DEF AftermathTypeOK
    <3> QED  BY <3>1, <3>2, <3>3
  <2> QED  BY <2>1, <2>2 DEF LookInDrafts
<1>6. AftermathTypeOK'
  BY <1>1, <1>2, <1>3, <1>5 DEF AftermathTypeOK
<1>7. LookInv'
  <2>1. look'.gone \subseteq Pending'
    BY <1>1, <1>5 DEF Pending
  <2>2. ASSUME NEW u \in look'.gone PROVE place'[u] \in Away \/ u \in strayed' \cup Pardoned'
    <3>1. u \in Pending /\ place[u] # "drafts" /\ u \in Uids /\ outcome[u].status # "none"
      BY <1>5 DEF Pending
    <3>2. place[u] # "nowhere" /\ place[u] \in {"nowhere", "drafts", "outbox", "late", "sent", "trash"}
      BY <1>1, <3>1, AftermathTypes DEF LookInv
    <3>3. CASE place[u] \in Away
      BY <1>2, <3>3
    <3>4. CASE place[u] = "trash"
      <4>1. u \in strayed
        BY <1>1, <3>1, <3>4 DEF LookInv
      <4> QED  BY <1>2, <4>1
    <3> QED  BY <3>1, <3>2, <3>3, <3>4 DEF Away
  <2>3. \A u \in Uids : outcome'[u].status # "none" => place'[u] # "nowhere"
    BY <1>1, <1>2, <1>5 DEF LookInv, Pending
  <2>4. ASSUME NEW u \in Pending' PROVE outcome'[u].miss < MissThreshold
    <3>1. 0 < MissThreshold
      BY AftermathAssumption
    <3>2. u \in Uids /\ outcome'[u].status = "pending"
      BY DEF Pending
    <3>3. CASE outcome'[u] = outcome[u]
      BY <1>1, <3>2, <3>3 DEF LookInv, Pending
    <3> QED  BY <1>5, <3>1, <3>2, <3>3
  <2>5. \A u \in Uids : place'[u] = "trash" => u \in strayed'
    BY <1>1, <1>2 DEF LookInv
  <2> QED  BY <1>5, <2>1, <2>2, <2>3, <2>4, <2>5 DEF LookInv
<1>8. (MissThreshold > 1) => MissInv'
  <2> SUFFICES ASSUME MissInv, NEW u \in Uids \ (strayed \cup Pardoned)
               PROVE  /\ outcome'[u].status = "pending" /\ outcome'[u].miss > 0 => place[u] \in {"late", "sent"}
                      /\ outcome'[u].status = "handled" => place[u] = "sent" /\ ~clue[u]
    BY <1>1, <1>2 DEF MissInv
  <2>1. CASE outcome'[u] = outcome[u]
    BY <2>1 DEF MissInv
  <2>2. CASE outcome'[u].status = "pending" /\ outcome'[u].miss = 0
    <3>1. ~(outcome'[u].miss > 0)
      BY <2>2
    <3> QED  BY <2>2, <3>1
  <2>3. CASE outcome'[u].status = "unknown"
    BY <2>3
  <2> QED  BY <1>5, <2>1, <2>2, <2>3
<1> QED  BY <1>4, <1>6, <1>7, <1>8 DEF AftermathInv

\* Those not found in Drafts are looked for in Sent, where a message that was about to
\* arrive at the last look has arrived.
LEMMA LookInSentStep ==
    ASSUME AftermathInv, LookInSent
    PROVE  AftermathInv'
<1>1. /\ AftermathTypeOK /\ LookInv /\ (MissThreshold > 1 => MissInv)
      /\ look.gone \subseteq Pending /\ Pending \subseteq Uids
  BY DEF AftermathInv, Pending, LookInv
<1>2. /\ look' = NotLooking /\ \A u \in look.gone : place[u] # "late"
      /\ outcome' = [u \in Uids |->
           IF u \notin look.gone THEN outcome[u]
           ELSE IF FoundSent(u) THEN [outcome[u] EXCEPT !.status = "sent"]
           ELSE [status |-> IF Missed(outcome[u]) THEN "handled" ELSE "pending", miss |-> outcome[u].miss + 1]]
      /\ place' = [u \in Uids |-> IF u \in look.gone /\ place[u] = "outbox" THEN "late" ELSE place[u]]
      /\ UNCHANGED <<batchRun, contract, unreported, observed, evidence, items, clue, toldVars, redone, excused,
                     untold, strayed, mischances>>
      /\ Pardoned' = Pardoned
  BY DEF LookInSent, familyVars, toldVars, Pardoned
<1>3. /\ place' \in [Uids -> {"nowhere", "drafts", "outbox", "late", "sent", "trash"}]
      /\ \A u \in Uids : \/ place'[u] = place[u] /\ ~(u \in look.gone /\ place[u] = "outbox")
                         \/ u \in look.gone /\ place[u] = "outbox" /\ place'[u] = "late"
  BY <1>1, <1>2 DEF AftermathTypeOK
<1>4. \A u \in look.gone : /\ u \in Uids /\ outcome[u].status = "pending"
                           /\ outcome[u].miss + 1 \in 0..MissThreshold
  <2> SUFFICES ASSUME NEW u \in look.gone
               PROVE  u \in Uids /\ outcome[u].status = "pending" /\ outcome[u].miss + 1 \in 0..MissThreshold
    OBVIOUS
  <2>1. u \in Uids /\ u \in Pending /\ outcome[u].status = "pending"
    BY <1>1 DEF Pending
  <2>2. outcome[u].miss \in 0..MissThreshold
    BY <1>1, <2>1, AftermathTypes
  <2>3. outcome[u].miss < MissThreshold
    BY <1>1, <2>1 DEF LookInv
  <2> QED  BY <2>1, <2>2, <2>3, AftermathAssumption
<1>5. \A u \in Uids \ look.gone : outcome'[u] = outcome[u]
  BY <1>2
<1>6. \A u \in look.gone :
        \/ FoundSent(u) /\ outcome'[u].status = "sent" /\ outcome'[u].miss = outcome[u].miss
        \/ /\ ~FoundSent(u) /\ ~Missed(outcome[u])
           /\ outcome'[u].status = "pending" /\ outcome'[u].miss = outcome[u].miss + 1
        \/ /\ ~FoundSent(u) /\ Missed(outcome[u])
           /\ outcome'[u].status = "handled" /\ outcome'[u].miss = outcome[u].miss + 1
  <2> SUFFICES ASSUME NEW u \in look.gone
               PROVE  \/ FoundSent(u) /\ outcome'[u].status = "sent" /\ outcome'[u].miss = outcome[u].miss
                      \/ /\ ~FoundSent(u) /\ ~Missed(outcome[u])
                         /\ outcome'[u].status = "pending" /\ outcome'[u].miss = outcome[u].miss + 1
                      \/ /\ ~FoundSent(u) /\ Missed(outcome[u])
                         /\ outcome'[u].status = "handled" /\ outcome'[u].miss = outcome[u].miss + 1
    OBVIOUS
  <2>1. outcome[u] \in [status : {"none", "pending", "sent", "handled", "unknown"}, miss : 0 .. MissThreshold]
    BY <1>1, <1>4 DEF AftermathTypeOK
  <2> QED  BY <1>2, <1>4, <2>1
<1>7. outcome' \in [Uids -> [status : {"none", "pending", "sent", "handled", "unknown"}, miss : 0 .. MissThreshold]]
  <2> SUFFICES ASSUME NEW u \in Uids
               PROVE  outcome'[u] \in [status : {"none", "pending", "sent", "handled", "unknown"}, miss : 0 .. MissThreshold]
    BY <1>2
  <2>1. outcome[u] \in [status : {"none", "pending", "sent", "handled", "unknown"}, miss : 0 .. MissThreshold]
    BY <1>1 DEF AftermathTypeOK
  <2>2. CASE u \notin look.gone
    BY <1>5, <2>1, <2>2
  <2>3. CASE u \in look.gone
    <3>1. outcome[u].miss + 1 \in 0..MissThreshold
      BY <1>4, <2>3
    <3> QED  BY <1>2, <2>1, <2>3, <3>1
  <2> QED  BY <2>2, <2>3
<1>8. TraceInv' /\ BatchInv' /\ SentMailIsNotRedrafted'
  <2>1. \A u \in Uids : place'[u] = "nowhere" <=> place[u] = "nowhere"
    BY <1>3
  <2> QED  BY <1>2, <2>1, RunsUntouched
<1>9. AftermathTypeOK'
  <2>1. look' \in [on : BOOLEAN, gone : SUBSET Uids]
    BY <1>2 DEF NotLooking
  <2> QED  BY <1>1, <1>2, <1>3, <1>7, <2>1 DEF AftermathTypeOK
<1>10. LookInv'
  <2>1. look'.gone = {}
    BY <1>2 DEF NotLooking
  <2>2. \A u \in Uids : place'[u] = "trash" => u \in strayed'
    BY <1>1, <1>2, <1>3 DEF LookInv
  <2>3. \A u \in Uids : outcome'[u].status # "none" => place'[u] # "nowhere"
    BY <1>1, <1>3, <1>4, <1>5 DEF LookInv
  <2>4. ASSUME NEW u \in Pending' PROVE outcome'[u].miss < MissThreshold
    <3>1. u \in Uids /\ outcome'[u].status = "pending"
      BY DEF Pending
    <3>2. CASE u \notin look.gone
      <4>1. outcome'[u] = outcome[u] /\ u \in Pending
        BY <1>5, <3>1, <3>2 DEF Pending
      <4> QED  BY <1>1, <4>1 DEF LookInv
    <3>3. CASE u \in look.gone
      <4>1. ~Missed(outcome[u]) /\ outcome'[u].miss = outcome[u].miss + 1
        BY <1>6, <3>1, <3>3
      <4>2. outcome[u].miss + 1 \in 0..MissThreshold
        BY <1>4, <3>3
      <4>3. ~(outcome[u].miss + 1 >= MissThreshold)
        BY <4>1 DEF Missed
      <4> QED  BY <4>1, <4>2, <4>3, AftermathAssumption
    <3> QED  BY <3>2, <3>3
  <2> QED  BY <2>1, <2>2, <2>3, <2>4 DEF LookInv
<1>11. (MissThreshold > 1) => MissInv'
  <2> SUFFICES ASSUME MissThreshold > 1, MissInv, NEW u \in Uids \ (strayed \cup Pardoned)
               PROVE  /\ outcome'[u].status = "pending" /\ outcome'[u].miss > 0 => place'[u] \in {"late", "sent"}
                      /\ outcome'[u].status = "handled" => place'[u] = "sent" /\ ~clue[u]
    BY <1>1, <1>2 DEF MissInv
  <2>1. /\ outcome[u].status = "pending" /\ outcome[u].miss > 0 => place[u] \in {"late", "sent"}
        /\ outcome[u].status = "handled" => place[u] = "sent" /\ ~clue[u]
    BY DEF MissInv
  <2>2. CASE u \notin look.gone
    BY <1>3, <1>5, <2>1, <2>2
  <2>3. CASE u \in look.gone
    <3>1. place[u] \in {"outbox", "sent"}
      BY <1>1, <1>2, <2>3 DEF LookInv, Away
    <3>2. place'[u] \in {"late", "sent"}
      BY <1>3, <1>4, <2>3, <3>1
    <3>3. ASSUME outcome'[u].status = "handled" PROVE place'[u] = "sent" /\ ~clue[u]
      <4>1. ~FoundSent(u) /\ Missed(outcome[u])
        BY <1>6, <2>3, <3>3
      <4>2. outcome[u].miss + 1 >= MissThreshold
        BY <4>1 DEF Missed
      <4>3. outcome[u].miss \in 0..MissThreshold
        BY <1>1, AftermathTypes
      <4>4. outcome[u].miss > 0
        BY <4>2, <4>3, AftermathAssumption
      <4>5. place[u] = "sent"
        BY <1>4, <2>1, <2>3, <3>1, <4>4
      <4> QED  BY <1>3, <4>1, <4>5 DEF FoundSent
    <3> QED  BY <3>2, <3>3
  <2> QED  BY <2>2, <2>3
<1> QED  BY <1>8, <1>9, <1>10, <1>11 DEF AftermathInv

LEMMA LookFailsStep ==
    ASSUME AftermathInv, LookFails
    PROVE  AftermathInv'
<1>1. /\ AftermathTypeOK /\ LookInv /\ (MissThreshold > 1 => MissInv)
  BY DEF AftermathInv
<1>2. /\ look' = NotLooking
      /\ UNCHANGED <<batchRun, contract, unreported, observed, evidence, items, outcome, place, clue, toldVars,
                     redone, excused, untold, strayed, mischances>>
      /\ Pardoned' = Pardoned
  BY DEF LookFails, familyVars, toldVars, Pardoned
<1>3. TraceInv' /\ BatchInv' /\ SentMailIsNotRedrafted'
  BY <1>2, RunsUntouched
<1>4. look' \in [on : BOOLEAN, gone : SUBSET Uids] /\ look'.gone = {} /\ Pending' = Pending
  BY <1>2 DEF NotLooking, Pending
<1>5. AftermathTypeOK'
  BY <1>1, <1>2, <1>4 DEF AftermathTypeOK
<1>6. LookInv' /\ (MissThreshold > 1 => MissInv')
  BY <1>1, <1>2, <1>4 DEF LookInv, MissInv
<1> QED  BY <1>3, <1>5, <1>6 DEF AftermathInv

LEMMA AftermathInitInv == AftermathInit => AftermathInv
<1> SUFFICES ASSUME AftermathInit PROVE AftermathInv
  OBVIOUS
<1>1. /\ 0 \in 0..MissThreshold /\ 0 \in 0..MaxMischances
      /\ NoRun \in [status : Statuses, uids : SUBSET Uids]
      /\ [status |-> "running", uids |-> Uids] \in [status : Statuses, uids : SUBSET Uids]
  BY AftermathAssumption DEF NoRun, Statuses
<1>2. NoOutcome \in [status : {"none", "pending", "sent", "handled", "unknown"}, miss : 0 .. MissThreshold]
  BY <1>1 DEF NoOutcome
<1>3. NotLooking \in [on : BOOLEAN, gone : SUBSET Uids] /\ NotLooking.gone = {}
  BY DEF NotLooking
<1>4. AftermathTypeOK
  <2>1. /\ batchRun \in [Ids -> [status : Statuses, uids : SUBSET Uids]]
        /\ \A r, q \in Ids : batchRun[r].status = "running" /\ batchRun[q].status = "running" => r = q
    BY <1>1 DEF AftermathInit, NoRun
  <2> QED  BY <1>1, <1>2, <1>3, <2>1 DEF AftermathInit, AftermathTypeOK
<1>5. \A q \in Ids : \A u : ~Shown(q, u)
  BY DEF AftermathInit, Shown
<1>6. Evident = {}
  BY <1>5, EvidentIs
<1>7. TraceInv /\ BatchInv /\ SentMailIsNotRedrafted
  <2>1. \A u \in Uids : place[u] = "nowhere"
    BY DEF AftermathInit
  <2>2. \A r \in Ids : Undealt(r) \subseteq Uids
    BY <1>4, AftermathTypes DEF Undealt
  <2>3. Known = {}
    BY DEF AftermathInit, Known
  <2> QED  BY <1>5, <1>6, <2>1, <2>2, <2>3 DEF AftermathInit, TraceInv, BatchInv, SentMailIsNotRedrafted
<1>8. LookInv /\ MissInv
  BY <1>3 DEF AftermathInit, LookInv, MissInv, Pending, NoOutcome
<1> QED  BY <1>4, <1>7, <1>8 DEF AftermathInv

LEMMA AftermathStep == AftermathInv /\ [AftermathNext]_aftermathVars => AftermathInv'
<1> SUFFICES ASSUME AftermathInv, [AftermathNext]_aftermathVars PROVE AftermathInv'
  OBVIOUS
<1>1. CASE \E r \in Ids, u \in Uids : WriteDraft(r, u) \/ FindDraft(r, u) \/ Report(r, u)
  BY <1>1, WriteDraftStep, FindDraftStep, ReportStep
<1>2. CASE \E r \in Ids : EndBatch(r) \/ RetryRun(r)
  BY <1>2, EndBatchStep, RetryRunStep
<1>3. CASE \E rs \in SUBSET Ids : PurgeRuns(rs)
  BY <1>3, PurgeRunsStep
<1>4. CASE \E u \in Uids : Send(u) \/ Arrive(u) \/ ThrowAway(u) \/ PutBack(u)
  BY <1>4, MailboxStep
<1>5. CASE LookInDrafts \/ LookInSent \/ LookFails
  BY <1>5, LookInDraftsStep, LookInSentStep, LookFailsStep
<1>6. CASE UNCHANGED aftermathVars
  <2>1. /\ AftermathTypeOK /\ LookInv /\ (MissThreshold > 1 => MissInv)
    BY DEF AftermathInv
  <2>2. /\ UNCHANGED <<batchRun, contract, unreported, observed, evidence, items, outcome, place, clue, look>>
        /\ UNCHANGED <<toldVars, redone, excused, untold, strayed, mischances>>
        /\ Pardoned' = Pardoned
    BY <1>6 DEF aftermathVars, familyVars, toldVars, Pardoned
  <2>3. TraceInv' /\ BatchInv' /\ SentMailIsNotRedrafted'
    BY <2>2, RunsUntouched
  <2>4. Pending' = Pending
    BY <2>2 DEF Pending
  <2>5. AftermathTypeOK'
    BY <2>1, <2>2 DEF AftermathTypeOK
  <2>6. LookInv' /\ (MissThreshold > 1 => MissInv')
    BY <2>1, <2>2, <2>4 DEF LookInv, MissInv
  <2> QED  BY <2>3, <2>5, <2>6 DEF AftermathInv
<1> QED  BY <1>1, <1>2, <1>3, <1>4, <1>5, <1>6 DEF AftermathNext

----------------------------------------------------------------------------
\* What the evidence, the mailbox and the outcomes say agrees, in every state of any
\* batch and its retries.
THEOREM AftermathInvariance == AftermathSpec => []AftermathInv
<1> QED  BY AftermathInitInv, AftermathStep, PTL DEF AftermathSpec

\* Every variable has a value its columns allow, and one run of the family works at a
\* time.
THEOREM AftermathTypeCorrect == AftermathSpec => []AftermathTypeOK
<1>1. AftermathInv => AftermathTypeOK
  BY DEF AftermathInv
<1> QED  BY <1>1, AftermathInvariance, PTL

\* A message whose draft the customer has sent is not drafted again by any retry,
\* unless its evidence was lost, purged, or never looked at.
THEOREM SentMailIsNotRedraftedHolds == AftermathSpec => []SentMailIsNotRedrafted
<1>1. AftermathInv => SentMailIsNotRedrafted
  BY DEF AftermathInv
<1> QED  BY <1>1, AftermathInvariance, PTL

\* A draft that was sent and can be recognised is not reported as handled otherwise,
\* when it takes more than one miss to say so.
THEOREM SentIsNotHandledHolds ==
    ASSUME MissThreshold > 1
    PROVE  AftermathSpec => []SentIsNotHandled
<1>1. AftermathInv => SentIsNotHandled
  BY DEF AftermathInv, MissInv, SentIsNotHandled, Pardoned
<1> QED  BY <1>1, AftermathInvariance, PTL

----------------------------------------------------------------------------
(* Platform.                                                               *)

\* A step of the platform is a step of the component in focus, and the others stay as
\* they are: a behaviour of the platform is a behaviour of each.
THEOREM PlatformImplementsItsParts ==
    PlatformSpec => IngestSpec /\ MemorySpec /\ DeploymentSpec /\ LoginSpec /\ AftermathSpec
<1>1. PlatformInit => IngestInit /\ MemoryInit /\ DeploymentInit /\ LoginInit /\ AftermathInit
  BY DEF PlatformInit
<1>2. [PlatformNext]_platformVars =>
        /\ [IngestNext]_ingestVars /\ [MemoryNext]_memoryVars /\ [DeploymentNext]_deploymentVars
        /\ [LoginNext]_loginVars /\ [AftermathNext]_aftermathVars
  BY DEF PlatformNext, platformVars
<1> QED  BY <1>1, <1>2, PTL DEF PlatformSpec, IngestSpec, MemorySpec, DeploymentSpec, LoginSpec, AftermathSpec

\* In every behaviour of the platform every variable, of the component in focus and of
\* the others, keeps its type.
THEOREM PlatformTypeCorrect == PlatformSpec => []PlatformTypeOK
<1>1. /\ IngestTypeOK /\ MemoryTypeOK /\ DeploymentTypeOK /\ LoginTypeOK /\ AftermathTypeOK
      => PlatformTypeOK
  BY DEF PlatformTypeOK
<1> QED
  BY <1>1, PlatformImplementsItsParts, IngestTypeCorrect, MemoryTypeCorrect, DeploymentTypeCorrect,
     LoginTypeCorrect, AftermathTypeCorrect, PTL
=============================================================================
