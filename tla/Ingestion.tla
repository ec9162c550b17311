------------------------------ MODULE Ingestion ------------------------------
(***************************************************************************)
(* One document collection: the uploads, removals, restores and retries    *)
(* that stage a generation of files, the jobs that index a generation, the *)
(* pruning of old ones, and the compiled teams that search the live one.   *)
(*                                                                         *)
(* A request holds the collection's lock from its checks until the job has *)
(* been submitted; a worker holds nothing, and each of its steps ends at a *)
(* query whose answer it goes on to use, or at a commit.                   *)
(***************************************************************************)
EXTENDS Naturals, FiniteSets, FiniteSetsExt

CONSTANTS
    Uploads,        \* the sets of <<name, content>> files a customer may send
    Scans,          \* contents without any extractable text
    MaxJobs,        \* bound: ingestion jobs
    MaxMishaps      \* bound: refused submissions, failed embeddings, errors, restarts,
                    \* deletions, and uploads that do not wait for the one before

ASSUME IngestAssumption == MaxJobs \in Nat /\ MaxMishaps \in Nat

VARIABLES
    base,       \* the KnowledgeBaseRecord: whether it exists, and its config's type
    job,        \* knowledge_ingestion_jobs, by id; "gone" before and after a row exists
    chunked,    \* the files of a job that have chunk rows
    vectored,   \* those whose chunks have embeddings
    dirs,       \* the jobs whose version directory is on disk
    made,       \* ids given out
    submitting, \* the job whose request has committed it and not yet submitted it, or 0
    indexer,    \* the workers, by job
    chores,     \* what workers have left to do after their job's last commit
    cited,      \* run_knowledge_generations: jobs the trace of a run names
    cached,     \* the generation inside the cached pipeline, or 0
    loader,     \* a request that compiles the pipeline and runs it; "current" while
                \* _pipeline_cache_generation is what it was when the request began
    mishaps,
    crowded,    \* history: two jobs were in flight at once
    lateCite    \* history: a job was cited after a prune had decided on it

ingestVars == <<base, job, chunked, vectored, dirs, made, submitting, indexer, chores,
                cited, cached, loader, mishaps, crowded, lateCite>>

Jobs == 1..MaxJobs
Shapes == {"local_folder", "hybrid"}
File == UNION Uploads
NameOf(files) == {f[1] : f \in files}
Readable(files) == {f \in files : f[2] \notin Scans}

JobRows == [status : {"gone", "queued", "running", "completed", "failed"}, shape : Shapes,
            files : SUBSET File]
Indexers == [pc : {"none", "queued", "chunks", "finish"}, sources : SUBSET Jobs,
             carried : SUBSET File, bare : SUBSET File]
Chores == [do : {"invalidate", "survey", "reap", "failed"}, by : 0..MaxJobs,
           old : SUBSET Jobs, spared : SUBSET Jobs]
Loaders == [pc : {"idle", "build", "store", "run", "cited", "over"}, current : BOOLEAN, built : 0..MaxJobs]

NoJob == [status |-> "gone", shape |-> "local_folder", files |-> {}]
NoIndexer == [pc |-> "none", sources |-> {}, carried |-> {}, bare |-> {}]
Loader(pc) == [pc |-> pc, current |-> TRUE, built |-> 0]

IngestInit ==
    /\ base = [exists |-> FALSE, type |-> "local_folder"]
    /\ job = [j \in Jobs |-> NoJob]
    /\ chunked = [j \in Jobs |-> {}] /\ vectored = [j \in Jobs |-> {}]
    /\ dirs = {} /\ made = 0 /\ submitting = 0
    /\ indexer = [j \in Jobs |-> NoIndexer] /\ chores = {}
    /\ cited = {} /\ cached = 0 /\ loader = Loader("idle")
    /\ mishaps = 0 /\ crowded = FALSE /\ lateCite = FALSE

IngestTypeOK ==
    /\ base \in [exists : BOOLEAN, type : Shapes]
    /\ job \in [Jobs -> JobRows] /\ indexer \in [Jobs -> Indexers]
    /\ chunked \in [Jobs -> SUBSET File] /\ vectored \in [Jobs -> SUBSET File]
    /\ \A j \in Jobs : vectored[j] \subseteq chunked[j]
    /\ dirs \subseteq Jobs /\ cited \subseteq Jobs
    /\ made \in 0..MaxJobs /\ submitting \in 0..made /\ cached \in 0..made
    /\ chores \subseteq Chores /\ loader \in Loaders
    /\ mishaps \in 0..MaxMishaps /\ crowded \in BOOLEAN /\ lateCite \in BOOLEAN

Present == {j \in Jobs : job[j].status # "gone"}
Completed == {j \in Jobs : job[j].status = "completed"}
Failed == {j \in Jobs : job[j].status = "failed"}
InFlight == {j \in Jobs : job[j].status \in {"queued", "running"}}
Newest(S) == IF S = {} THEN 0 ELSE Max(S)

\* The newest completed job by id is what is searched, whatever finished last.
Live == Newest(Completed)

\* The n newest of S: _KEEP_COMPLETED_GENERATIONS is 2.
NewestOf(S, n) == {j \in S : Cardinality({k \in S : k > j}) < n}
Kept == NewestOf(Completed, 2)
Previous == Newest(Kept \ {Live})

Mishap == mishaps < MaxMishaps /\ mishaps' = mishaps + 1

----------------------------------------------------------------------------
(* Requests.  Holding the lock is submitting # 0; everything before the    *)
(* commit reads rows nobody but a worker writes.                           *)

\* _stage_previous_generation: a file of the same name is superseded.
Carry(source, superseded) ==
    IF source \in dirs THEN {f \in job[source].files : f[1] \notin superseded} ELSE {}

Stage(files, shape) ==
    /\ made < MaxJobs
    /\ made' = made + 1 /\ submitting' = made + 1
    /\ job' = [job EXCEPT ![made + 1] =
                 [status |-> "queued", shape |-> shape, files |-> files]]
    /\ dirs' = dirs \cup {made + 1}
    /\ crowded' = (crowded \/ InFlight # {})
    /\ UNCHANGED <<chunked, vectored, indexer, chores, cited, cached, loader, lateCite>>

\* upload_own_knowledge_base: an upload to a collection that exists waits for the
\* one before it, and names its shape itself.
UploadOwn(files, mode, shape) ==
    /\ submitting = 0 /\ (base.exists => InFlight = {})
    /\ base' = [exists |-> TRUE, type |-> shape]
    /\ UNCHANGED mishaps
    /\ Stage(files \cup (IF mode = "add" THEN Carry(Live, NameOf(files)) ELSE {}), shape)

\* The operator's upload replaces, inherits the config's shape, and waits for nothing.
UploadAsAdmin(files) ==
    LET shape == IF base.exists THEN base.type ELSE "local_folder" IN
    /\ submitting = 0
    /\ base' = [exists |-> TRUE, type |-> shape]
    /\ IF InFlight = {} THEN UNCHANGED mishaps ELSE Mishap
    /\ Stage(files, shape)

Quiet == base.exists /\ submitting = 0 /\ InFlight = {}

\* remove_knowledge_base_document: refused for the last document that could be read.
RemoveDocument(f) ==
    /\ Quiet /\ Live # 0 /\ f \in job[Live].files
    /\ chunked[Live] \ {f} # {} /\ Live \in dirs
    /\ Stage(Carry(Live, {f[1]}), job[Live].shape)
    /\ UNCHANGED <<base, mishaps>>

RestorePrevious ==
    /\ Quiet /\ Previous # 0 /\ Previous \in dirs
    /\ Stage(Carry(Previous, {}), job[Previous].shape)
    /\ UNCHANGED <<base, mishaps>>

\* retry_ingestion_job: the collection's newest job, in place.
Retryable(j) == j = Newest(Present) /\ job[j].status = "failed" /\ j \in dirs

RetryJob(j) ==
    /\ Quiet /\ Retryable(j)
    /\ job' = [job EXCEPT ![j].status = "queued"]
    /\ chunked' = [chunked EXCEPT ![j] = {}] /\ vectored' = [vectored EXCEPT ![j] = {}]
    /\ submitting' = j
    /\ UNCHANGED <<base, dirs, made, indexer, chores, cited, cached, loader, mishaps, crowded, lateCite>>

\* _dispatch_ingestion_job
SubmitJob ==
    /\ submitting # 0 /\ submitting' = 0
    /\ \/ /\ indexer' = [indexer EXCEPT ![submitting] = [NoIndexer EXCEPT !.pc = "queued"]]
          /\ UNCHANGED <<job, mishaps>>
       \/ /\ Mishap
          /\ job' = [job EXCEPT ![submitting].status = "failed"]
          /\ UNCHANGED indexer
    /\ UNCHANGED <<base, chunked, vectored, dirs, made, chores, cited, cached, loader, crowded, lateCite>>

\* delete_knowledge_base: the rows and the directory go, then the cached pipelines.
DeleteBase ==
    /\ Quiet /\ Mishap
    /\ base' = [base EXCEPT !.exists = FALSE]
    /\ job' = [j \in Jobs |-> NoJob]
    /\ chunked' = [j \in Jobs |-> {}] /\ vectored' = [j \in Jobs |-> {}]
    /\ dirs' = {} /\ cited' = {}
    /\ chores' = chores \cup {[do |-> "invalidate", by |-> 0, old |-> {}, spared |-> {}]}
    /\ UNCHANGED <<made, submitting, indexer, cached, loader, crowded, lateCite>>

----------------------------------------------------------------------------
(* run_ingestion_job.                                                      *)

At(j, pc) == indexer[j].pc = pc

\* _reusable_documents asks for the live generation and the one before it, of this
\* job's shape ...
Candidates(j) == NewestOf(Completed \ {j}, 2)

BeginJob(j) ==
    /\ At(j, "queued")
    /\ job' = [job EXCEPT ![j].status = "running"]
    /\ indexer' = [indexer EXCEPT ![j] =
         [@ EXCEPT !.pc = "chunks", !.sources = {k \in Candidates(j) : job[k].shape = job[j].shape}]]
    /\ UNCHANGED <<base, chunked, vectored, dirs, made, submitting, chores, cited, cached,
                   loader, mishaps, crowded, lateCite>>

\* ... and then for their chunks.  A file is carried when its name and its bytes are
\* a chunked document's.
SameName(f, k) == f[1] \in NameOf(chunked[k])
SameFile(f, k) == f \in chunked[k]

ReadChunks(j) ==
    LET holders(f) == {k \in indexer[j].sources : SameFile(f, k)}
        carried == {f \in job[j].files : holders(f) # {}}
    IN
    /\ At(j, "chunks")
    /\ indexer' = [indexer EXCEPT ![j] =
         [@ EXCEPT !.pc = "finish", !.carried = carried,
                   !.bare = {f \in carried : f \notin vectored[Max(holders(f))]}]]
    /\ UNCHANGED <<base, job, chunked, vectored, dirs, made, submitting, chores, cited, cached,
                   loader, mishaps, crowded, lateCite>>

\* What is left to parse and embed; a directory that is gone holds no files.
Staged(j) == IF j \in dirs THEN job[j].files ELSE {}
Fresh(j) == Readable(Staged(j)) \ indexer[j].carried

Chore(do, j) == [do |-> do, by |-> j, old |-> {}, spared |-> {}]

Ended(j) == indexer' = [indexer EXCEPT ![j] = NoIndexer]

\* The rows and the job's terminal status are one commit.
FinishJob(j) ==
    LET all == (indexer[j].carried \cap Staged(j)) \cup Fresh(j)
        outcome == IF all # {} THEN "completed" ELSE "failed"
    IN
    /\ At(j, "finish") /\ Ended(j)
    /\ job' = [job EXCEPT ![j].status = outcome]
    /\ chunked' = [chunked EXCEPT ![j] = all]
    /\ vectored' = [vectored EXCEPT ![j] =
         IF job[j].shape = "hybrid" THEN all \ indexer[j].bare ELSE {}]
    /\ chores' = chores \cup {Chore(IF outcome = "completed" THEN "invalidate" ELSE "failed", j)}
    /\ UNCHANGED <<base, dirs, made, submitting, cited, cached, loader, mishaps, crowded, lateCite>>

\* An embedding that fails, or an error anywhere: no rows are left behind.
FailJob(j) ==
    /\ indexer[j].pc \in {"chunks", "finish"} /\ Mishap /\ Ended(j)
    /\ job' = [job EXCEPT ![j].status = "failed"]
    /\ \/ At(j, "finish") /\ job[j].shape = "hybrid" /\ Fresh(j) # {}
          /\ chores' = chores \cup {Chore("failed", j)}
       \/ UNCHANGED chores
    /\ UNCHANGED <<base, chunked, vectored, dirs, made, submitting, cited, cached, loader, crowded, lateCite>>

----------------------------------------------------------------------------
(* After the commit: the cache, then the old generations, then the failed  *)
(* attempts' files.                                                        *)

Next1(c, n) == chores' = (chores \ {c}) \cup n

InvalidateCache(c) ==
    /\ c.do = "invalidate"
    /\ cached' = 0 /\ loader' = [loader EXCEPT !.current = FALSE]
    /\ Next1(c, IF c.by = 0 THEN {} ELSE {[c EXCEPT !.do = "survey"]})
    /\ UNCHANGED <<base, job, chunked, vectored, dirs, made, submitting, indexer, cited,
                   mishaps, crowded, lateCite>>

\* _prune_failed_ingestion_versions: the newest failed job keeps its files.
OldFailures == Failed \ {Newest(Failed)}

\* _prune_old_ingestion_versions asks which old generations are cited ...
SparedNone(old) == {}
Spared(old) == old \cap cited

SurveyOld(c) ==
    LET old == Completed \ Kept IN
    /\ c.do = "survey"
    /\ Next1(c, {[c EXCEPT !.do = "reap", !.old = old, !.spared = Spared(old)]})
    /\ UNCHANGED <<base, job, chunked, vectored, dirs, made, submitting, indexer, cited, cached,
                   loader, mishaps, crowded, lateCite>>

\* ... and then takes the vectors of those, and the rows of the others; the failed
\* attempts' files go with it.
ReapOld(c) ==
    LET doomed == c.old \ c.spared IN
    /\ c.do = "reap"
    /\ dirs' = dirs \ (c.old \cup OldFailures)
    /\ vectored' = [j \in Jobs |-> IF j \in c.old THEN {} ELSE vectored[j]]
    /\ chunked' = [j \in Jobs |-> IF j \in doomed THEN {} ELSE chunked[j]]
    /\ job' = [j \in Jobs |-> IF j \in doomed THEN NoJob ELSE job[j]]
    /\ Next1(c, {})
    /\ UNCHANGED <<base, made, submitting, indexer, cited, cached, loader, mishaps, crowded, lateCite>>

\* A worker whose job failed has only these to reclaim.
PruneFailed(c) ==
    /\ c.do = "failed"
    /\ dirs' = dirs \ (OldFailures \ {c.by})
    /\ Next1(c, {})
    /\ UNCHANGED <<base, job, chunked, vectored, made, submitting, indexer, cited, cached,
                   loader, mishaps, crowded, lateCite>>

----------------------------------------------------------------------------
(* A request that resolves the team: _resolve_pipeline_and_version, and the *)
(* run that searches the collection it was compiled against.               *)

ResolveTeam ==
    /\ loader.pc = "idle"
    /\ loader' = [Loader(IF cached = 0 THEN "build" ELSE "run") EXCEPT !.built = cached]
    /\ UNCHANGED <<base, job, chunked, vectored, dirs, made, submitting, indexer, chores, cited,
                   cached, mishaps, crowded, lateCite>>

\* resolve_knowledge_base: not ready without a completed job.
BuildTeam ==
    /\ loader.pc = "build"
    /\ loader' = IF Live = 0 THEN Loader("idle") ELSE [loader EXCEPT !.pc = "store", !.built = Live]
    /\ UNCHANGED <<base, job, chunked, vectored, dirs, made, submitting, indexer, chores, cited,
                   cached, mishaps, crowded, lateCite>>

\* _store_pipeline_in_cache: not when the cache was cleared since.
AlwaysCurrent(l) == TRUE
StillCurrent(l) == l.current

StoreTeam ==
    /\ loader.pc = "store"
    /\ cached' = IF StillCurrent(loader) THEN loader.built ELSE cached
    /\ loader' = [loader EXCEPT !.pc = "run"]
    /\ UNCHANGED <<base, job, chunked, vectored, dirs, made, submitting, indexer, chores, cited,
                   mishaps, crowded, lateCite>>

\* _safe_record_knowledge_generation: a generation that is gone gets no reference.
CiteGeneration ==
    /\ loader.pc = "run" /\ loader.built \in Present
    /\ cited' = cited \cup {loader.built}
    /\ lateCite' = (lateCite \/ \E c \in chores : c.do = "reap" /\ loader.built \in c.old \ c.spared)
    /\ loader' = [loader EXCEPT !.pc = "cited"]
    /\ UNCHANGED <<base, job, chunked, vectored, dirs, made, submitting, indexer, chores, cached,
                   mishaps, crowded>>

\* The run ends (one request is enough: it may come at any time), or, cited, is
\* purged by retention, which releases its reference.
EndRun ==
    /\ loader.pc \in {"run", "cited"} /\ loader' = Loader("over")
    /\ cited' = cited \ {loader.built}
    /\ UNCHANGED <<base, job, chunked, vectored, dirs, made, submitting, indexer, chores, cached,
                   mishaps, crowded, lateCite>>

\* fail_interrupted_jobs: no worker survives the process.
RestartIngest ==
    /\ Mishap
    /\ job' = [j \in Jobs |-> IF j \in InFlight THEN [job[j] EXCEPT !.status = "failed"] ELSE job[j]]
    /\ submitting' = 0 /\ indexer' = [j \in Jobs |-> NoIndexer] /\ chores' = {}
    /\ cached' = 0 /\ loader' = Loader("over")
    /\ UNCHANGED <<base, chunked, vectored, dirs, made, cited, crowded, lateCite>>

IngestNext ==
    \/ \E F \in Uploads :
        \/ \E mode \in {"replace", "add"}, shape \in Shapes : UploadOwn(F, mode, shape)
        \/ UploadAsAdmin(F)
    \/ \E f \in File : RemoveDocument(f)
    \/ RestorePrevious \/ SubmitJob \/ DeleteBase \/ RestartIngest
    \/ \E j \in Jobs :
        \/ RetryJob(j) \/ BeginJob(j) \/ ReadChunks(j)
        \/ FinishJob(j) \/ FailJob(j)
    \/ \E c \in chores : InvalidateCache(c) \/ SurveyOld(c) \/ ReapOld(c) \/ PruneFailed(c)
    \/ ResolveTeam \/ BuildTeam \/ StoreTeam \/ CiteGeneration \/ EndRun

IngestSpec == IngestInit /\ [][IngestNext]_ingestVars

----------------------------------------------------------------------------
(* Properties.                                                             *)

\* A generation that can be searched or restored is whole: exactly the readable
\* files that were staged for it, under their own bytes, on disk, and with a vector
\* for every chunk when it answers by vectors, whatever was carried over from
\* whichever generation (ingestion.py "a KB's live document set is always its most
\* recent completed job's rows").  The vectors are claimed only while no two jobs
\* were in flight at once: the candidates of an overlapping job can lose theirs to a
\* prune between its two questions.
GenerationsAreWhole ==
    \A j \in Kept :
        /\ chunked[j] = Readable(job[j].files) /\ chunked[j] # {}
        /\ j \in dirs
        /\ job[j].shape = "hybrid" /\ ~crowded => vectored[j] = chunked[j]

\* Once the cache has been cleared after the last change, no pipeline compiled
\* against an older generation is served from it (CR-005).
CacheFollowsLive ==
    (\A c \in chores : c.do # "invalidate") => cached \in {0, Live}

\* What a stored trace names can be resolved to text, except for a reference
\* written while a prune was between its question and its answer.
AuditResolves == ~lateCite => \A j \in cited : chunked[j] # {}
==============================================================================
