--------------------------- MODULE LegacyRuntime ---------------------------
(***************************************************************************)
(* The legacy compatibility runtime of one project: review saves, the      *)
(* derived coverage_file_state aggregate, report injection, and the        *)
(* background progress and export jobs with their version cache, files,    *)
(* database rows and recovery at start-up                                  *)
(* (app/compat/legacy_runtime_previous_release.py,                         *)
(* app/progress/file_state_service.py).                                    *)
(*                                                                         *)
(* The facts of a file are the generation of its line index (idx, 0 when   *)
(* it has no rows) and the number of committed review changes (ana).       *)
(* Transactions take InnoDB's row locks: a save locks the row it writes    *)
(* and then the project-state row; the INSERT ... SELECT of a rebuild      *)
(* share-locks every fact of the project.                                  *)
(***************************************************************************)
EXTENDS Integers, FiniteSets

CONSTANTS Files, Savers, JobIds, None,
          MaxSaves,      \* bound: review saves that are attempted
          MaxInjects,    \* bound: report injections
          MaxFaults,     \* bound: failing statements, jobs and crashes of the injector
          MaxRestarts,   \* bound: server restarts
          Reads          \* bound: queries or batches a job reads

ASSUME NoneAssumption == None \notin JobIds

VARIABLES
    idx, ana,            \* coverage_line_index and coverage_analysis
    dv, fsv,             \* coverage_project_state, dv = 0 without a row
    fs,                  \* coverage_file_state
    cache,               \* _project_data_version_ttl
    polled,              \* a version a status poll has read and not yet cached
    saver, stateLock,    \* the transactions of saves; who locks the state row
    inj,                 \* the injecting process
    job, key,            \* _background_jobs and _background_job_keys
    row, file,           \* coverage_background_jobs and the result files
    run,                 \* the executor and the job function it runs
    saves, injects, faults, restarts

facts == <<idx, ana, dv, fsv, fs>>
jobs  == <<job, key, row, file, run>>
vars  == <<facts, cache, polled, saver, stateLock, inj, jobs,
           saves, injects, faults, restarts>>

Kinds == {"progress", "full_detail_export"}
Terminal == {"completed", "failed", "cancelled"}
Idle == [pc |-> "idle", file |-> None, ver |-> 0]
Resting == [pc |-> "idle", todo |-> {}, active |-> {}, ver |-> 0]
NoRun == [pc |-> "none", kind |-> None, ver |-> 0, reads |-> 0]

Fault == faults < MaxFaults /\ faults' = faults + 1

-----------------------------------------------------------------------------
(* The derived aggregate                                                   *)

\* One row per indexed file, computed from the facts the statement can see.
Derived(v, i, a) ==
    [f \in Files |-> IF i[f] = 0 THEN None
                                 ELSE [ver |-> v, idx |-> i[f], ana |-> a[f]]]

\* get_project_aggregate_readiness, and what a progress query asks for.
AggregateReady ==
    /\ dv > 0 /\ fsv = dv
    /\ \E f \in Files : fs[f] # None
    /\ \A f \in Files : fs[f] # None => fs[f].ver = dv

\* query_project_progress_aggregated: the rows when they are ready, and
\* query_authoritative_progress over the facts otherwise.
Progress == IF AggregateReady THEN fs ELSE Derived(dv, idx, ana)

\* The marker a rebuild leaves: readiness needs at least one derived row.
Marker(v, i) == IF \E f \in Files : i[f] > 0 THEN v ELSE 0

\* mutant: the marker is left as it was
StaleForgotten == fsv' = fsv

\* mark_project_aggregate_stale; an UPDATE of an absent row changes nothing.
MarkStale == fsv' = 0

-----------------------------------------------------------------------------
(* Review saves: do_POST, save_record, save_records_batch                  *)

Saved(s) == IF saver[s].pc = "idle" THEN ana
            ELSE [ana EXCEPT ![saver[s].file] = @ + 1]

\* A rebuild that has not committed share-locks all facts.
FactsShared == \E s \in Savers : saver[s].pc = "rebuilt"

\* The review rows of the request are written.
SaveRecord(s, f) ==
    /\ saver[s].pc = "idle" /\ saves < MaxSaves
    /\ ~FactsShared
    /\ \A t \in Savers : saver[t].file # f
    /\ saver' = [saver EXCEPT ![s] = [pc |-> "wrote", file |-> f, ver |-> 0]]
    /\ saves' = saves + 1
    /\ UNCHANGED <<facts, cache, polled, stateLock, inj, jobs, injects, faults, restarts>>

\* _advance_version_and_rebuild_file_state: the new version, under the lock
\* of the state row.
AdvanceVersion(s) ==
    /\ saver[s].pc = "wrote" /\ stateLock = None
    /\ stateLock' = s
    /\ saver' = [saver EXCEPT ![s].pc = "advanced", ![s].ver = dv + 1]
    /\ UNCHANGED <<facts, cache, polled, inj, jobs, saves, injects, faults, restarts>>

\* The rebuild inside the transaction; the version cache is set before the
\* commit.
RebuildInPlace(s) ==
    /\ saver[s].pc = "advanced"
    /\ \A t \in Savers : saver[t].pc # "wrote"
    /\ saver' = [saver EXCEPT ![s].pc = "rebuilt"]
    /\ cache' = saver[s].ver
    /\ UNCHANGED <<facts, polled, stateLock, inj, jobs, saves, injects, faults, restarts>>

CommitSave(s) ==
    /\ saver[s].pc = "rebuilt"
    /\ ana' = Saved(s)
    /\ dv' = saver[s].ver
    /\ fsv' = Marker(saver[s].ver, idx)
    /\ fs' = Derived(saver[s].ver, idx, Saved(s))
    /\ saver' = [saver EXCEPT ![s] = Idle]
    /\ stateLock' = None
    /\ UNCHANGED <<idx, cache, polled, inj, jobs, saves, injects, faults, restarts>>

\* The request ends with an error: the exception handler (or, for
\* save_record, the return of the connection to the pool in finish) rolls
\* the transaction back.
Rollback(s) ==
    /\ saver' = [saver EXCEPT ![s] = Idle]
    /\ stateLock' = IF stateLock = s THEN None ELSE stateLock

SaveFails(s) ==
    /\ saver[s].pc # "idle"
    /\ Fault
    /\ Rollback(s)
    /\ UNCHANGED <<facts, cache, polled, inj, jobs, saves, injects, restarts>>

\* Two saves wait for each other: one holds the state row and needs the
\* review row of the other. The server rolls either of them back.
SaveDeadlock(s, t) ==
    /\ saver[s].pc = "wrote" /\ saver[t].pc = "advanced"
    /\ \E victim \in {s, t} : Rollback(victim)
    /\ UNCHANGED <<facts, cache, polled, inj, jobs, saves, injects, faults, restarts>>

-----------------------------------------------------------------------------
(* Report injection: inject_coverage_report, in a process of its own       *)

InjectStart(report) ==
    /\ inj.pc = "idle" /\ injects < MaxInjects
    /\ report # {} /\ stateLock = None
    /\ MarkStale
    /\ inj' = [pc |-> "sync", todo |-> report, active |-> report, ver |-> 0]
    /\ injects' = injects + 1
    /\ UNCHANGED <<idx, ana, dv, fs, cache, polled, saver, stateLock, jobs,
                   saves, faults, restarts>>

\* A worker's sync_line_index (or delete_line_index_file when the page has
\* no uncovered line): stale and the new rows in one transaction.
SyncLineIndex(f, uncovered) ==
    /\ inj.pc = "sync" /\ f \in inj.todo /\ stateLock = None
    /\ MarkStale
    /\ idx' = [idx EXCEPT ![f] = IF uncovered THEN 2 ELSE 0]
    /\ inj' = [inj EXCEPT !.todo = @ \ {f}]
    /\ UNCHANGED <<ana, dv, fs, cache, polled, saver, stateLock, jobs,
                   saves, injects, faults, restarts>>

\* Four attempts fail: the page is still active and keeps its old rows.
SyncSkipped(f) ==
    /\ inj.pc = "sync" /\ f \in inj.todo
    /\ Fault
    /\ inj' = [inj EXCEPT !.todo = @ \ {f}]
    /\ UNCHANGED <<facts, cache, polled, saver, stateLock, jobs, saves, injects, restarts>>

\* prune_line_index_project_files
PruneLineIndex ==
    /\ inj.pc = "sync" /\ inj.todo = {} /\ stateLock = None
    /\ MarkStale
    /\ idx' = [f \in Files |-> IF f \in inj.active THEN idx[f] ELSE 0]
    /\ inj' = [inj EXCEPT !.pc = "increment"]
    /\ UNCHANGED <<ana, dv, fs, cache, polled, saver, stateLock, jobs,
                   saves, injects, faults, restarts>>

\* increment_project_data_version commits on its own.
IncrementVersion ==
    /\ inj.pc = "increment" /\ stateLock = None
    /\ dv' = dv + 1 /\ fsv' = 0
    /\ inj' = [inj EXCEPT !.pc = "rebuild", !.ver = dv + 1]
    /\ UNCHANGED <<idx, ana, fs, cache, polled, saver, stateLock, jobs,
                   saves, injects, faults, restarts>>

\* rebuild_project_file_state: rows at the version the process read, and the
\* marker only while the project is still at that version. When a save has
\* moved it, the counts of the old snapshot may differ from the new rows,
\* which marks the aggregate stale, or not.
RebuildProjectFileState ==
    /\ inj.pc = "rebuild" /\ stateLock = None
    /\ \A s \in Savers : saver[s].pc = "idle"
    /\ fs' = Derived(inj.ver, idx, ana)
    /\ IF dv = inj.ver THEN fsv' = Marker(dv, idx) ELSE fsv' \in {fsv, 0}
    /\ inj' = Resting
    /\ UNCHANGED <<idx, ana, dv, cache, polled, saver, stateLock, jobs,
                   saves, injects, faults, restarts>>

\* The process dies, or its database errors are swallowed one by one (a
\* failed increment skips the rebuild): what is committed stays.
InjectAbandoned ==
    /\ inj.pc # "idle"
    /\ Fault
    /\ inj' = Resting
    /\ UNCHANGED <<facts, cache, polled, saver, stateLock, jobs, saves, injects, restarts>>

-----------------------------------------------------------------------------
(* The version cache: get_project_data_version                             *)

\* The version a caller gets: the cached one for a second, then the row's
\* (a missing row is inserted at 1).
Version == IF cache # None THEN cache ELSE IF dv = 0 THEN 1 ELSE dv

\* A caller that reads the database leaves the version cached; a missing
\* row is inserted, which waits for the lock of the state row.
GetVersion ==
    /\ cache' = Version
    /\ dv' = IF cache = None /\ dv = 0 THEN 1 ELSE dv
    /\ cache # None \/ dv # 0 \/ stateLock = None
    /\ UNCHANGED <<idx, ana, fsv, fs>>

CacheExpires ==
    /\ cache # None
    /\ cache' = None
    /\ UNCHANGED <<facts, polled, saver, stateLock, inj, jobs, saves, injects, faults, restarts>>

\* The read and the store of the cache are not one step: another thread may
\* store a newer version in between.
PollReads ==
    /\ cache = None /\ polled = None /\ dv > 0
    /\ polled' = dv
    /\ UNCHANGED <<facts, cache, saver, stateLock, inj, jobs, saves, injects, faults, restarts>>

PollStores ==
    /\ polled # None
    /\ cache' = polled /\ polled' = None
    /\ UNCHANGED <<facts, saver, stateLock, inj, jobs, saves, injects, faults, restarts>>

-----------------------------------------------------------------------------
(* Background jobs                                                         *)

\* save_job_to_db: an update keeps finished_at, an insert leaves it NULL.
RowOf(j, m, st, path) ==
    [kind |-> m.kind, ver |-> m.ver, st |-> st, path |-> path, old |-> FALSE,
     fin |-> row[j] # None /\ (row[j].fin \/ st \in Terminal)]

\* mutant: only a queued job is reused
LiveQueued(k, v, except) ==
    \E i \in JobIds \ except :
       run[i].pc = "queued" /\ run[i].kind = k /\ run[i].ver = v

\* submit_job with reuse_existing: a live job of the same type and version
\* is returned in place of the new one.
LiveType(k, v, except) ==
    \E i \in JobIds \ except :
       run[i].pc \notin {"none", "new", "done"} /\ run[i].kind = k /\ run[i].ver = v

Fresh(k, v) == [kind |-> k, ver |-> v, st |-> "running", path |-> FALSE]

\* The job of the key answers the request: it runs, or it completed and is
\* kept. A progress result is kept for 30 seconds of its 120, by when the
\* executor has recorded its end.
Reusable(k, v) ==
    LET j == key[<<k, v>>] IN
    /\ j # None /\ job[j] # None
    /\ job[j].st \in {"running", "completed"}

Outdated(k, v) ==
    LET j == key[<<k, v>>] IN
    k = "progress" /\ job[j].st = "completed" /\ run[j].pc = "done"

\* start_background_job, the part under the registry's lock.
StartJob(k, j) ==
    /\ run[j].pc = "none" /\ row[j] = None
    /\ Reusable(k, Version) => Outdated(k, Version)
    /\ GetVersion
    /\ job' = [job EXCEPT ![j] = Fresh(k, Version)]
    /\ key' = [key EXCEPT ![<<k, Version>>] = j]
    /\ row' = [row EXCEPT ![j] = RowOf(j, Fresh(k, Version), "running", FALSE)]
    /\ run' = [run EXCEPT ![j] = [pc |-> "new", kind |-> k, ver |-> Version, reads |-> 0]]
    /\ UNCHANGED <<polled, saver, stateLock, inj, file,
                   saves, injects, faults, restarts>>

\* ... and its submission, after the lock is released.
SubmitJob(j) ==
    /\ run[j].pc = "new"
    /\ IF LiveType(run[j].kind, run[j].ver, {j})
       THEN /\ run' = [run EXCEPT ![j].pc = "done"]
            /\ UNCHANGED row
       ELSE /\ run' = [run EXCEPT ![j].pc = "queued"]
            /\ row' = [row EXCEPT ![j] = RowOf(j, run[j], "queued", FALSE)]
    /\ UNCHANGED <<facts, cache, polled, saver, stateLock, inj, job, key, file,
                   saves, injects, faults, restarts>>

\* The executor's worker takes the job.
RunJob(j) ==
    /\ run[j].pc = "queued"
    /\ run' = [run EXCEPT ![j].pc = IF run[j].kind = "progress" THEN "read" ELSE "update"]
    /\ row' = [row EXCEPT ![j] = RowOf(j, run[j], "running", FALSE)]
    /\ UNCHANGED <<facts, cache, polled, saver, stateLock, inj, job, key, file,
                   saves, injects, faults, restarts>>

AfterUpdate(j) ==
    IF run[j].reads < Reads THEN "read"
    ELSE IF run[j].kind = "progress" THEN "finish" ELSE "replace"

\* _update_background_job: the callback between two queries. A job that is
\* gone, or whose version is no longer the project's, is cancelled.
UpdateJob(j) ==
    /\ run[j].pc = "update"
    /\ IF job[j] = None \/ job[j].st \in {"cancelled", "failed"}
       THEN /\ run' = [run EXCEPT ![j].pc = "cancel"]
            /\ UNCHANGED <<facts, cache, job, row>>
       ELSE /\ GetVersion
            /\ IF Version # job[j].ver
               THEN /\ job' = [job EXCEPT ![j].st = "cancelled"]
                    /\ run' = [run EXCEPT ![j].pc = "cancel"]
                    /\ UNCHANGED row
               ELSE /\ run' = [run EXCEPT ![j].pc = AfterUpdate(j)]
                    /\ row' = [row EXCEPT ![j] = RowOf(j, job[j], "running", FALSE)]
                    /\ UNCHANGED job
    /\ UNCHANGED <<polled, saver, stateLock, inj, key, file,
                   saves, injects, faults, restarts>>

\* One query of compute_progress_data or one batch of write_full_detail_csv:
\* an export writes into its .part file.
ReadFacts(j) ==
    /\ run[j].pc = "read"
    /\ run' = [run EXCEPT ![j].pc = "update", ![j].reads = @ + 1]
    /\ file' = [file EXCEPT ![j] =
                  IF run[j].kind = "progress" THEN @ ELSE @ \union {"part"}]
    /\ UNCHANGED <<facts, cache, polled, saver, stateLock, inj, job, key, row,
                   saves, injects, faults, restarts>>

ReadFails(j) ==
    /\ run[j].pc = "read"
    /\ Fault
    /\ run' = [run EXCEPT ![j].pc = "fail"]
    /\ file' = [file EXCEPT ![j] = @ \ {"part"}]
    /\ UNCHANGED <<facts, cache, polled, saver, stateLock, inj, job, key, row,
                   saves, injects, restarts>>

\* mutant: the finished file keeps its temporary name
PartKept(j) ==
    /\ run[j].pc = "replace"
    /\ run' = [run EXCEPT ![j].pc = "finish"]
    /\ UNCHANGED <<facts, cache, polled, saver, stateLock, inj, job, key, row, file,
                   saves, injects, faults, restarts>>

\* os.replace of the finished .part file
ReplacePart(j) ==
    /\ run[j].pc = "replace"
    /\ run' = [run EXCEPT ![j].pc = "finish"]
    /\ file' = [file EXCEPT ![j] = {"out"}]
    /\ UNCHANGED <<facts, cache, polled, saver, stateLock, inj, job, key, row,
                   saves, injects, faults, restarts>>

\* _finish_background_job: nothing at all when the job is gone.
Finish(j, st, path) ==
    /\ run' = [run EXCEPT ![j].pc = "returned"]
    /\ IF job[j] = None THEN UNCHANGED <<job, row>>
       ELSE /\ job' = [job EXCEPT ![j].st = st, ![j].path = path]
            /\ row' = [row EXCEPT ![j] = RowOf(j, job[j], st, path)]

FinishCompleted(j) ==
    /\ run[j].pc = "finish"
    /\ Finish(j, "completed", TRUE)
    /\ file' = [file EXCEPT ![j] =
                  IF job[j] # None /\ run[j].kind = "progress" THEN {"out"} ELSE @]
    /\ UNCHANGED <<facts, cache, polled, saver, stateLock, inj, key,
                   saves, injects, faults, restarts>>

FinishFailed(j) ==
    /\ run[j].pc = "fail"
    /\ Finish(j, "failed", FALSE)
    /\ UNCHANGED <<facts, cache, polled, saver, stateLock, inj, key, file,
                   saves, injects, faults, restarts>>

\* _cancel_background_job, and for an export the removal of its files.
CancelJob(j) ==
    /\ run[j].pc = "cancel"
    /\ Finish(j, "cancelled", FALSE)
    /\ file' = [file EXCEPT ![j] = IF run[j].kind = "progress" THEN @ ELSE {}]
    /\ UNCHANGED <<facts, cache, polled, saver, stateLock, inj, key,
                   saves, injects, faults, restarts>>

\* The job function has returned without an exception: the executor records
\* its own "completed" over the row, inserting one when there is none.
ExecutorRecords(j) ==
    /\ run[j].pc = "returned"
    /\ run' = [run EXCEPT ![j].pc = "done"]
    /\ row' = [row EXCEPT ![j] =
                 RowOf(j, run[j], "completed", job[j] # None /\ job[j].path)]
    /\ UNCHANGED <<facts, cache, polled, saver, stateLock, inj, job, key, file,
                   saves, injects, faults, restarts>>

\* _expire_background_job; the files go only when the job knows its path.
Forget(j, m) ==
    /\ job' = [job EXCEPT ![j] = None]
    /\ key' = [k \in DOMAIN key |-> IF key[k] = j THEN None ELSE key[k]]
    /\ file' = [file EXCEPT ![j] = IF m.path THEN {} ELSE @]

Loaded(j) == IF job[j] # None THEN job[j]
             ELSE [kind |-> row[j].kind, ver |-> row[j].ver, st |-> row[j].st,
                   path |-> row[j].path]

\* public_background_job: a job that left memory is loaded from its row; one
\* of another version, or past its retention, is expired, any other reported.
PollJob(j) ==
    /\ job[j] # None \/ row[j] # None
    /\ GetVersion
    /\ IF Loaded(j).ver # Version \/ (job[j] = None /\ row[j].old)
       THEN /\ Forget(j, Loaded(j))
            /\ row' = [row EXCEPT ![j] = None]
       ELSE /\ job' = [job EXCEPT ![j] = Loaded(j)]
            /\ UNCHANGED <<key, file, row>>
    /\ UNCHANGED <<polled, saver, stateLock, inj, run, saves, injects, faults, restarts>>

\* _cleanup_background_jobs_locked: finished jobs past their retention.
RetireJob(j) ==
    /\ job[j] # None /\ job[j].st \in Terminal /\ run[j].pc = "done"
    /\ Forget(j, job[j])
    /\ row' = [row EXCEPT ![j] = IF @ = None THEN @ ELSE [@ EXCEPT !.old = TRUE]]
    /\ UNCHANGED <<facts, cache, polled, saver, stateLock, inj, run,
                   saves, injects, faults, restarts>>

RetireRow(j) ==
    /\ row[j] # None /\ row[j].st \in Terminal /\ row[j].fin
    /\ job[j] = None /\ run[j].pc = "done"
    /\ row' = [row EXCEPT ![j] = None]
    /\ UNCHANGED <<facts, cache, polled, saver, stateLock, inj, job, key, file, run,
                   saves, injects, faults, restarts>>

Unfinished == {j \in JobIds : row[j] # None /\ row[j].st \in {"queued", "running"}}
Current(k) == {j \in Unfinished : row[j].kind = k /\ row[j].ver = dv}

\* recover_background_jobs: every unfinished row of the current version is a
\* running job again. Of several of one kind the first submitted is the one
\* the executor runs, and the last registered owns the key.
RecoverJobs ==
    \E first, last \in [Kinds -> JobIds \union {None}] :
      /\ \A k \in Kinds :
           IF Current(k) = {} THEN first[k] = None /\ last[k] = None
           ELSE /\ {first[k], last[k]} \subseteq Current(k)
                /\ Cardinality(Current(k)) > 1 => first[k] # last[k]
      /\ job' = [j \in JobIds |->
                   IF \E k \in Kinds : j \in Current(k)
                   THEN Fresh(row[j].kind, row[j].ver) ELSE None]
      /\ key' = [p \in DOMAIN key |-> IF p[2] = dv THEN last[p[1]] ELSE None]
      /\ run' = [j \in JobIds |->
                   IF \E k \in Kinds : first[k] = j
                   THEN [run[j] EXCEPT !.pc = "queued", !.reads = 0]
                   ELSE IF run[j].pc = "none" THEN NoRun
                   ELSE [run[j] EXCEPT !.pc = "done"]]
      /\ row' = [j \in JobIds |->
                   IF \E k \in Kinds : first[k] = j THEN [row[j] EXCEPT !.st = "queued"]
                   ELSE IF j \in Unfinished /\ row[j].ver # dv
                   THEN [row[j] EXCEPT !.st = "failed", !.fin = TRUE]
                   ELSE row[j]]
      /\ file' = [j \in JobIds |->
                    IF j \in Unfinished /\ row[j].ver # dv THEN {} ELSE file[j]]

\* The server dies and starts again: its memory and open transactions go.
Restart ==
    /\ restarts < MaxRestarts /\ restarts' = restarts + 1
    /\ RecoverJobs
    /\ cache' = None /\ polled' = None
    /\ saver' = [s \in Savers |-> Idle]
    /\ stateLock' = None
    /\ UNCHANGED <<facts, inj, saves, injects, faults>>

-----------------------------------------------------------------------------
\* A project that was never injected, or one injected and not yet reviewed.
Init ==
    /\ dv \in {0, 1} /\ fsv = dv
    /\ idx = [f \in Files |-> dv] /\ ana = [f \in Files |-> 0]
    /\ fs = Derived(dv, idx, ana)
    /\ cache = None /\ polled = None
    /\ saver = [s \in Savers |-> Idle] /\ stateLock = None
    /\ inj = Resting
    /\ job = [j \in JobIds |-> None]
    /\ key = [p \in Kinds \X (0 .. 1 + MaxSaves + MaxInjects) |-> None]
    /\ row = [j \in JobIds |-> None]
    /\ file = [j \in JobIds |-> {}]
    /\ run = [j \in JobIds |-> NoRun]
    /\ saves = 0 /\ injects = 0 /\ faults = 0 /\ restarts = 0

Save(s) ==
    \/ \E f \in Files : SaveRecord(s, f)
    \/ AdvanceVersion(s) \/ RebuildInPlace(s) \/ CommitSave(s)
    \/ SaveFails(s)
    \/ \E t \in Savers : SaveDeadlock(s, t)

Inject ==
    \/ \E report \in SUBSET Files : InjectStart(report)
    \/ \E f \in Files, uncovered \in BOOLEAN : SyncLineIndex(f, uncovered)
    \/ \E f \in Files : SyncSkipped(f)
    \/ PruneLineIndex \/ IncrementVersion \/ RebuildProjectFileState
    \/ InjectAbandoned

\* The steps of the server's own threads for a job.
Work(j) ==
    \/ SubmitJob(j) \/ RunJob(j)
    \/ UpdateJob(j) \/ ReadFacts(j) \/ ReplacePart(j)
    \/ FinishCompleted(j) \/ FinishFailed(j) \/ CancelJob(j)
    \/ ExecutorRecords(j)

Job(j) ==
    \/ \E k \in Kinds : StartJob(k, j)
    \/ Work(j) \/ ReadFails(j)
    \/ PollJob(j) \/ RetireJob(j) \/ RetireRow(j)

Next ==
    \/ \E s \in Savers : Save(s)
    \/ Inject
    \/ CacheExpires \/ PollReads \/ PollStores
    \/ \E j \in JobIds : Job(j)
    \/ Restart

\* The server runs its threads, the database resolves its deadlocks, a
\* cached version lives for a second, and a client that has a job polls it.
Fairness ==
    /\ \A s \in Savers : WF_vars(AdvanceVersion(s) \/ RebuildInPlace(s) \/ CommitSave(s)
                                   \/ \E t \in Savers : SaveDeadlock(s, t))
    /\ \A j \in JobIds : WF_vars(Work(j)) /\ WF_vars(PollJob(j))
    /\ WF_vars(CacheExpires) /\ WF_vars(PollStores)

Spec == Init /\ [][Next]_vars /\ Fairness

-----------------------------------------------------------------------------
(* Properties                                                              *)

\* "Validates data_version against coverage_project_state to prevent stale
\* aggregate reads": what a progress query answers, from the derived rows or
\* from the facts, is exactly what the committed facts say, however saves,
\* injections, rebuilds and their failures interleave.
ReadyIsExact == Progress = Derived(dv, idx, ana)

\* submit_job is called with reuse_existing: two threads never compute the
\* same kind of result for the same version, whatever was expired, restarted
\* or recovered in between.
Working(j) == run[j].pc \notin {"none", "new", "done"}
OneRunnerPerType ==
    \A i, j \in JobIds :
      (i # j /\ Working(i) /\ Working(j)) => <<run[i].kind, run[i].ver>> # <<run[j].kind, run[j].ver>>

\* A result a client is offered is there: no expiry, cancellation, retention
\* or restart removes the file of a job that is still served.
ResultExists ==
    \A j \in JobIds : (job[j] # None /\ job[j].path) => "out" \in file[j]

-----------------------------------------------------------------------------
(* What the code says of itself and does not do (README, Disagreements)    *)

\* start_background_job answers that the job waits for background execution
\* ("All recoverable work goes through the bounded executor"): every job a
\* client polls stops running; it finishes, is cancelled by a newer version,
\* or is forgotten.
JobSettles ==
    \A j \in JobIds : (job[j] # None /\ job[j].st = "running")
                        ~> (job[j] = None \/ job[j].st # "running")
=============================================================================
