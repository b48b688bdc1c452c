----------------------------- MODULE ScanImport -----------------------------
(***************************************************************************)
(* The durable scan import: app/scan_import/{locks, checkpoints,           *)
(* coordinator, publication, recovery}.py over the rows they keep in the   *)
(* database (resource locks, jobs, checkpoints, scans, project state).     *)
(*                                                                         *)
(* A worker is one import callback: the thread that runs                   *)
(* ScanImportCoordinator.execute for one job, with the owner token and the *)
(* fencing token it was given by create or by reclaim.  Every database     *)
(* transaction of the code is one action; between two transactions of a    *)
(* worker any other worker, an analyst, the clock (lease expiry) or a      *)
(* crash may act.                                                          *)
(***************************************************************************)
EXTENDS Integers, FiniteSetsExt

CONSTANTS
    Jobs,          \* background job ids
    Workers,       \* threads that may run an import callback
    Projects,
    Scans,         \* scan identities: the values of scan_key
    Resources,     \* physical_resource_id, taken in increasing order
    ResourceSets,  \* the sets of resources an import may ask for
    Files,         \* source files of a scan, as far as review data tells them apart
    ProjectOf,     \* scan_key contains the project name
    NoJob, NoScan,
    NumBatches,    \* coverage batches of the staged .info artifact
    MaxOwners,     \* bound: owner tokens one job may be given (1 + reclaims)
    MaxRevision,   \* bound: relation revisions of one file
    MayCrash       \* whether worker threads may die

ASSUME ResourcesAssumption == Resources \subseteq Nat
ASSUME ResourceSetsAssumption ==     \* non-empty, and one resource is taken first
    \A R \in ResourceSets : R \subseteq Resources /\ \E first \in R : \A r \in R : first <= r
ASSUME ProjectOfAssumption == ProjectOf \in [Scans -> Projects]
ASSUME NoneAssumption == NoJob \notin Jobs /\ NoScan \notin Scans
ASSUME BoundsAssumption == NumBatches \in Nat /\ MaxOwners \in Nat /\ MaxRevision \in Nat
ASSUME MayCrashAssumption == MayCrash \in BOOLEAN

(* PHASES of checkpoints.py, by index. *)
LOCKED == 0
SCAN_CREATED == 1
INFO_STAGED == 2
COVERAGE_IMPORTED == 3
GIT_VERIFIED == 4
SOURCE_PREPARED == 5
LINE_MAP_BUILT == 6
INHERITANCE_COMPUTED == 7
STATS_REBUILT == 8
CONSISTENCY_VERIFIED == 9
SEALED == 10
PUBLISHED == 11

Phases == LOCKED .. PUBLISHED
Batches == 1 .. NumBatches
Active == {"queued", "running", "interrupted"}

VARIABLES
    nextToken,   \* coverage_repository_resources.next_fencing_token
    lock,        \* coverage_repository_resource_locks
    job,         \* coverage_background_jobs
    ckpt,        \* coverage_import_checkpoints
    scan,        \* coverage_scans
    facts,       \* the batches whose files and lines a scan contains
    rows,        \* data_version of a scan's coverage_file_state rows, 0 if none
    carried,     \* revision of the predecessor's analysis a scan inherited
    rev,         \* revision of a scan's analysis relations, 0 if there are none
    proj,        \* coverage_project_state
    worker       \* import callbacks

lockVars == <<nextToken, lock>>
scanVars == <<scan, facts, rows, carried>>
vars == <<nextToken, lock, job, ckpt, scan, facts, rows, carried, rev, proj, worker>>

-----------------------------------------------------------------------------
(* Rows *)

Lock == [job : Jobs \cup {NoJob}, owner : Nat, token : Nat, expired : BOOLEAN]

Job == [state : Active \cup {"none", "completed", "failed"},
        owner : Nat,                      \* lease_owner
        scan : Scans \cup {NoScan},
        resources : SUBSET Resources,     \* input_payload.repository_resource_ids
        pred : Scans \cup {NoScan},       \* input_payload.predecessor_scan_id
        version : Nat]                    \* data_version

Checkpoint == [phase : Phases, seq : Nat, fence : Nat,
               batch : 0 .. NumBatches,   \* payload.batch_seq
               readSet : [Files -> Nat]]  \* payload.read_set, 0: file not consulted

Scan == [status : {"none", "IMPORTING", "SEALED", "FAILED", "ABORTED"},
         pred : Scans \cup {NoScan}]

ProjectState == [current : Scans \cup {NoScan}, version : Nat, ready : Nat]

Worker == [pc : {"idle", "load", "work", "publish", "commit", "abort", "fail"},
           job : Jobs \cup {NoJob}, owner : Nat, fence : Nat,
           target : Phases,               \* the phase _execute_bound tries next
           batch : 0 .. NumBatches,       \* batches committed or replayed so far
           seen : Nat,                    \* observed_owner of publish
           why : {"FAILED", "ABORTED"}]   \* scan_status of the failure to record

NoLock == [job |-> NoJob, owner |-> 0, token |-> 0, expired |-> FALSE]
NothingRead == [f \in Files |-> 0]
Idle == [pc |-> "idle", job |-> NoJob, owner |-> 0, fence |-> 0,
         target |-> LOCKED, batch |-> 0, seen |-> 0, why |-> "FAILED"]

(* The database types, and the shape of the callbacks' local state. *)
TypeOK ==
    /\ nextToken \in [Resources -> Nat]
    /\ lock \in [Resources -> Lock]
    /\ job \in [Jobs -> Job]
    /\ ckpt \in [Jobs -> Checkpoint]
    /\ scan \in [Scans -> Scan]
    /\ facts \in [Scans -> SUBSET Batches]
    /\ rows \in [Scans -> Nat]
    /\ carried \in [Scans -> [Files -> Nat]]
    /\ rev \in [Scans -> [Files -> Nat]]
    /\ proj \in [Projects -> ProjectState]
    /\ worker \in [Workers -> Worker]

Init ==
    /\ nextToken = [r \in Resources |-> 0]
    /\ lock = [r \in Resources |-> NoLock]
    /\ job = [j \in Jobs |-> [state |-> "none", owner |-> 0, scan |-> NoScan,
                              resources |-> {}, pred |-> NoScan, version |-> 0]]
    /\ ckpt = [j \in Jobs |-> [phase |-> LOCKED, seq |-> 0, fence |-> 0,
                               batch |-> 0, readSet |-> NothingRead]]
    /\ scan = [s \in Scans |-> [status |-> "none", pred |-> NoScan]]
    /\ facts = [s \in Scans |-> {}]
    /\ rows = [s \in Scans |-> 0]
    /\ carried = [s \in Scans |-> NothingRead]
    /\ rev = [s \in Scans |-> NothingRead]
    /\ proj = [p \in Projects |-> [current |-> NoScan, version |-> 0, ready |-> 0]]
    /\ worker = [w \in Workers |-> Idle]

-----------------------------------------------------------------------------
(* RepositoryResourceLockService *)

(* acquire finds no lock of another job whose lease still runs. *)
CanAcquire(R, j) ==
    \A r \in R : lock[r].job \in {NoJob, j} \/ lock[r].expired

(* acquire: one fresh token per resource, one row per resource. *)
AcquireAll(R, j, owner) ==
    /\ nextToken' = [r \in Resources |-> nextToken[r] + IF r \in R THEN 1 ELSE 0]
    /\ lock' = [r \in Resources |->
                  IF r \in R
                  THEN [job |-> j, owner |-> owner, token |-> nextToken[r] + 1,
                        expired |-> FALSE]
                  ELSE lock[r]]

(* acquired[0]["fencing_token"]: the token of the lowest resource id. *)
FirstToken(R) == nextToken[Min(R)] + 1

(* Mutant: an expired row is left behind. *)
ReleaseUnexpired(j, owner) ==
    lock' = [r \in Resources |->
               IF lock[r].job = j /\ lock[r].owner = owner /\ ~lock[r].expired
               THEN NoLock ELSE lock[r]]

(* release, by job and owner token *)
ReleaseAll(j, owner) ==
    lock' = [r \in Resources |->
               IF lock[r].job = j /\ lock[r].owner = owner THEN NoLock ELSE lock[r]]

(* Mutant: only the lock rows are compared, not the checkpoint's token. *)
AssertLocksOnly(j, owner, fence) ==
    \A r \in Resources : lock[r].job = j => lock[r].owner = owner /\ ~lock[r].expired

(* _assert_all_fences: the checkpoint carries the worker's token, and the   *)
(* rows that name this job are the worker's and have not expired.  Nothing  *)
(* is required of the job's resources that other jobs' rows now name.       *)
AssertAllFences(j, owner, fence) ==
    /\ ckpt[j].fence = fence
    /\ \A r \in Resources : lock[r].job = j => lock[r].owner = owner /\ ~lock[r].expired

(* assert_fences of _publish_transaction: each row against its own token. *)
PublishFences(j) ==
    \A r \in Resources : lock[r].job = j => ~lock[r].expired

-----------------------------------------------------------------------------
(* ScanImportCoordinator.create *)

(* One transaction.  A busy resource, an artifact of another digest, or a   *)
(* scan_key whose scan is past construction rolls everything back.          *)
Create(w, j, s, R) ==
    LET p == ProjectOf[s] IN
    /\ worker[w].pc = "idle"
    /\ job[j].state = "none"
    /\ MaxOwners >= 1
    /\ CanAcquire(R, j)
    /\ scan[s].status \in {"none", "IMPORTING"}
    /\ AcquireAll(R, j, 1)
    /\ scan' = IF scan[s].status = "none"
               THEN [scan EXCEPT ![s] = [status |-> "IMPORTING", pred |-> proj[p].current]]
               ELSE scan
    /\ proj' = [proj EXCEPT ![p].version = @ + 1, ![p].ready = 0]
    /\ job' = [job EXCEPT ![j] = [state |-> "queued", owner |-> 1, scan |-> s,
                                  resources |-> R, pred |-> proj[p].current,
                                  version |-> proj[p].version + 1]]
    /\ ckpt' = [ckpt EXCEPT ![j] = [phase |-> LOCKED, seq |-> 0, fence |-> FirstToken(R),
                                    batch |-> 0, readSet |-> NothingRead]]
    /\ worker' = [worker EXCEPT ![w] = [Idle EXCEPT !.pc = "load", !.job = j,
                                                    !.owner = 1, !.fence = FirstToken(R)]]
    /\ UNCHANGED <<facts, rows, carried, rev>>

(* Mutant: reclaim leaves the checkpoint's token as it was. *)
ClaimNothing(j, token) ==
    /\ ckpt[j].fence < token
    /\ ckpt' = ckpt

(* checkpoints.claim_fencing: the token only grows. *)
ClaimFencing(j, token) ==
    /\ ckpt[j].fence < token
    /\ ckpt' = [ckpt EXCEPT ![j].fence = token]

(* ScanImportRecoveryService.reclaim, by the callback a restart enqueues:   *)
(* validate, acquire, JobRepository.reclaim and claim_fencing commit        *)
(* together.  An unexpired lock of the same job does not stop it.           *)
Reclaim(w, j) ==
    LET R == job[j].resources
        owner == job[j].owner + 1 IN
    /\ worker[w].pc = "idle"
    /\ job[j].state \in Active
    /\ owner <= MaxOwners
    /\ CanAcquire(R, j)
    /\ AcquireAll(R, j, owner)
    /\ job' = [job EXCEPT ![j].state = "running", ![j].owner = owner]
    /\ ClaimFencing(j, FirstToken(R))
    /\ worker' = [worker EXCEPT ![w] = [Idle EXCEPT !.pc = "load", !.job = j,
                                                    !.owner = owner, !.fence = FirstToken(R)]]
    /\ UNCHANGED <<scanVars, rev, proj>>

-----------------------------------------------------------------------------
(* ScanImportCoordinator.execute: one action per transaction *)

Owned(w) == AssertAllFences(worker[w].job, worker[w].owner, worker[w].fence)

Goto(w, pc) == worker' = [worker EXCEPT ![w].pc = pc]

(* _load_execution_context, then the dispatch on the phase it read.  The    *)
(* batches at or below the stored batch_seq are only replayed.              *)
Load(w) ==
    LET c == ckpt[worker[w].job] IN
    /\ worker[w].pc = "load"
    /\ Owned(w)
    /\ worker' = [worker EXCEPT ![w] =
         CASE c.phase >= PUBLISHED -> Idle
           [] c.phase = SEALED -> [@ EXCEPT !.pc = "publish"]
           [] OTHER -> [@ EXCEPT !.pc = "work", !.target = SCAN_CREATED, !.batch = c.batch]]
    /\ UNCHANGED <<lockVars, job, ckpt, scanVars, rev, proj>>

(* Mutant: the checkpoint is saved and the facts are not. *)
StoreNoFacts(s, b) == facts' = facts

(* ingest_file_batch upserts files and lines. *)
StoreFacts(s, b) == facts' = [facts EXCEPT ![s] = @ \cup {b}]

(* A batch of files and its checkpoint (save_batch) in one transaction. *)
IngestBatch(w) ==
    LET j == worker[w].job
        s == job[j].scan
        b == worker[w].batch + 1 IN
    /\ worker[w].pc = "work"
    /\ worker[w].target = COVERAGE_IMPORTED
    /\ worker[w].batch < NumBatches
    /\ ckpt[j].phase = INFO_STAGED
    /\ Owned(w)
    /\ b = ckpt[j].batch + 1
    /\ scan[s].status = "IMPORTING"
    /\ StoreFacts(s, b)
    /\ ckpt' = [ckpt EXCEPT ![j].batch = b, ![j].seq = @ + 1]
    /\ worker' = [worker EXCEPT ![w].batch = b]
    /\ UNCHANGED <<lockVars, job, scan, rows, carried, rev, proj>>

(* Before the target phase of _execute_bound the batches must be consumed. *)
AtPhase(w) ==
    /\ worker[w].pc = "work"
    /\ worker[w].target < SEALED
    /\ worker[w].target = COVERAGE_IMPORTED => worker[w].batch = NumBatches

(* _run_phase_operation returns early when the phase was already committed; *)
(* no fence is looked at.                                                   *)
SkipPhase(w) ==
    /\ AtPhase(w)
    /\ ckpt[worker[w].job].phase >= worker[w].target
    /\ worker' = [worker EXCEPT ![w].target = @ + 1]
    /\ UNCHANGED <<lockVars, job, ckpt, scanVars, rev, proj>>

(* checkpoints.advance *)
Advance(j) == ckpt' = [ckpt EXCEPT ![j].phase = @ + 1, ![j].seq = @ + 1]

(* InheritanceEngine.run consults the predecessor's files that have         *)
(* relations, and keeps what an earlier run already carried over.           *)
ReadSetOf(s) == IF scan[s].pred = NoScan THEN NothingRead ELSE rev[scan[s].pred]

CarryOver(s) ==
    /\ carried' = [carried EXCEPT ![s] =
                     [f \in Files |-> IF @[f] # 0 THEN @[f] ELSE ReadSetOf(s)[f]]]
    /\ rev' = [rev EXCEPT ![s] =
                     [f \in Files |-> IF @[f] = 0 /\ ReadSetOf(s)[f] # 0 THEN 1 ELSE @[f]]]

(* _run_phase_operation of the phases whose operation only advances. *)
PlainPhases == {SCAN_CREATED, INFO_STAGED, GIT_VERIFIED, SOURCE_PREPARED,
                LINE_MAP_BUILT, STATS_REBUILT}

RunsNext(w) ==
    /\ AtPhase(w)
    /\ ckpt[worker[w].job].phase + 1 = worker[w].target
    /\ Owned(w)
    /\ worker' = [worker EXCEPT ![w].target = @ + 1]

RunPlainPhase(w) ==
    /\ RunsNext(w)
    /\ worker[w].target \in PlainPhases
    /\ Advance(worker[w].job)
    /\ UNCHANGED <<lockVars, job, scanVars, rev, proj>>

(* finalize_coverage counts the scan's files and lines. *)
FinalizeCoverage(w) ==
    /\ RunsNext(w)
    /\ worker[w].target = COVERAGE_IMPORTED
    /\ facts[job[worker[w].job].scan] = Batches
    /\ Advance(worker[w].job)
    /\ UNCHANGED <<lockVars, job, scanVars, rev, proj>>

ComputeInheritance(w) ==
    LET j == worker[w].job
        s == job[j].scan IN
    /\ RunsNext(w)
    /\ worker[w].target = INHERITANCE_COMPUTED
    /\ CarryOver(s)
    /\ ckpt' = [ckpt EXCEPT ![j].phase = @ + 1, ![j].seq = @ + 1,
                            ![j].readSet = ReadSetOf(s)]
    /\ UNCHANGED <<lockVars, job, scan, facts, rows, proj>>

(* verify_consistency: rebuild_validate_and_mark_ready with the version the *)
(* job was created with; DATA_VERSION_CHANGED if the project has moved on.  *)
VerifyConsistency(w) ==
    LET j == worker[w].job
        s == job[j].scan
        p == ProjectOf[s] IN
    /\ RunsNext(w)
    /\ worker[w].target = CONSISTENCY_VERIFIED
    /\ proj[p].version = job[j].version
    /\ rows' = [rows EXCEPT ![s] = job[j].version]
    /\ proj' = [proj EXCEPT ![p].ready = job[j].version]
    /\ Advance(j)
    /\ UNCHANGED <<lockVars, job, scan, facts, carried, rev>>

(* ScanImportCoordinator.seal *)
Seal(w) ==
    LET j == worker[w].job
        s == job[j].scan IN
    /\ worker[w].pc = "work"
    /\ worker[w].target = SEALED
    /\ Owned(w)
    /\ scan[s].status = "IMPORTING"
    /\ ckpt[j].phase + 1 = SEALED
    /\ scan' = [scan EXCEPT ![s].status = "SEALED"]
    /\ Advance(j)
    /\ Goto(w, "publish")
    /\ UNCHANGED <<lockVars, job, facts, rows, carried, rev, proj>>

(* publish first reads the lease owner, outside of the transaction. *)
ObserveOwner(w) ==
    /\ worker[w].pc = "publish"
    /\ worker' = [worker EXCEPT ![w].pc = "commit", ![w].seen = job[worker[w].job].owner]
    /\ UNCHANGED <<lockVars, job, ckpt, scanVars, rev, proj>>

(* Mutant: the read set is not replayed. *)
ReadSetIgnored(j) == TRUE

(* _validate_compact_read_set: no consulted relation has another revision. *)
ReadSetUnchanged(j) ==
    LET q == scan[job[j].scan].pred IN
    q # NoScan => \A f \in Files : ckpt[j].readSet[f] # 0 => rev[q][f] = ckpt[j].readSet[f]

(* publish_in_transaction: CURRENT is the predecessor both of the job and   *)
(* of the scan, and the read set still stands.                              *)
Publishable(j) ==
    LET s == job[j].scan IN
    /\ proj[ProjectOf[s]].current = job[j].pred
    /\ scan[s].pred = job[j].pred
    /\ ReadSetUnchanged(j)

(* _publish_transaction: CURRENT, the checkpoint, the job and its locks in  *)
(* one transaction.  The worker's own tokens are not looked at.             *)
PublishTransaction(w) ==
    LET j == worker[w].job
        s == job[j].scan IN
    /\ worker[w].pc = "commit"
    /\ ckpt[j].phase = SEALED
    /\ scan[s].status = "SEALED"
    /\ Publishable(j)
    /\ PublishFences(j)
    /\ job[j].state \in Active
    /\ proj' = [proj EXCEPT ![ProjectOf[s]].current = s]
    /\ ckpt' = [ckpt EXCEPT ![j].phase = PUBLISHED, ![j].seq = @ + 1,
                            ![j].batch = 0, ![j].readSet = NothingRead]
    /\ job' = [job EXCEPT ![j].state = "completed"]
    /\ lock' = [r \in Resources |-> IF lock[r].job = j THEN NoLock ELSE lock[r]]
    /\ worker' = [worker EXCEPT ![w] = Idle]
    /\ UNCHANGED <<nextToken, scanVars, rev>>

(* Another worker has published the job meanwhile: its result is returned. *)
AlreadyPublished(w) ==
    /\ worker[w].pc = "commit"
    /\ ckpt[worker[w].job].phase >= PUBLISHED
    /\ worker' = [worker EXCEPT ![w] = Idle]
    /\ UNCHANGED <<lockVars, job, ckpt, scanVars, rev, proj>>

-----------------------------------------------------------------------------
(* Failures *)

(* Mutant: only a running job may fail. *)
MayTerminateRunning(j, owner) == job[j].state = "running" /\ job[j].owner = owner

(* transition_terminal: the job is not terminal and the caller owns its lease. *)
MayTerminate(j, owner) == job[j].state \in Active /\ job[j].owner = owner

(* Mutant: CURRENT is not spared. *)
MayFailAny(s) == scan[s].status \in {"IMPORTING", "SEALED"}

(* The candidates a failure marks: under construction or sealed, not CURRENT. *)
MayFail(s) == scan[s].status \in {"IMPORTING", "SEALED"} /\ proj[ProjectOf[s]].current # s

(* The status publish asks for: ABORTED for a precondition that no longer   *)
(* holds, FAILED for every other error.                                     *)
RejectedStatus(j) ==
    IF \/ ckpt[j].phase # SEALED
       \/ scan[job[j].scan].status = "SEALED" /\ ~Publishable(j)
    THEN "ABORTED" ELSE "FAILED"

(* The publish transaction raises and is rolled back. *)
PublishRaises(w) ==
    /\ worker[w].pc = "commit"
    /\ ckpt[worker[w].job].phase < PUBLISHED
    /\ \E why \in {RejectedStatus(worker[w].job), "FAILED"} :
         worker' = [worker EXCEPT ![w].pc = "abort", ![w].why = why]
    /\ UNCHANGED <<lockVars, job, ckpt, scanVars, rev, proj>>

(* record_failure: only the current lease owner moves the job; the scan     *)
(* fails unless it is CURRENT; the owner's locks are released.              *)
RecordFailure(j, owner, status) ==
    LET s == job[j].scan IN
    IF MayTerminate(j, owner)
    THEN /\ job' = [job EXCEPT ![j].state = "failed"]
         /\ scan' = IF MayFail(s) THEN [scan EXCEPT ![s].status = status] ELSE scan
         /\ ReleaseAll(j, owner)
    ELSE UNCHANGED <<job, scan, lock>>

RecordPublishFailure(w) ==
    /\ worker[w].pc = "abort"
    /\ RecordFailure(worker[w].job, worker[w].seen, worker[w].why)
    /\ Goto(w, "fail")
    /\ UNCHANGED <<nextToken, ckpt, facts, rows, carried, rev, proj>>

(* Any transaction of execute may raise: a fence, a stale checkpoint, a     *)
(* Git, artifact, audit or database error.  It is rolled back.              *)
Raise(w) ==
    /\ worker[w].pc \in {"load", "work"}
    /\ Goto(w, "fail")
    /\ UNCHANGED <<lockVars, job, ckpt, scanVars, rev, proj>>

(* The callback's handler records the failure with its own owner token. *)
HandleFailure(w) ==
    /\ worker[w].pc = "fail"
    /\ RecordFailure(worker[w].job, worker[w].owner, "FAILED")
    /\ worker' = [worker EXCEPT ![w] = Idle]
    /\ UNCHANGED <<nextToken, ckpt, facts, rows, carried, rev, proj>>

(* create_scan: the import was created and its callback could not be        *)
(* enqueued, so the request records the failure itself.                     *)
EnqueueFails(w) ==
    /\ worker[w].pc = "load"
    /\ worker[w].owner = 1
    /\ RecordFailure(worker[w].job, worker[w].owner, "ABORTED")
    /\ worker' = [worker EXCEPT ![w] = Idle]
    /\ UNCHANGED <<nextToken, ckpt, facts, rows, carried, rev, proj>>

(* _resume_scan_import: a starting process lists the import, cannot enqueue *)
(* its callback, and records the failure for the lease owner it read; had   *)
(* the lease moved on since, nothing would change.                          *)
ResumeEnqueueFails(j) ==
    /\ job[j].state \in Active
    /\ RecordFailure(j, job[j].owner, "FAILED")
    /\ UNCHANGED <<nextToken, ckpt, facts, rows, carried, rev, proj, worker>>

(* The process dies: its callbacks are gone, the rows remain. *)
Crash(w) ==
    /\ MayCrash
    /\ worker[w].pc # "idle"
    /\ worker' = [worker EXCEPT ![w] = Idle]
    /\ UNCHANGED <<lockVars, job, ckpt, scanVars, rev, proj>>

(* 300 seconds have passed since acquire: the rows of one acquisition       *)
(* expire together, and no code renews them while the import runs.          *)
LeaseExpires(j) ==
    /\ \E r \in Resources : lock[r].job = j /\ ~lock[r].expired
    /\ lock' = [r \in Resources |->
                  IF lock[r].job = j THEN [lock[r] EXCEPT !.expired = TRUE] ELSE lock[r]]
    /\ UNCHANGED <<nextToken, job, ckpt, scanVars, rev, proj, worker>>

-----------------------------------------------------------------------------
(* AnalysisService.save with enforce_current: a review of one file of the   *)
(* CURRENT scan, a new data version, and the projection rebuilt and ready.  *)
AnalysisSave(p, f) ==
    LET s == proj[p].current
        v == proj[p].version + 1 IN
    /\ s # NoScan
    /\ rev[s][f] < MaxRevision
    /\ rev' = [rev EXCEPT ![s][f] = @ + 1]
    /\ proj' = [proj EXCEPT ![p].version = v, ![p].ready = v]
    /\ rows' = [rows EXCEPT ![s] = v]
    /\ UNCHANGED <<lockVars, job, ckpt, scan, facts, carried, worker>>

Step(w) ==
    \/ Load(w) \/ IngestBatch(w) \/ SkipPhase(w) \/ RunPlainPhase(w)
    \/ FinalizeCoverage(w) \/ ComputeInheritance(w) \/ VerifyConsistency(w)
    \/ Seal(w) \/ ObserveOwner(w) \/ PublishTransaction(w) \/ AlreadyPublished(w)
    \/ PublishRaises(w) \/ RecordPublishFailure(w) \/ Raise(w) \/ HandleFailure(w)
    \/ EnqueueFails(w)

Next ==
    \/ \E w \in Workers : Step(w) \/ Crash(w)
    \/ \E w \in Workers, j \in Jobs : Reclaim(w, j)
    \/ \E w \in Workers, j \in Jobs, s \in Scans, R \in ResourceSets : Create(w, j, s, R)
    \/ \E j \in Jobs : ResumeEnqueueFails(j) \/ LeaseExpires(j)
    \/ \E p \in Projects, f \in Files : AnalysisSave(p, f)

Spec == Init /\ [][Next]_vars

(* A thread that is alive takes its next step. *)
FairSpec == Spec /\ \A w \in Workers : WF_vars(Step(w))

-----------------------------------------------------------------------------
(* Safety *)

Terminal(j) == job[j].state \in {"completed", "failed"}
Running(w) == worker[w].pc # "idle"
Stale(w) == Running(w) /\ worker[w].fence # ckpt[worker[w].job].fence

(* CURRENT never names a scan that is incomplete: all of its batches are    *)
(* imported, its projection was built, and no late failure of an import     *)
(* has marked it (publish_in_transaction, record_failure).                  *)
CurrentIsComplete ==
    \A p \in Projects : LET s == proj[p].current IN
        s # NoScan => /\ ProjectOf[s] = p
                      /\ scan[s].status = "SEALED"
                      /\ facts[s] = Batches
                      /\ rows[s] # 0

(* Two imports that started from the same CURRENT are never both published, *)
(* so the published scans of a project form one chain.                      *)
OneSuccessor ==
    \A i, j \in Jobs :
        /\ i # j
        /\ job[i].state = "completed" /\ job[j].state = "completed"
        /\ ProjectOf[job[i].scan] = ProjectOf[job[j].scan]
        => job[i].pred # job[j].pred

(* The two fences agree on who runs a job: the callback that holds the job's *)
(* lease is the one whose token the checkpoint carries, and there is at most *)
(* one such callback (reclaim, claim_fencing).                               *)
LeaseMatchesFence ==
    /\ \A w \in Workers : Running(w) =>
         (worker[w].owner = job[worker[w].job].owner <=> ~Stale(w))
    /\ \A v, w \in Workers :
         Running(v) /\ Running(w) /\ ~Stale(v) /\ ~Stale(w) /\ worker[v].job = worker[w].job
         => v = w

(* A finished import holds no repository, whoever finished it and whatever  *)
(* expired or was reclaimed before (publish, record_failure, release).      *)
TerminalHoldsNoLock ==
    \A r \in Resources : lock[r].job # NoJob => ~Terminal(lock[r].job)

(* A restart resumes after the last batch whose facts are in the database:  *)
(* the checkpoint never runs ahead of the facts, and every commit of a      *)
(* phase or batch moved it exactly once (save_batch, advance).              *)
CheckpointMatchesFacts ==
    \A j \in Jobs : job[j].state # "none" /\ ckpt[j].phase < PUBLISHED =>
        /\ 1 .. ckpt[j].batch \subseteq facts[job[j].scan]
        /\ ckpt[j].seq = ckpt[j].phase + ckpt[j].batch
        /\ ckpt[j].phase >= COVERAGE_IMPORTED => facts[job[j].scan] = Batches

(* What CURRENT inherited is what its predecessor says, for good: no review *)
(* of a consulted file was lost between inheritance and publication, and    *)
(* none can be added to the predecessor later.  It is claimed for scans     *)
(* that one import built.                                                   *)
InheritedFrom(s) ==
    LET q == scan[s].pred IN
    q # NoScan => \A f \in Files : carried[s][f] # 0 => carried[s][f] = rev[q][f]

OneImport(s) == \A i, j \in Jobs : job[i].scan = s /\ job[j].scan = s => i = j

InheritanceIsCurrent ==
    \A p \in Projects : LET s == proj[p].current IN
        s # NoScan /\ OneImport(s) => InheritedFrom(s)

(* What a publication rests on: it succeeds the scan it was computed from,  *)
(* whose analysis is still the one it inherited.                            *)
PublicationIsCurrent == OneSuccessor /\ InheritanceIsCurrent

(* A callback that was superseded by a reclaim changes nothing any more,    *)
(* neither by working on nor by recording its failure.                      *)
SupersededChangesNothing ==
    [][\A w \in Workers :
         /\ Stale(w) /\ worker[w].pc \in {"load", "work", "fail"}
         /\ worker'[w] # worker[w]
         => UNCHANGED <<lockVars, job, ckpt, scanVars, rev, proj>>]_vars

-----------------------------------------------------------------------------
(* What the design documents and comments say, and the code does not do (README,     *)
(* Disagreements)                                                           *)

(* Every write of an import finds, in the same transaction, its own         *)
(* unexpired lock on each of its repositories.                              *)
HoldsLocks(w) ==
    \A r \in job[worker[w].job].resources :
        /\ lock[r].job = worker[w].job
        /\ lock[r].owner = worker[w].owner
        /\ ~lock[r].expired

WritesHoldTheLock ==
    [][\A w \in Workers :
         /\ worker[w].pc \in {"work", "commit"}
         /\ worker'[w] # worker[w]
         /\ <<ckpt, facts, scan, proj>>' # <<ckpt, facts, scan, proj>>
         => HoldsLocks(w)]_vars

(* Only a candidate that never was CURRENT is marked FAILED or ABORTED. *)
PublishedNeverFails ==
    [][\A j \in Jobs : job[j].state = "completed" =>
          scan'[job[j].scan].status = scan[job[j].scan].status]_vars

(* Reviews of CURRENT that touch nothing the import read leave it           *)
(* publishable: as long as the publication checks hold, so does the version *)
(* check of the consistency phase.                                          *)
UnrelatedReviewIsHarmless ==
    \A j \in Jobs :
        /\ job[j].state \in Active /\ ckpt[j].phase = STATS_REBUILT
        /\ Publishable(j)
        => proj[ProjectOf[job[j].scan]].version = job[j].version

-----------------------------------------------------------------------------
(* Liveness *)

(* As long as no process dies every accepted import ends: it is published   *)
(* or recorded as failed, however leases expire and callbacks are           *)
(* superseded in between.                                                   *)
EveryImportSettles ==
    \A j \in Jobs : job[j].state \in Active ~> Terminal(j)

=============================================================================
