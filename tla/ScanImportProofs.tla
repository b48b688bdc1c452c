-------------------------- MODULE ScanImportProofs --------------------------
(***************************************************************************)
(* What ScanImport promises for any number of imports, workers, projects,  *)
(* scans, repositories and batches; and, from "The line map" on, what the  *)
(* inheritance phase of an import promises for any files, texts and diffs. *)
(***************************************************************************)
EXTENDS ScanImport, InheritanceEngine, FiniteSetTheorems, WellFoundedInduction, TLAPS

-----------------------------------------------------------------------------
(* Rows *)

(* The first resource an import locks. *)
LEMMA FirstResource ==
    ASSUME NEW R \in ResourceSets
    PROVE  Min(R) \in R /\ Min(R) \in Resources /\ R \subseteq Resources
  BY ResourceSetsAssumption DEF Min

(* The fencing token acquire returns first is a number. *)
LEMMA FirstTokenType ==
    ASSUME NEW R \in ResourceSets, nextToken \in [Resources -> Nat]
    PROVE  FirstToken(R) \in Nat
  BY FirstResource DEF FirstToken

(* The rows and local states the actions start from. *)
LEMMA InitialRows ==
    /\ Idle \in Worker
    /\ NoLock \in Lock
    /\ NothingRead \in [Files -> Nat]
  BY BoundsAssumption, NoneAssumption
     DEF Idle, Worker, NoLock, Lock, NothingRead, Phases, LOCKED, PUBLISHED

(* A callback that starts on a job. *)
LEMMA StartedWorker ==
    ASSUME NEW j \in Jobs, NEW owner \in Nat, NEW fence \in Nat
    PROVE  [Idle EXCEPT !.pc = "load", !.job = j, !.owner = owner, !.fence = fence] \in Worker
  <1> DEFINE u1 == [Idle EXCEPT !.pc = "load"]
             u2 == [u1 EXCEPT !.job = j]
             u3 == [u2 EXCEPT !.owner = owner]
             u4 == [u3 EXCEPT !.fence = fence]
  <1>1. u1 \in Worker
    BY InitialRows DEF Worker
  <1> HIDE DEF u1
  <1>2. u2 \in Worker
    BY <1>1 DEF Worker
  <1> HIDE DEF u2
  <1>3. u3 \in Worker
    BY <1>2 DEF Worker
  <1> HIDE DEF u3
  <1>4. u4 \in Worker
    BY <1>3 DEF Worker
  <1> QED
    BY <1>4 DEF u1, u2, u3, u4

(* The checkpoint of a published import. *)
LEMMA PublishedCheckpoint ==
    ASSUME NEW c \in Checkpoint
    PROVE  [c EXCEPT !.phase = PUBLISHED, !.seq = @ + 1, !.batch = 0, !.readSet = NothingRead]
             \in Checkpoint
  <1>1. c.seq + 1 \in Nat /\ PUBLISHED \in Phases /\ 0 \in 0 .. NumBatches
    BY BoundsAssumption DEF Checkpoint, Phases, LOCKED, PUBLISHED
  <1> QED
    BY <1>1, InitialRows DEF Checkpoint

(* The project state after a review was saved. *)
LEMMA SavedState ==
    ASSUME NEW u \in ProjectState, NEW v \in Nat
    PROVE  [u EXCEPT !.version = v, !.ready = v] \in ProjectState
  BY DEF ProjectState

(* A callback that resumes at some batch. *)
LEMMA ResumedWorker ==
    ASSUME NEW u \in Worker, NEW batch \in 0 .. NumBatches
    PROVE  [u EXCEPT !.pc = "work", !.target = SCAN_CREATED, !.batch = batch] \in Worker
  <1> DEFINE u1 == [u EXCEPT !.pc = "work"]
             u2 == [u1 EXCEPT !.target = SCAN_CREATED]
             u3 == [u2 EXCEPT !.batch = batch]
  <1>1. u1 \in Worker
    BY DEF Worker
  <1> HIDE DEF u1
  <1>2. u2 \in Worker
    BY <1>1 DEF Worker, SCAN_CREATED, Phases, LOCKED, PUBLISHED
  <1> HIDE DEF u2
  <1>3. u3 \in Worker
    BY <1>2 DEF Worker
  <1> QED
    BY <1>3 DEF u1, u2, u3

(* A callback that resumes keeps what it was given. *)
LEMMA ResumedFields ==
    ASSUME NEW u \in Worker, NEW batch
    PROVE  LET v == [u EXCEPT !.pc = "work", !.target = SCAN_CREATED, !.batch = batch]
           IN  v.job = u.job /\ v.owner = u.owner /\ v.fence = u.fence
  BY DEF Worker

(* advance moves a checkpoint to a phase. *)
LEMMA AdvancedCheckpoint ==
    ASSUME ckpt \in [Jobs -> Checkpoint], NEW j \in Jobs, ckpt[j].phase + 1 \in Phases,
           Advance(j)
    PROVE  ckpt' \in [Jobs -> Checkpoint]
  BY DEF Advance, Checkpoint

(* The rows of advance, field by field. *)
LEMMA AdvancedRows ==
    ASSUME ckpt \in [Jobs -> Checkpoint], NEW j \in Jobs, Advance(j)
    PROVE  /\ ckpt'[j].phase = ckpt[j].phase + 1
           /\ \A i \in Jobs : i # j => ckpt'[i] = ckpt[i]
  BY DEF Advance, Checkpoint

(* The checkpoint of an ingested batch. *)
LEMMA IngestedCheckpoint ==
    ASSUME NEW c \in Checkpoint, NEW b \in 0 .. NumBatches
    PROVE  [c EXCEPT !.batch = b, !.seq = @ + 1] \in Checkpoint
  <1>1. c.seq + 1 \in Nat
    BY DEF Checkpoint
  <1> QED
    BY <1>1 DEF Checkpoint

(* The checkpoint of a computed inheritance. *)
LEMMA ReadCheckpoint ==
    ASSUME NEW c \in Checkpoint, c.phase + 1 \in Phases, NEW read \in [Files -> Nat]
    PROVE  [c EXCEPT !.phase = @ + 1, !.seq = @ + 1, !.readSet = read] \in Checkpoint
  <1>1. c.seq + 1 \in Nat
    BY DEF Checkpoint
  <1> QED
    BY <1>1 DEF Checkpoint

(* A callback that goes on to its next phase. *)
LEMMA NextTarget ==
    ASSUME NEW u \in Worker, u.target < SEALED
    PROVE  [u EXCEPT !.target = @ + 1] \in Worker
  BY DEF Worker, Phases, LOCKED, PUBLISHED, SEALED

(* record_failure writes rows of the job, of its scan and of its locks. *)
LEMMA FailureRows ==
    ASSUME TypeOK, NEW j, NEW owner, NEW verdict \in {"FAILED", "ABORTED"},
           RecordFailure(j, owner, verdict)
    PROVE  /\ job' \in [Jobs -> Job]
           /\ scan' \in [Scans -> Scan]
           /\ lock' \in [Resources -> Lock]
  <1>1. /\ job \in [Jobs -> Job]
        /\ scan \in [Scans -> Scan]
        /\ lock \in [Resources -> Lock]
    BY DEF TypeOK
  <1>2. job' \in {job, [job EXCEPT ![j].state = "failed"]}
    BY DEF RecordFailure
  <1>3. scan' \in {scan, [scan EXCEPT ![job[j].scan].status = verdict]}
    BY DEF RecordFailure
  <1>4. lock' = lock \/ ReleaseAll(j, owner)
    BY DEF RecordFailure
  <1>5. job' \in [Jobs -> Job]
    BY <1>1, <1>2 DEF Job
  <1>6. scan' \in [Scans -> Scan]
    BY <1>1, <1>3 DEF Scan
  <1>7. lock' \in [Resources -> Lock]
    BY <1>1, <1>4, InitialRows DEF ReleaseAll
  <1> QED
    BY <1>5, <1>6, <1>7

-----------------------------------------------------------------------------
(* Types *)

(* A created import names a scan and its repositories, and a callback that  *)
(* runs works on a created import.                                          *)
Bound ==
    /\ \A j \in Jobs : job[j].state # "none" =>
         job[j].scan \in Scans /\ job[j].resources \in ResourceSets
    /\ \A w \in Workers : Running(w) =>
         worker[w].job \in Jobs /\ job[worker[w].job].state # "none"

(* Every step keeps the rows and the callbacks well-typed. *)
LEMMA TypeStep ==
    ASSUME TypeOK, Bound
    PROVE  [Next]_vars => TypeOK'
  <1>t. /\ nextToken \in [Resources -> Nat]
        /\ rows \in [Scans -> Nat]
        /\ carried \in [Scans -> [Files -> Nat]]
        /\ rev \in [Scans -> [Files -> Nat]]
    BY DEF TypeOK
  <1>lock. lock \in [Resources -> Lock]
    BY DEF TypeOK
  <1>job. job \in [Jobs -> Job]
    BY DEF TypeOK
  <1>ckpt. ckpt \in [Jobs -> Checkpoint]
    BY DEF TypeOK
  <1>scan. scan \in [Scans -> Scan]
    BY DEF TypeOK
  <1>facts. facts \in [Scans -> SUBSET Batches]
    BY DEF TypeOK
  <1>proj. proj \in [Projects -> ProjectState]
    BY DEF TypeOK
  <1>worker. worker \in [Workers -> Worker]
    BY DEF TypeOK
  <1>1. ASSUME NEW w \in Workers, NEW j \in Jobs, NEW s \in Scans, NEW R \in ResourceSets,
               Create(w, j, s, R)
        PROVE  TypeOK'
    <2>1. nextToken' \in [Resources -> Nat]
      BY <1>1, <1>t DEF Create, AcquireAll
    <2>2. lock' \in [Resources -> Lock]
      BY <1>1, <1>t, <1>lock DEF Create, AcquireAll, Lock
    <2>3. ProjectOf[s] \in Projects /\ proj[ProjectOf[s]] \in ProjectState
      BY <1>proj, ProjectOfAssumption
    <2>4. scan' \in [Scans -> Scan]
      BY <1>1, <1>scan, <2>3 DEF Create, Scan, ProjectState
    <2>5. proj' \in [Projects -> ProjectState]
      BY <1>1, <1>proj, <2>3 DEF Create, ProjectState
    <2>6. job' \in [Jobs -> Job]
      BY <1>1, <1>job, <2>3, FirstResource DEF Create, Job,
         ProjectState, Active
    <2>7. ckpt' \in [Jobs -> Checkpoint]
      BY <1>1, <1>t, <1>ckpt, FirstTokenType, InitialRows,
         BoundsAssumption DEF Create, Checkpoint, Phases, LOCKED,
         PUBLISHED
    <2>8. worker' \in [Workers -> Worker]
      BY <1>1, <1>t, <1>worker, FirstTokenType, StartedWorker DEF Create
    <2> QED
      BY <1>1, <2>1, <2>2, <2>3, <2>4, <2>5, <2>6, <2>7, <2>8 DEF
         Create, TypeOK, lockVars, scanVars
  <1>2. ASSUME NEW w \in Workers, NEW j \in Jobs,
               Reclaim(w, j)
        PROVE  TypeOK'
    <2>1. job[j].resources \in ResourceSets /\ job[j].owner \in Nat
      BY <1>2, <1>job DEF Reclaim, Bound, Active, Job
    <2>2. FirstToken(job[j].resources) \in Nat /\ job[j].owner + 1 \in Nat
      BY <1>t, <2>1, FirstTokenType
    <2>3. nextToken' \in [Resources -> Nat]
      BY <1>2, <1>t DEF Reclaim, AcquireAll
    <2>4. lock' \in [Resources -> Lock]
      BY <1>2, <1>t, <1>lock, <2>1 DEF Reclaim, AcquireAll, Lock
    <2>5. job' \in [Jobs -> Job]
      BY <1>2, <1>job, <2>1 DEF Reclaim, Job, Active
    <2>6. ckpt' \in [Jobs -> Checkpoint]
      BY <1>2, <1>ckpt, <2>2 DEF Reclaim, ClaimFencing, Checkpoint
    <2>7. [Idle EXCEPT !.pc = "load", !.job = j, !.owner = job[j].owner + 1,
                         !.fence = FirstToken(job[j].resources)] \in Worker
      BY <2>2, StartedWorker
    <2>8. worker' \in [Workers -> Worker]
      BY <1>2, <1>worker, <2>7 DEF Reclaim
    <2> QED
      BY <1>2, <2>1, <2>2, <2>3, <2>4, <2>5, <2>6, <2>7, <2>8 DEF
         Reclaim, TypeOK, lockVars, scanVars
  <1>3. ASSUME NEW w \in Workers,
               Load(w)
        PROVE  TypeOK'
    <2>1. worker[w].job \in Jobs /\ job[worker[w].job].scan \in Scans
      BY <1>3 DEF Load, Bound, Running
    <2>2. [worker[w] EXCEPT !.pc = "publish"] \in Worker
      BY <1>worker DEF Worker
    <2>3. [worker[w] EXCEPT !.pc = "work", !.target = SCAN_CREATED, !.batch = ckpt[worker[w].job].batch]
             \in Worker
      BY <1>worker, <1>ckpt, <2>1, ResumedWorker DEF Checkpoint
    <2>4. \E u \in Worker : worker' = [worker EXCEPT ![w] = u]
      BY <1>3, <2>2, <2>3, InitialRows DEF Load
    <2>5. worker' \in [Workers -> Worker]
      BY <1>worker, <2>4
    <2> QED
      BY <1>3, <2>1, <2>2, <2>3, <2>4, <2>5 DEF Load, TypeOK, lockVars,
         scanVars
  <1>4. ASSUME NEW w \in Workers,
               IngestBatch(w)
        PROVE  TypeOK'
    <2>1. worker[w].job \in Jobs /\ job[worker[w].job].scan \in Scans
      BY <1>4 DEF IngestBatch, Bound, Running
    <2>2. worker[w].batch + 1 \in Batches
      BY <1>4, <1>worker, BoundsAssumption DEF IngestBatch, Worker,
         Batches
    <2>3. facts' \in [Scans -> SUBSET Batches]
      BY <1>4, <1>facts, <2>2 DEF IngestBatch, StoreFacts
    <2>4. ckpt' \in [Jobs -> Checkpoint]
      <3>1. ckpt' = [ckpt EXCEPT ![worker[w].job].batch = worker[w].batch + 1,
                                 ![worker[w].job].seq = @ + 1]
        BY <1>4, Zenon DEF IngestBatch
      <3>2. PICK row : row = [ckpt[worker[w].job] EXCEPT !.batch = worker[w].batch + 1, !.seq = @ + 1]
        OBVIOUS
      <3>3. row \in Checkpoint
        <4>1. worker[w].batch + 1 \in 0 .. NumBatches
          BY <2>2, BoundsAssumption DEF Batches
        <4> QED
          BY <1>ckpt, <2>1, <3>2, <4>1, IngestedCheckpoint
      <3>4. ckpt' = [ckpt EXCEPT ![worker[w].job] = row]
        BY <3>1, <3>2
      <3> QED
        BY <1>ckpt, <2>1, <3>3, <3>4
    <2>5. worker[w].batch + 1 \in 0 .. NumBatches
      BY <2>2, BoundsAssumption DEF Batches
    <2>6. worker' \in [Workers -> Worker]
      BY <1>4, <1>worker, <2>5 DEF IngestBatch, Worker
    <2> QED
      BY <1>4, <2>1, <2>2, <2>3, <2>4, <2>5, <2>6 DEF IngestBatch,
         TypeOK, lockVars, scanVars
  <1>5. ASSUME NEW w \in Workers,
               SkipPhase(w)
        PROVE  TypeOK'
    <2>1. worker' \in [Workers -> Worker]
      BY <1>5, <1>worker, NextTarget DEF SkipPhase, AtPhase
    <2> QED
      BY <1>5, <2>1 DEF SkipPhase, TypeOK, lockVars, scanVars
  <1>6. ASSUME NEW w \in Workers,
               RunPlainPhase(w)
        PROVE  TypeOK'
    <2>1. /\ worker[w].job \in Jobs
             /\ job[worker[w].job].scan \in Scans
             /\ worker[w].target \in Phases /\ worker[w].target < SEALED
             /\ ckpt[worker[w].job].phase + 1 = worker[w].target
      BY <1>6, <1>worker DEF RunPlainPhase, Bound, Running, RunsNext,
         AtPhase, Worker
    <2>2. ckpt' \in [Jobs -> Checkpoint]
      BY <1>6, <1>ckpt, <2>1, AdvancedCheckpoint DEF RunPlainPhase
    <2>3. worker' \in [Workers -> Worker]
      BY <1>6, <1>worker, NextTarget DEF RunPlainPhase, RunsNext,
         AtPhase
    <2> QED
      BY <1>6, <2>1, <2>2, <2>3 DEF RunPlainPhase, TypeOK, lockVars,
         scanVars
  <1>7. ASSUME NEW w \in Workers,
               FinalizeCoverage(w)
        PROVE  TypeOK'
    <2>1. /\ worker[w].job \in Jobs
             /\ job[worker[w].job].scan \in Scans
             /\ worker[w].target \in Phases /\ worker[w].target < SEALED
             /\ ckpt[worker[w].job].phase + 1 = worker[w].target
      BY <1>7, <1>worker DEF FinalizeCoverage, Bound, Running, RunsNext,
         AtPhase, Worker
    <2>2. ckpt' \in [Jobs -> Checkpoint]
      BY <1>7, <1>ckpt, <2>1, AdvancedCheckpoint DEF FinalizeCoverage
    <2>3. worker' \in [Workers -> Worker]
      BY <1>7, <1>worker, NextTarget DEF FinalizeCoverage, RunsNext,
         AtPhase
    <2> QED
      BY <1>7, <2>1, <2>2, <2>3 DEF FinalizeCoverage, TypeOK, lockVars,
         scanVars
  <1>8. ASSUME NEW w \in Workers,
               ComputeInheritance(w)
        PROVE  TypeOK'
    <2>1. /\ worker[w].job \in Jobs
             /\ job[worker[w].job].scan \in Scans
             /\ worker[w].target \in Phases /\ worker[w].target < SEALED
             /\ ckpt[worker[w].job].phase + 1 = worker[w].target
      BY <1>8, <1>worker DEF ComputeInheritance, Bound, Running,
         RunsNext, AtPhase, Worker
    <2>2. ReadSetOf(job[worker[w].job].scan) \in [Files -> Nat]
      BY <1>t, <1>scan, <2>1, InitialRows DEF ReadSetOf, Scan
    <2>3. ckpt' \in [Jobs -> Checkpoint]
      <3>1. ckpt' = [ckpt EXCEPT ![worker[w].job].phase = @ + 1, ![worker[w].job].seq = @ + 1,
                                 ![worker[w].job].readSet = ReadSetOf(job[worker[w].job].scan)]
        BY <1>8, Zenon DEF ComputeInheritance
      <3>2. PICK row : row = [ckpt[worker[w].job] EXCEPT !.phase = @ + 1, !.seq = @ + 1,
                                 !.readSet = ReadSetOf(job[worker[w].job].scan)]
        OBVIOUS
      <3>3. row \in Checkpoint
        BY <1>ckpt, <2>1, <2>2, <3>2, ReadCheckpoint
      <3>4. ckpt' = [ckpt EXCEPT ![worker[w].job] = row]
        BY <3>1, <3>2
      <3> QED
        BY <1>ckpt, <2>1, <3>3, <3>4
    <2>4. carried' \in [Scans -> [Files -> Nat]]
      BY <1>8, <1>t, <2>1, <2>2 DEF ComputeInheritance, CarryOver
    <2>5. rev' \in [Scans -> [Files -> Nat]]
      BY <1>8, <1>t, <2>1, <2>2 DEF ComputeInheritance, CarryOver
    <2>6. worker' \in [Workers -> Worker]
      BY <1>8, <1>worker, NextTarget DEF ComputeInheritance, RunsNext,
         AtPhase
    <2> QED
      BY <1>8, <2>1, <2>2, <2>3, <2>4, <2>5, <2>6 DEF
         ComputeInheritance, TypeOK, lockVars, scanVars
  <1>9. ASSUME NEW w \in Workers,
               VerifyConsistency(w)
        PROVE  TypeOK'
    <2>1. /\ worker[w].job \in Jobs
             /\ job[worker[w].job].scan \in Scans
             /\ worker[w].target \in Phases /\ worker[w].target < SEALED
             /\ ckpt[worker[w].job].phase + 1 = worker[w].target
      BY <1>9, <1>worker DEF VerifyConsistency, Bound, Running,
         RunsNext, AtPhase, Worker
    <2>2. job[worker[w].job].version \in Nat
      BY <1>job, <2>1 DEF Job
    <2>3. rows' \in [Scans -> Nat]
      BY <1>9, <1>t, <2>2 DEF VerifyConsistency
    <2>4. proj' \in [Projects -> ProjectState]
      BY <1>9, <1>proj, <2>2 DEF VerifyConsistency, ProjectState
    <2>5. ckpt' \in [Jobs -> Checkpoint]
      BY <1>9, <1>ckpt, <2>1, AdvancedCheckpoint DEF VerifyConsistency
    <2>6. worker' \in [Workers -> Worker]
      BY <1>9, <1>worker, NextTarget DEF VerifyConsistency, RunsNext,
         AtPhase
    <2> QED
      BY <1>9, <2>1, <2>2, <2>3, <2>4, <2>5, <2>6 DEF VerifyConsistency,
         TypeOK, lockVars, scanVars
  <1>10. ASSUME NEW w \in Workers,
               Seal(w)
        PROVE  TypeOK'
    <2>1. worker[w].job \in Jobs /\ job[worker[w].job].scan \in Scans
      BY <1>10 DEF Seal, Bound, Running
    <2>2. scan' \in [Scans -> Scan]
      BY <1>10, <1>scan, <2>1 DEF Seal, Scan
    <2>3. ckpt' \in [Jobs -> Checkpoint]
      <3>1. Advance(worker[w].job) /\ ckpt[worker[w].job].phase + 1 = SEALED
        BY <1>10, Zenon DEF Seal
      <3>2. SEALED \in Phases
        BY DEF SEALED, Phases, LOCKED, PUBLISHED
      <3> QED
        BY <1>ckpt, <2>1, <3>1, <3>2, AdvancedCheckpoint
    <2>4. worker' \in [Workers -> Worker]
      BY <1>10, <1>worker DEF Seal, Goto, Worker
    <2> QED
      BY <1>10, <2>1, <2>2, <2>3, <2>4 DEF Seal, TypeOK, lockVars,
         scanVars
  <1>11. ASSUME NEW w \in Workers,
               ObserveOwner(w)
        PROVE  TypeOK'
    <2>1. job[worker[w].job].owner \in Nat
      BY <1>11, <1>job DEF ObserveOwner, Bound, Running, Job
    <2>2. [worker[w] EXCEPT !.pc = "commit", !.seen = job[worker[w].job].owner] \in Worker
      BY <1>worker, <2>1 DEF Worker
    <2>3. worker' \in [Workers -> Worker]
      BY <1>11, <1>worker, <2>2 DEF ObserveOwner
    <2> QED
      BY <1>11, <2>1, <2>2, <2>3 DEF ObserveOwner, TypeOK, lockVars,
         scanVars
  <1>12. ASSUME NEW w \in Workers,
               PublishTransaction(w)
        PROVE  TypeOK'
    <2>1. worker[w].job \in Jobs /\ job[worker[w].job].scan \in Scans
      BY <1>12 DEF PublishTransaction, Bound, Running
    <2>2. proj' \in [Projects -> ProjectState]
      BY <1>12, <1>proj, <2>1 DEF PublishTransaction, ProjectState
    <2>3. [ckpt[worker[w].job] EXCEPT !.phase = PUBLISHED, !.seq = @ + 1, !.batch = 0,
                                         !.readSet = NothingRead] \in Checkpoint
      BY <1>ckpt, <2>1, PublishedCheckpoint
    <2>4. ckpt' \in [Jobs -> Checkpoint]
      BY <1>12, <1>ckpt, <2>3 DEF PublishTransaction
    <2>5. job' \in [Jobs -> Job]
      <3>1. job' = [job EXCEPT ![worker[w].job].state = "completed"]
        BY <1>12, Zenon DEF PublishTransaction
      <3> QED
        BY <1>job, <2>1, <3>1 DEF Job
    <2>6. lock' \in [Resources -> Lock]
      BY <1>12, <1>lock, InitialRows DEF PublishTransaction
    <2>7. worker' \in [Workers -> Worker]
      BY <1>12, <1>worker, InitialRows DEF PublishTransaction
    <2> QED
      BY <1>12, <2>1, <2>2, <2>3, <2>4, <2>5, <2>6, <2>7 DEF
         PublishTransaction, TypeOK, lockVars, scanVars
  <1>13. ASSUME NEW w \in Workers,
               AlreadyPublished(w)
        PROVE  TypeOK'
    <2>1. worker' \in [Workers -> Worker]
      BY <1>13, <1>worker, InitialRows DEF AlreadyPublished
    <2> QED
      BY <1>13, <2>1 DEF AlreadyPublished, TypeOK, lockVars, scanVars
  <1>14. ASSUME NEW w \in Workers,
               PublishRaises(w)
        PROVE  TypeOK'
    <2>1. RejectedStatus(worker[w].job) \in {"FAILED", "ABORTED"}
      BY DEF RejectedStatus
    <2>2. \E why \in {"FAILED", "ABORTED"} : worker' = [worker EXCEPT ![w].pc = "abort", ![w].why = why]
      BY <1>14, <2>1 DEF PublishRaises
    <2>3. PICK why \in {"FAILED", "ABORTED"} :
             worker' = [worker EXCEPT ![w] = [worker[w] EXCEPT !.pc = "abort", !.why = why]]
      BY <2>2
    <2>4. [worker[w] EXCEPT !.pc = "abort", !.why = why] \in Worker
      BY <1>worker DEF Worker
    <2>5. worker' \in [Workers -> Worker]
      BY <1>worker, <2>3, <2>4
    <2> QED
      BY <1>14, <2>5 DEF PublishRaises, TypeOK,
         lockVars, scanVars
  <1>15. ASSUME NEW w \in Workers,
               RecordPublishFailure(w)
        PROVE  TypeOK'
    <2>1. worker[w].why \in {"FAILED", "ABORTED"}
      BY <1>worker DEF Worker
    <2>2. /\ job' \in [Jobs -> Job]
             /\ scan' \in [Scans -> Scan]
             /\ lock' \in [Resources -> Lock]
      BY <1>15, FailureRows, <2>1 DEF RecordPublishFailure
    <2>3. worker' \in [Workers -> Worker]
      BY <1>15, <1>worker DEF RecordPublishFailure, Goto, Worker
    <2> QED
      BY <1>15, <2>1, <2>2, <2>3 DEF RecordPublishFailure, TypeOK,
         lockVars, scanVars
  <1>16. ASSUME NEW w \in Workers,
               Raise(w)
        PROVE  TypeOK'
    <2>1. worker' \in [Workers -> Worker]
      BY <1>16, <1>worker DEF Raise, Goto, Worker
    <2> QED
      BY <1>16, <2>1 DEF Raise, TypeOK, lockVars, scanVars
  <1>17. ASSUME NEW w \in Workers,
               HandleFailure(w)
        PROVE  TypeOK'
    <2>1. /\ job' \in [Jobs -> Job]
             /\ scan' \in [Scans -> Scan]
             /\ lock' \in [Resources -> Lock]
      BY <1>17, FailureRows DEF HandleFailure
    <2>2. worker' \in [Workers -> Worker]
      BY <1>17, <1>worker, InitialRows DEF HandleFailure
    <2> QED
      BY <1>17, <2>1, <2>2 DEF HandleFailure, TypeOK, lockVars, scanVars
  <1>18. ASSUME NEW w \in Workers,
               EnqueueFails(w)
        PROVE  TypeOK'
    <2>1. /\ job' \in [Jobs -> Job]
             /\ scan' \in [Scans -> Scan]
             /\ lock' \in [Resources -> Lock]
      BY <1>18, FailureRows DEF EnqueueFails
    <2>2. worker' \in [Workers -> Worker]
      BY <1>18, <1>worker, InitialRows DEF EnqueueFails
    <2> QED
      BY <1>18, <2>1, <2>2 DEF EnqueueFails, TypeOK, lockVars, scanVars
  <1>19. ASSUME NEW w \in Workers,
               Crash(w)
        PROVE  TypeOK'
    <2>1. worker' \in [Workers -> Worker]
      BY <1>19, <1>worker, InitialRows DEF Crash
    <2> QED
      BY <1>19, <2>1 DEF Crash, TypeOK, lockVars, scanVars
  <1>20. ASSUME NEW j \in Jobs,
               ResumeEnqueueFails(j)
        PROVE  TypeOK'
    <2>1. /\ job' \in [Jobs -> Job]
             /\ scan' \in [Scans -> Scan]
             /\ lock' \in [Resources -> Lock]
      BY <1>20, FailureRows DEF ResumeEnqueueFails
    <2> QED
      BY <1>20, <2>1 DEF ResumeEnqueueFails, TypeOK, lockVars, scanVars
  <1>21. ASSUME NEW j \in Jobs,
               LeaseExpires(j)
        PROVE  TypeOK'
    <2>1. lock' \in [Resources -> Lock]
      BY <1>21, <1>lock DEF LeaseExpires, Lock
    <2> QED
      BY <1>21, <2>1 DEF LeaseExpires, TypeOK, lockVars, scanVars
  <1>22. ASSUME NEW p \in Projects, NEW f \in Files,
               AnalysisSave(p, f)
        PROVE  TypeOK'
    <2>1. proj[p].version \in Nat /\ proj[p].current \in Scans
      BY <1>22, <1>proj DEF AnalysisSave, ProjectState
    <2>2. [rev[proj[p].current] EXCEPT ![f] = @ + 1] \in [Files -> Nat]
      BY <1>t, <2>1
    <2>3. rev' \in [Scans -> [Files -> Nat]]
      BY <1>22, <1>t, <2>1, <2>2 DEF AnalysisSave
    <2>4. proj[p] \in ProjectState /\ proj[p].version + 1 \in Nat
      BY <1>proj, <2>1
    <2>5. [proj[p] EXCEPT !.version = proj[p].version + 1, !.ready = proj[p].version + 1] \in ProjectState
      BY <2>4, SavedState
    <2>6. proj' \in [Projects -> ProjectState]
      BY <1>22, <1>proj, <2>5 DEF AnalysisSave
    <2>7. rows' \in [Scans -> Nat]
      BY <1>22, <1>t, <2>1 DEF AnalysisSave
    <2> QED
      BY <1>22, <2>1, <2>2, <2>3, <2>4, <2>5, <2>6, <2>7 DEF
         AnalysisSave, TypeOK, lockVars, scanVars
  <1>23. CASE UNCHANGED vars
    BY <1>23 DEF vars, TypeOK
  <1> QED
    BY <1>1, <1>2, <1>3, <1>4, <1>5, <1>6, <1>7, <1>8, <1>9, <1>10, <1>11,
       <1>12, <1>13, <1>14, <1>15, <1>16, <1>17, <1>18, <1>19, <1>20,
       <1>21, <1>22, <1>23 DEF Next, Step

-----------------------------------------------------------------------------
(* Ownership *)

(* A lock row belongs to an import that is not finished, was written by the *)
(* lease owner of that import, and is one the import asked for.             *)
LocksOfActive ==
    \A r \in Resources : lock[r].job # NoJob =>
        /\ job[lock[r].job].state \in Active
        /\ lock[r].owner = job[lock[r].job].owner
        /\ r \in job[lock[r].job].resources

(* Tokens and owners only grow: nothing in use is ahead of its counter. *)
FencesBounded ==
    /\ \A j \in Jobs : job[j].state # "none" =>
         ckpt[j].fence <= nextToken[Min(job[j].resources)]
    /\ \A w \in Workers : Running(w) =>
         /\ worker[w].owner <= job[worker[w].job].owner
         /\ worker[w].fence <= ckpt[worker[w].job].fence

Ownership == Bound /\ LocksOfActive /\ FencesBounded /\ LeaseMatchesFence

(* What every step but create and reclaim leaves alone: who owns a job, its *)
(* token, what a callback was given, and the locks of unfinished imports.   *)
JobsKept ==
    \A j \in Jobs :
        /\ job'[j].scan = job[j].scan
        /\ job'[j].resources = job[j].resources
        /\ job'[j].owner = job[j].owner
        /\ job'[j].version = job[j].version
        /\ job'[j].state = "none" <=> job[j].state = "none"

FencesKept == nextToken' = nextToken /\ \A j \in Jobs : ckpt'[j].fence = ckpt[j].fence

WorkersKept ==
    \A w \in Workers : worker'[w].pc # "idle" =>
        /\ worker[w].pc # "idle"
        /\ worker'[w].job = worker[w].job
        /\ worker'[w].owner = worker[w].owner
        /\ worker'[w].fence = worker[w].fence

LocksKept ==
    \A r \in Resources : lock'[r].job # NoJob =>
        /\ lock'[r].job = lock[r].job
        /\ lock'[r].owner = lock[r].owner
        /\ job'[lock[r].job].state = job[lock[r].job].state

Kept == JobsKept /\ FencesKept /\ WorkersKept /\ LocksKept

(* record_failure ends a job and releases every lock it holds, or nothing. *)
LEMMA FailureKeeps ==
    ASSUME TypeOK, LocksOfActive, NEW j \in Jobs, NEW owner, NEW verdict,
           RecordFailure(j, owner, verdict)
    PROVE  JobsKept /\ LocksKept
  <1>1. job \in [Jobs -> Job] /\ lock \in [Resources -> Lock]
    BY DEF TypeOK
  <1>2. CASE MayTerminate(j, owner)
    <2>1. /\ job' = [job EXCEPT ![j].state = "failed"]
          /\ ReleaseAll(j, owner)
          /\ job[j].state # "none"
          /\ job[j].owner = owner
      BY <1>2 DEF RecordFailure, MayTerminate, Active
    <2>2. JobsKept
      BY <1>1, <2>1 DEF JobsKept, Job
    <2>3. ASSUME NEW r \in Resources, lock'[r].job # NoJob
          PROVE  lock'[r] = lock[r] /\ lock[r].job # j
      BY <1>1, <2>1, <2>3 DEF ReleaseAll, LocksOfActive, NoLock
    <2>4. \A r \in Resources : lock[r].job \in Jobs \cup {NoJob}
      BY <1>1 DEF Lock
    <2>5. LocksKept
      BY <1>1, <2>1, <2>3, <2>4 DEF LocksKept, Job
    <2> QED
      BY <2>2, <2>5
  <1>3. CASE ~MayTerminate(j, owner)
    BY <1>3 DEF RecordFailure, JobsKept, LocksKept
  <1> QED
    BY <1>2, <1>3

(* Every step creates an import, reclaims one, or keeps who owns what. *)
LEMMA KeptStep ==
    ASSUME TypeOK, Bound, LocksOfActive
    PROVE  [Next]_vars =>
             \/ \E w \in Workers, j \in Jobs, s \in Scans, R \in ResourceSets : Create(w, j, s, R)
             \/ \E w \in Workers, j \in Jobs : Reclaim(w, j)
             \/ Kept
  <1>lock. lock \in [Resources -> Lock]
    BY DEF TypeOK
  <1>job. job \in [Jobs -> Job]
    BY DEF TypeOK
  <1>ckpt. ckpt \in [Jobs -> Checkpoint]
    BY DEF TypeOK
  <1>worker. worker \in [Workers -> Worker]
    BY DEF TypeOK
  <1>same. /\ UNCHANGED job => JobsKept
           /\ UNCHANGED <<lock, job>> => LocksKept
           /\ UNCHANGED <<nextToken, ckpt>> => FencesKept
           /\ UNCHANGED worker => WorkersKept
    BY DEF JobsKept, LocksKept, FencesKept, WorkersKept
  <1>idle. \A w \in Workers : worker' = [worker EXCEPT ![w] = Idle] => WorkersKept
    BY <1>worker DEF WorkersKept, Idle
  <1>1. ASSUME NEW w \in Workers, Load(w)
        PROVE  Kept
    <2> DEFINE c == ckpt[worker[w].job]
               u1 == [worker[w] EXCEPT !.pc = "publish"]
               u2 == [worker[w] EXCEPT !.pc = "work", !.target = SCAN_CREATED, !.batch = c.batch]
    <2>1. \E u \in {Idle, u1, u2} : worker' = [worker EXCEPT ![w] = u]
      <3>1. CASE c.phase >= PUBLISHED
        <4>1. c.phase # SEALED
          BY <1>1, <1>ckpt, <3>1 DEF Load, Bound, Running, Checkpoint, Phases, LOCKED,
             PUBLISHED, SEALED
        <4> QED
          BY <1>1, <3>1, <4>1 DEF Load
      <3>2. CASE ~(c.phase >= PUBLISHED) /\ c.phase = SEALED
        BY <1>1, <3>2 DEF Load
      <3>3. CASE ~(c.phase >= PUBLISHED) /\ c.phase # SEALED
        BY <1>1, <3>3 DEF Load
      <3> QED
        BY <3>1, <3>2, <3>3
    <2>2. worker[w].pc = "load"
      BY <1>1 DEF Load
    <2>3. \A u \in {Idle, u1, u2} : u.pc # "idle" =>
            u.job = worker[w].job /\ u.owner = worker[w].owner /\ u.fence = worker[w].fence
      <3>1. worker[w] \in Worker
        BY <1>worker
      <3>2. u1.job = worker[w].job /\ u1.owner = worker[w].owner /\ u1.fence = worker[w].fence
        BY <3>1 DEF Worker
      <3>3. u2.job = worker[w].job /\ u2.owner = worker[w].owner /\ u2.fence = worker[w].fence
        BY <3>1, ResumedFields
      <3>4. Idle.pc = "idle"
        BY DEF Idle
      <3> HIDE DEF u1, u2
      <3> QED
        BY <3>2, <3>3, <3>4
    <2> HIDE DEF u1, u2
    <2>4. WorkersKept
      BY <1>worker, <2>1, <2>2, <2>3 DEF WorkersKept
    <2> QED
      BY <1>1, <1>same, <2>4 DEF Load, Kept, lockVars, scanVars
  <1>2. ASSUME NEW w \in Workers, IngestBatch(w)
        PROVE  Kept
    <2>1. WorkersKept
      BY <1>2, <1>worker DEF IngestBatch, WorkersKept, Worker
    <2>2. FencesKept
      BY <1>2, <1>ckpt DEF IngestBatch, FencesKept, Checkpoint, lockVars
    <2> QED
      BY <1>2, <1>same, <2>1, <2>2 DEF IngestBatch, Kept, lockVars,
         scanVars
  <1>3. ASSUME NEW w \in Workers, SkipPhase(w)
        PROVE  Kept
    <2>1. WorkersKept
      BY <1>3, <1>worker DEF SkipPhase, WorkersKept, Worker, AtPhase
    <2> QED
      BY <1>3, <1>same, <2>1 DEF SkipPhase, Kept, lockVars, scanVars
  <1>4. ASSUME NEW w \in Workers, RunPlainPhase(w)
        PROVE  Kept
    <2>1. WorkersKept
      BY <1>4, <1>worker DEF RunPlainPhase, WorkersKept, Worker,
         RunsNext, AtPhase
    <2>2. FencesKept
      BY <1>4, <1>ckpt DEF RunPlainPhase, FencesKept, Checkpoint,
         lockVars, Advance
    <2> QED
      BY <1>4, <1>same, <2>1, <2>2 DEF RunPlainPhase, Kept, lockVars,
         scanVars
  <1>5. ASSUME NEW w \in Workers, FinalizeCoverage(w)
        PROVE  Kept
    <2>1. WorkersKept
      BY <1>5, <1>worker DEF FinalizeCoverage, WorkersKept, Worker,
         RunsNext, AtPhase
    <2>2. FencesKept
      BY <1>5, <1>ckpt DEF FinalizeCoverage, FencesKept, Checkpoint,
         lockVars, Advance
    <2> QED
      BY <1>5, <1>same, <2>1, <2>2 DEF FinalizeCoverage, Kept, lockVars,
         scanVars
  <1>6. ASSUME NEW w \in Workers, ComputeInheritance(w)
        PROVE  Kept
    <2>1. WorkersKept
      BY <1>6, <1>worker DEF ComputeInheritance, WorkersKept, Worker,
         RunsNext, AtPhase
    <2>2. FencesKept
      BY <1>6, <1>ckpt DEF ComputeInheritance, FencesKept, Checkpoint,
         lockVars
    <2> QED
      BY <1>6, <1>same, <2>1, <2>2 DEF ComputeInheritance, Kept,
         lockVars, scanVars
  <1>7. ASSUME NEW w \in Workers, VerifyConsistency(w)
        PROVE  Kept
    <2>1. WorkersKept
      BY <1>7, <1>worker DEF VerifyConsistency, WorkersKept, Worker,
         RunsNext, AtPhase
    <2>2. FencesKept
      BY <1>7, <1>ckpt DEF VerifyConsistency, FencesKept, Checkpoint,
         lockVars, Advance
    <2> QED
      BY <1>7, <1>same, <2>1, <2>2 DEF VerifyConsistency, Kept,
         lockVars, scanVars
  <1>8. ASSUME NEW w \in Workers, Seal(w)
        PROVE  Kept
    <2>1. WorkersKept
      BY <1>8, <1>worker DEF Seal, WorkersKept, Worker, Goto
    <2>2. FencesKept
      BY <1>8, <1>ckpt DEF Seal, FencesKept, Checkpoint, lockVars,
         Advance
    <2> QED
      BY <1>8, <1>same, <2>1, <2>2 DEF Seal, Kept, lockVars, scanVars
  <1>9. ASSUME NEW w \in Workers, ObserveOwner(w)
        PROVE  Kept
    <2>1. WorkersKept
      BY <1>9, <1>worker DEF ObserveOwner, WorkersKept, Worker
    <2> QED
      BY <1>9, <1>same, <2>1 DEF ObserveOwner, Kept, lockVars, scanVars
  <1>10. ASSUME NEW w \in Workers, PublishTransaction(w)
        PROVE  Kept
    <2>1. WorkersKept
      BY <1>10, <1>idle DEF PublishTransaction
    <2>2. FencesKept
      BY <1>10, <1>ckpt DEF PublishTransaction, FencesKept, Checkpoint,
         lockVars
    <2>3. JobsKept
      BY <1>10, <1>job DEF PublishTransaction, JobsKept, Job, Active
    <2>4. \A r \in Resources : lock[r].job \in Jobs \cup {NoJob}
      BY <1>10, <1>lock DEF PublishTransaction, Lock
    <2>5. LocksKept
      BY <1>10, <1>lock, <1>job, <2>4 DEF PublishTransaction, LocksKept,
         NoLock, Job
    <2> QED
      BY <1>10, <1>same, <2>1, <2>2, <2>3, <2>4, <2>5 DEF
         PublishTransaction, Kept, lockVars, scanVars
  <1>11. ASSUME NEW w \in Workers, AlreadyPublished(w)
        PROVE  Kept
    <2>1. WorkersKept
      BY <1>11, <1>idle DEF AlreadyPublished
    <2> QED
      BY <1>11, <1>same, <2>1 DEF AlreadyPublished, Kept, lockVars,
         scanVars
  <1>12. ASSUME NEW w \in Workers, PublishRaises(w)
        PROVE  Kept
    <2>1. WorkersKept
      BY <1>12, <1>worker DEF PublishRaises, WorkersKept, Worker
    <2> QED
      BY <1>12, <1>same, <2>1 DEF PublishRaises, Kept, lockVars,
         scanVars
  <1>13. ASSUME NEW w \in Workers, RecordPublishFailure(w)
        PROVE  Kept
    <2>1. worker[w].job \in Jobs
      BY <1>13 DEF RecordPublishFailure, Bound, Running
    <2>2. JobsKept /\ LocksKept
      BY <1>13, <2>1, FailureKeeps DEF RecordPublishFailure
    <2>3. WorkersKept
      BY <1>13, <1>worker DEF RecordPublishFailure, WorkersKept, Worker,
         Goto
    <2> QED
      BY <1>13, <1>same, <2>1, <2>2, <2>3 DEF RecordPublishFailure,
         Kept, lockVars, scanVars
  <1>14. ASSUME NEW w \in Workers, Raise(w)
        PROVE  Kept
    <2>1. WorkersKept
      BY <1>14, <1>worker DEF Raise, WorkersKept, Worker, Goto
    <2> QED
      BY <1>14, <1>same, <2>1 DEF Raise, Kept, lockVars, scanVars
  <1>15. ASSUME NEW w \in Workers, HandleFailure(w)
        PROVE  Kept
    <2>1. worker[w].job \in Jobs
      BY <1>15 DEF HandleFailure, Bound, Running
    <2>2. JobsKept /\ LocksKept
      BY <1>15, <2>1, FailureKeeps DEF HandleFailure
    <2>3. WorkersKept
      BY <1>15, <1>idle DEF HandleFailure
    <2> QED
      BY <1>15, <1>same, <2>1, <2>2, <2>3 DEF HandleFailure, Kept,
         lockVars, scanVars
  <1>16. ASSUME NEW w \in Workers, EnqueueFails(w)
        PROVE  Kept
    <2>1. worker[w].job \in Jobs
      BY <1>16 DEF EnqueueFails, Bound, Running
    <2>2. JobsKept /\ LocksKept
      BY <1>16, <2>1, FailureKeeps DEF EnqueueFails
    <2>3. WorkersKept
      BY <1>16, <1>idle DEF EnqueueFails
    <2> QED
      BY <1>16, <1>same, <2>1, <2>2, <2>3 DEF EnqueueFails, Kept,
         lockVars, scanVars
  <1>17. ASSUME NEW w \in Workers, Crash(w)
        PROVE  Kept
    <2>1. WorkersKept
      BY <1>17, <1>idle DEF Crash
    <2> QED
      BY <1>17, <1>same, <2>1 DEF Crash, Kept, lockVars, scanVars
  <1>18. ASSUME NEW j \in Jobs, ResumeEnqueueFails(j)
        PROVE  Kept
    <2>1. JobsKept /\ LocksKept
      BY <1>18, FailureKeeps DEF ResumeEnqueueFails
    <2> QED
      BY <1>18, <1>same, <2>1 DEF ResumeEnqueueFails, Kept, lockVars,
         scanVars
  <1>19. ASSUME NEW j \in Jobs, LeaseExpires(j)
        PROVE  Kept
    <2>1. LocksKept
      BY <1>19, <1>lock DEF LeaseExpires, LocksKept, Lock
    <2> QED
      BY <1>19, <1>same, <2>1 DEF LeaseExpires, Kept, lockVars, scanVars
  <1>20. ASSUME NEW p \in Projects, NEW f \in Files, AnalysisSave(p, f)
        PROVE  Kept
    <2> QED
      BY <1>20, <1>same DEF AnalysisSave, Kept, lockVars, scanVars
  <1>21. CASE UNCHANGED vars
    BY <1>21, <1>same DEF Kept, vars
  <1> QED
    BY <1>1, <1>2, <1>3, <1>4, <1>5, <1>6, <1>7, <1>8, <1>9, <1>10, <1>11,
       <1>12, <1>13, <1>14, <1>15, <1>16, <1>17, <1>18, <1>19, <1>20,
       <1>21 DEF Next, Step

-----------------------------------------------------------------------------
(* Ownership is inductive *)

(* A step that keeps who owns what keeps ownership. *)
LEMMA OwnershipKept ==
    ASSUME TypeOK, Ownership, Kept
    PROVE  Ownership'
  <1> USE DEF Kept, Running
  <1>1. \A w \in Workers : worker'[w].pc # "idle" => worker[w].job \in Jobs
    BY DEF Ownership, Bound, WorkersKept
  <1>2. Bound'
    BY <1>1 DEF Ownership, Bound, JobsKept, WorkersKept
  <1>3. \A r \in Resources : lock[r].job \in Jobs \cup {NoJob}
    BY DEF TypeOK, Lock
  <1>4. LocksOfActive'
    BY <1>3 DEF Ownership, LocksOfActive, JobsKept, LocksKept
  <1>5. FencesBounded'
    BY <1>1 DEF Ownership, FencesBounded, JobsKept, FencesKept, WorkersKept
  <1>6. LeaseMatchesFence'
    <2>1. \A w \in Workers : worker'[w].pc # "idle" =>
            /\ worker[w].pc # "idle"
            /\ worker'[w].job = worker[w].job
            /\ Stale(w)' <=> Stale(w)
            /\ worker'[w].owner = worker[w].owner
            /\ job'[worker[w].job].owner = job[worker[w].job].owner
      BY <1>1 DEF Stale, JobsKept, FencesKept, WorkersKept
    <2> QED
      BY <2>1 DEF Ownership, LeaseMatchesFence
  <1> QED
    BY <1>2, <1>4, <1>5, <1>6 DEF Ownership

(* What create and reclaim have in common: a callback w starts on job j     *)
(* with a fresh owner token and a fresh fencing token.                      *)
Starts(w, j, R, owner, fence) ==
    /\ \A i \in Jobs : i # j =>
         /\ job'[i].state = job[i].state /\ job'[i].scan = job[i].scan
         /\ job'[i].owner = job[i].owner /\ job'[i].resources = job[i].resources
         /\ ckpt'[i].fence = ckpt[i].fence
    /\ job'[j].state \in Active /\ job'[j].scan \in Scans
    /\ job'[j].owner = owner /\ job'[j].resources = R
    /\ ckpt'[j].fence = fence
    /\ \A v \in Workers : v # w => worker'[v] = worker[v]
    /\ worker'[w].pc = "load" /\ worker'[w].job = j
    /\ worker'[w].owner = owner /\ worker'[w].fence = fence
    /\ \A r \in Resources : nextToken[r] <= nextToken'[r]
    /\ fence = nextToken'[Min(R)]
    /\ \A r \in R : lock'[r].job = j /\ lock'[r].owner = owner
    /\ \A r \in Resources \ R : lock'[r] = lock[r]

(* What a callback finds when it starts: whoever runs or ran the job has    *)
(* lower tokens, and the job's locks are among those it takes.              *)
Fresh(w, j, R, owner, fence) ==
    /\ \A v \in Workers \ {w} : Running(v) /\ worker[v].job = j =>
         worker[v].owner < owner /\ worker[v].fence < fence
    /\ \A r \in Resources : lock[r].job = j => r \in R

(* A callback that starts with fresh tokens becomes the only owner. *)
LEMMA OwnershipStarts ==
    ASSUME TypeOK, Ownership, NEW w \in Workers, NEW j \in Jobs, NEW R \in ResourceSets,
           NEW owner \in Nat, NEW fence \in Nat,
           Starts(w, j, R, owner, fence), Fresh(w, j, R, owner, fence), TypeOK'
    PROVE  Ownership'
  <1> USE DEF Starts
  <1>r. R \subseteq Resources /\ Min(R) \in Resources
    BY FirstResource
  <1>t. /\ nextToken \in [Resources -> Nat] /\ nextToken' \in [Resources -> Nat]
        /\ \A i \in Jobs : ckpt[i].fence \in Nat /\ job[i].owner \in Nat
        /\ \A v \in Workers : worker[v].fence \in Nat /\ worker[v].owner \in Nat
    BY DEF TypeOK, Checkpoint, Job, Worker
  <1>o. /\ \A v \in Workers \ {w} : Running(v) =>
             /\ worker[v].job \in Jobs /\ job[worker[v].job].state # "none"
             /\ worker[v].owner <= job[worker[v].job].owner
             /\ worker[v].fence <= ckpt[worker[v].job].fence
        /\ \A i \in Jobs : job[i].state # "none" =>
             /\ job[i].scan \in Scans /\ job[i].resources \in ResourceSets
             /\ ckpt[i].fence <= nextToken[Min(job[i].resources)]
    BY DEF Ownership, Bound, FencesBounded
  <1>2. Bound'
    BY <1>o DEF Bound, Running, Active
  <1>3. \A r \in Resources : lock[r].job \in Jobs \cup {NoJob}
    BY DEF TypeOK, Lock
  <1>4. LocksOfActive'
    <2> SUFFICES ASSUME NEW r \in Resources, lock'[r].job # NoJob
                 PROVE  /\ job'[lock'[r].job].state \in Active
                        /\ lock'[r].owner = job'[lock'[r].job].owner
                        /\ r \in job'[lock'[r].job].resources
      BY DEF LocksOfActive
    <2>1. CASE r \in R
      BY <2>1
    <2>2. CASE r \notin R
      BY <1>3, <2>2 DEF Ownership, LocksOfActive, Fresh
    <2> QED
      BY <2>1, <2>2
  <1>5. FencesBounded'
    <2>1. ASSUME NEW i \in Jobs, job'[i].state # "none"
          PROVE  ckpt'[i].fence <= nextToken'[Min(job'[i].resources)]
      <3>1. CASE i = j
        BY <1>r, <1>t, <3>1
      <3>2. CASE i # j
        <4>1. /\ ckpt'[i].fence <= nextToken[Min(job[i].resources)]
              /\ Min(job[i].resources) \in Resources
              /\ job'[i].resources = job[i].resources
              /\ ckpt'[i].fence \in Nat
          BY <1>o, <1>t, <2>1, <3>2, FirstResource
        <4> QED
          BY <1>t, <4>1
      <3> QED
        BY <3>1, <3>2
    <2>2. ASSUME NEW v \in Workers, worker'[v].pc # "idle"
          PROVE  /\ worker'[v].owner <= job'[worker'[v].job].owner
                 /\ worker'[v].fence <= ckpt'[worker'[v].job].fence
      <3>1. CASE v = w
        BY <3>1
      <3>2. CASE v # w /\ worker[v].job # j
        BY <1>o, <2>2, <3>2 DEF Running
      <3>3. CASE v # w /\ worker[v].job = j
        BY <1>t, <2>2, <3>3 DEF Fresh, Running
      <3> QED
        BY <3>1, <3>2, <3>3
    <2> QED
      BY <2>1, <2>2 DEF FencesBounded, Running
  <1>6. LeaseMatchesFence'
    <2>1. \A v \in Workers \ {w} : Running(v)' =>
            /\ Running(v) /\ worker'[v] = worker[v]
            /\ worker[v].job = j =>
                 worker'[v].owner # job'[j].owner /\ Stale(v)'
            /\ worker[v].job # j =>
                 (Stale(v)' <=> Stale(v)) /\ job'[worker[v].job].owner = job[worker[v].job].owner
      BY <1>o, <1>t DEF Running, Stale, Fresh
    <2>2. Running(w)' /\ ~Stale(w)' /\ worker'[w].owner = job'[worker'[w].job].owner
      BY DEF Running, Stale
    <2>3. \A v \in Workers : Running(v)' =>
            (worker'[v].owner = job'[worker'[v].job].owner <=> ~Stale(v)')
      BY <2>1, <2>2 DEF Ownership, LeaseMatchesFence
    <2>4. ASSUME NEW u \in Workers, NEW v \in Workers, Running(u)', Running(v)',
                 ~Stale(u)', ~Stale(v)', worker'[u].job = worker'[v].job
          PROVE  u = v
      <3>1. CASE u = w \/ v = w
        BY <2>1, <2>4, <3>1
      <3>2. CASE u # w /\ v # w
        BY <2>1, <2>4, <3>2 DEF Ownership, LeaseMatchesFence
      <3> QED
        BY <3>1, <3>2
    <2> QED
      BY <2>3, <2>4 DEF LeaseMatchesFence
  <1> QED
    BY <1>2, <1>4, <1>5, <1>6 DEF Ownership

(* Every step keeps ownership. *)
LEMMA OwnershipStep ==
    ASSUME TypeOK, Ownership
    PROVE  [Next]_vars => Ownership'
  <1>t. nextToken \in [Resources -> Nat]
    BY DEF TypeOK
  <1>lock. lock \in [Resources -> Lock]
    BY DEF TypeOK
  <1>job. job \in [Jobs -> Job]
    BY DEF TypeOK
  <1>ckpt. ckpt \in [Jobs -> Checkpoint]
    BY DEF TypeOK
  <1>worker. worker \in [Workers -> Worker]
    BY DEF TypeOK
  <1>idle. Idle \in Worker
    BY InitialRows
  <1>1. ASSUME NEW w \in Workers, NEW j \in Jobs, NEW s \in Scans, NEW R \in ResourceSets,
               Create(w, j, s, R), TypeOK'
        PROVE  Ownership'
    <2>1. /\ job' = [job EXCEPT ![j] = [state |-> "queued", owner |-> 1, scan |-> s,
                                       resources |-> R, pred |-> proj[ProjectOf[s]].current,
                                       version |-> proj[ProjectOf[s]].version + 1]]
          /\ ckpt' = [ckpt EXCEPT ![j] = [phase |-> LOCKED, seq |-> 0, fence |-> FirstToken(R),
                                         batch |-> 0, readSet |-> NothingRead]]
          /\ job[j].state = "none"
          /\ AcquireAll(R, j, 1)
      BY <1>1 DEF Create
    <2>2. /\ \A i \in Jobs : i # j => job'[i] = job[i] /\ ckpt'[i] = ckpt[i]
          /\ job'[j].state = "queued" /\ job'[j].scan = s /\ job'[j].owner = 1
          /\ job'[j].resources = R /\ ckpt'[j].fence = FirstToken(R)
      BY <1>job, <1>ckpt, <2>1
    <2>3. worker' = [worker EXCEPT ![w] = [Idle EXCEPT !.pc = "load", !.job = j,
                                                        !.owner = 1, !.fence = FirstToken(R)]]
      BY <1>1 DEF Create
    <2>4. /\ \A v \in Workers : v # w => worker'[v] = worker[v]
          /\ worker'[w].pc = "load" /\ worker'[w].job = j
          /\ worker'[w].owner = 1 /\ worker'[w].fence = FirstToken(R)
      BY <1>worker, <1>idle, <2>3 DEF Worker
    <2>5. FirstToken(R) \in Nat /\ R \subseteq Resources /\ Min(R) \in R
      BY <1>t, FirstTokenType, FirstResource
    <2>6. /\ \A r \in Resources : nextToken[r] <= nextToken'[r]
          /\ FirstToken(R) = nextToken'[Min(R)]
          /\ \A r \in R : lock'[r].job = j /\ lock'[r].owner = 1
          /\ \A r \in Resources \ R : lock'[r] = lock[r]
      BY <1>t, <1>lock, <2>1, <2>5 DEF AcquireAll, FirstToken
    <2>7. Starts(w, j, R, 1, FirstToken(R))
      BY <2>2, <2>4, <2>6 DEF Starts, Active
    <2>8. Fresh(w, j, R, 1, FirstToken(R))
      BY <2>1, NoneAssumption DEF Fresh, Ownership, Bound, LocksOfActive, Active
    <2> QED
      BY <1>1, <2>5, <2>7, <2>8, OwnershipStarts
  <1>2. ASSUME NEW w \in Workers, NEW j \in Jobs, Reclaim(w, j), TypeOK'
        PROVE  Ownership'
    <2> DEFINE R == job[j].resources
               owner == job[j].owner + 1
    <2>1. /\ job' = [job EXCEPT ![j].state = "running", ![j].owner = owner]
          /\ ckpt' = [ckpt EXCEPT ![j].fence = FirstToken(R)]
          /\ ckpt[j].fence < FirstToken(R)
          /\ job[j].state \in Active
          /\ AcquireAll(R, j, owner)
      BY <1>2 DEF Reclaim, ClaimFencing
    <2>2. /\ \A i \in Jobs : i # j => job'[i] = job[i] /\ ckpt'[i].fence = ckpt[i].fence
          /\ job'[j].state = "running" /\ job'[j].scan = job[j].scan
          /\ job'[j].resources = R /\ ckpt'[j].fence = FirstToken(R)
      BY <1>job, <1>ckpt, <2>1 DEF Job, Checkpoint
    <2>3. job'[j].owner = owner
      BY <1>job, <2>1 DEF Job
    <2>4. worker' = [worker EXCEPT ![w] = [Idle EXCEPT !.pc = "load", !.job = j,
                                                        !.owner = owner, !.fence = FirstToken(R)]]
      BY <1>2 DEF Reclaim
    <2>5. R \in ResourceSets /\ job[j].scan \in Scans /\ job[j].owner \in Nat
      BY <1>job, <2>1 DEF Ownership, Bound, Active, Job
    <2>6. FirstToken(R) \in Nat /\ R \subseteq Resources /\ Min(R) \in R /\ owner \in Nat
      BY <1>t, <2>5, FirstTokenType, FirstResource
    <2> HIDE DEF owner
    <2>7. /\ \A v \in Workers : v # w => worker'[v] = worker[v]
          /\ worker'[w].pc = "load" /\ worker'[w].job = j
          /\ worker'[w].owner = owner /\ worker'[w].fence = FirstToken(R)
      BY <1>worker, <1>idle, <2>4 DEF Worker
    <2>8. /\ \A r \in Resources : nextToken[r] <= nextToken'[r]
          /\ FirstToken(R) = nextToken'[Min(R)]
          /\ \A r \in R : lock'[r].job = j /\ lock'[r].owner = owner
          /\ \A r \in Resources \ R : lock'[r] = lock[r]
      BY <1>t, <1>lock, <2>1, <2>6 DEF AcquireAll, FirstToken
    <2>9. Starts(w, j, R, owner, FirstToken(R))
      BY <2>2, <2>3, <2>5, <2>7, <2>8 DEF Starts, Active
    <2>10. \A v \in Workers : Running(v) /\ worker[v].job = j =>
             worker[v].owner < owner /\ worker[v].fence < FirstToken(R)
      <3>1. \A v \in Workers : worker[v].owner \in Nat /\ worker[v].fence \in Nat
        BY <1>worker DEF Worker
      <3>2. ckpt[j].fence \in Nat
        BY <1>ckpt DEF Checkpoint
      <3> QED
        BY <2>1, <2>5, <2>6, <3>1, <3>2 DEF Ownership, FencesBounded, owner
    <2>11. Fresh(w, j, R, owner, FirstToken(R))
      BY <2>10, NoneAssumption DEF Fresh, Ownership, LocksOfActive
    <2> QED
      BY <1>2, <2>5, <2>6, <2>9, <2>11, OwnershipStarts
  <1>3. [Next]_vars => TypeOK'
    BY TypeStep DEF Ownership
  <1>4. [Next]_vars =>
             \/ \E w \in Workers, j \in Jobs, s \in Scans, R \in ResourceSets : Create(w, j, s, R)
             \/ \E w \in Workers, j \in Jobs : Reclaim(w, j)
             \/ Kept
    BY KeptStep DEF Ownership
  <1> QED
    BY <1>1, <1>2, <1>3, <1>4, OwnershipKept

-----------------------------------------------------------------------------
(* Checkpoints, facts and CURRENT *)

(* An import carries the positive data version it was created with, and its *)
(* scan has a projection once the consistency phase is committed.           *)
PhaseInv ==
    \A j \in Jobs : job[j].state # "none" =>
        /\ job[j].version > 0
        /\ ckpt[j].phase \in CONSISTENCY_VERIFIED .. SEALED => rows[job[j].scan] # 0

Content == CheckpointMatchesFacts /\ PhaseInv /\ CurrentIsComplete

(* What no step takes away from a created import. *)
JobsSame ==
    \A j \in Jobs : job'[j].state # "none" =>
        job[j].state # "none" /\ job'[j].scan = job[j].scan /\ job'[j].version = job[j].version

RowsKept == \A s \in Scans : rows[s] # 0 => rows'[s] # 0

(* The scans that are CURRENT stay as they are. *)
CurrentKept ==
    \A p \in Projects :
        /\ proj'[p].current = proj[p].current
        /\ proj[p].current # NoScan =>
             /\ scan'[proj[p].current].status = scan[proj[p].current].status
             /\ facts'[proj[p].current] = facts[proj[p].current]

(* A CURRENT that is left as it is stays complete. *)
LEMMA CurrentStaysComplete ==
    ASSUME TypeOK, CurrentIsComplete, CurrentKept, RowsKept
    PROVE  CurrentIsComplete'
  <1>1. \A p \in Projects : proj[p].current \in Scans \cup {NoScan}
    BY DEF TypeOK, ProjectState
  <1> QED
    BY <1>1 DEF CurrentIsComplete, CurrentKept, RowsKept

(* A step that touches no checkpoint keeps them in line with the facts. *)
LEMMA CheckpointsStay ==
    ASSUME TypeOK, Bound, Content, JobsSame, RowsKept, UNCHANGED facts,
           \A j \in Jobs : /\ ckpt'[j].phase = ckpt[j].phase
                           /\ ckpt'[j].seq = ckpt[j].seq
                           /\ ckpt'[j].batch = ckpt[j].batch
    PROVE  CheckpointMatchesFacts' /\ PhaseInv'
  <1>1. CheckpointMatchesFacts'
    BY DEF Content, CheckpointMatchesFacts, JobsSame
  <1>2. PhaseInv'
    BY DEF Content, PhaseInv, JobsSame, RowsKept, Bound
  <1> QED
    BY <1>1, <1>2

(* A phase of job j is committed. *)
Advances(j) ==
    /\ UNCHANGED <<job, facts>>
    /\ ckpt'[j].phase = ckpt[j].phase + 1
    /\ ckpt'[j].seq = ckpt[j].seq + 1
    /\ ckpt'[j].batch = ckpt[j].batch
    /\ \A i \in Jobs : i # j => ckpt'[i] = ckpt[i]
    /\ ckpt'[j].phase = COVERAGE_IMPORTED => facts[job[j].scan] = Batches
    /\ ckpt'[j].phase = CONSISTENCY_VERIFIED => rows'[job[j].scan] # 0

(* A committed phase keeps the checkpoints in line with the facts. *)
LEMMA CheckpointsAdvance ==
    ASSUME TypeOK, Bound, Content, NEW j \in Jobs, job[j].state # "none", Advances(j), RowsKept
    PROVE  CheckpointMatchesFacts' /\ PhaseInv'
  <1>ckpt. ckpt \in [Jobs -> Checkpoint]
    BY DEF TypeOK
  <1>1. \A i \in Jobs : ckpt[i].phase \in Int /\ ckpt[i].seq \in Int /\ ckpt[i].batch \in Int
    BY <1>ckpt, BoundsAssumption DEF Checkpoint, Phases, LOCKED, PUBLISHED
  <1>2. job' = job /\ facts' = facts
    BY DEF Advances
  <1>3. CheckpointMatchesFacts'
    <2> SUFFICES ASSUME NEW i \in Jobs, job[i].state # "none", ckpt'[i].phase < PUBLISHED
                 PROVE  /\ 1 .. ckpt'[i].batch \subseteq facts[job[i].scan]
                        /\ ckpt'[i].seq = ckpt'[i].phase + ckpt'[i].batch
                        /\ ckpt'[i].phase >= COVERAGE_IMPORTED => facts[job[i].scan] = Batches
      BY <1>2 DEF CheckpointMatchesFacts
    <2>1. CASE i # j
      BY <2>1 DEF Content, CheckpointMatchesFacts, Advances
    <2>2. CASE i = j
      <3>1. ckpt[j].phase < PUBLISHED
        BY <1>1, <2>2 DEF Advances, PUBLISHED
      <3>2. /\ 1 .. ckpt[j].batch \subseteq facts[job[j].scan]
            /\ ckpt[j].seq = ckpt[j].phase + ckpt[j].batch
            /\ ckpt[j].phase >= COVERAGE_IMPORTED => facts[job[j].scan] = Batches
        BY <2>2, <3>1 DEF Content, CheckpointMatchesFacts
      <3> QED
        BY <1>1, <2>2, <3>2 DEF Advances, COVERAGE_IMPORTED
    <2> QED
      BY <2>1, <2>2
  <1>4. PhaseInv'
    <2> SUFFICES ASSUME NEW i \in Jobs, job[i].state # "none"
                 PROVE  /\ job[i].version > 0
                        /\ ckpt'[i].phase \in CONSISTENCY_VERIFIED .. SEALED =>
                             rows'[job[i].scan] # 0
      BY <1>2 DEF PhaseInv
    <2>1. job[i].scan \in Scans /\ job[i].version > 0
      BY DEF Bound, Content, PhaseInv
    <2>2. CASE i # j
      BY <2>1, <2>2 DEF Content, PhaseInv, Advances, RowsKept
    <2>3. CASE i = j
      BY <1>1, <2>1, <2>3 DEF Content, PhaseInv, Advances, RowsKept,
         CONSISTENCY_VERIFIED, SEALED
    <2> QED
      BY <2>2, <2>3
  <1> QED
    BY <1>3, <1>4

(* record_failure leaves CURRENT alone. *)
LEMMA FailureSparesCurrent ==
    ASSUME TypeOK, CurrentIsComplete, NEW j \in Jobs, NEW owner, NEW verdict,
           RecordFailure(j, owner, verdict), UNCHANGED <<facts, rows, proj>>
    PROVE  CurrentIsComplete'
  <1>1. scan \in [Scans -> Scan]
    BY DEF TypeOK
  <1>2. CASE UNCHANGED scan
    BY <1>2 DEF CurrentIsComplete
  <1>3. CASE MayFail(job[j].scan) /\ scan' = [scan EXCEPT ![job[j].scan].status = verdict]
    BY <1>1, <1>3 DEF CurrentIsComplete, MayFail
  <1> QED
    BY <1>2, <1>3 DEF RecordFailure

(* Every step keeps checkpoints, facts and CURRENT in line. *)
LEMMA ContentStep ==
    ASSUME TypeOK, Ownership, Content
    PROVE  [Next]_vars => Content'
  <1>rows. rows \in [Scans -> Nat]
    BY DEF TypeOK
  <1>job. job \in [Jobs -> Job]
    BY DEF TypeOK
  <1>ckpt. ckpt \in [Jobs -> Checkpoint]
    BY DEF TypeOK
  <1>scan. scan \in [Scans -> Scan]
    BY DEF TypeOK
  <1>facts. facts \in [Scans -> SUBSET Batches]
    BY DEF TypeOK
  <1>proj. proj \in [Projects -> ProjectState]
    BY DEF TypeOK
  <1>bound. /\ Bound
            /\ \A w \in Workers : worker[w].pc # "idle" =>
                 /\ worker[w].job \in Jobs
                 /\ job[worker[w].job].state # "none"
                 /\ job[worker[w].job].scan \in Scans
    BY DEF Ownership, Bound, Running
  <1>current. \A p \in Projects : LET s == proj[p].current IN
                s # NoScan => s \in Scans /\ scan[s].status = "SEALED" /\ facts[s] = Batches
    BY <1>proj DEF Content, CurrentIsComplete, ProjectState
  <1>idle. UNCHANGED <<job, ckpt, scan, facts, rows, proj>> => Content'
    BY DEF Content, CheckpointMatchesFacts, PhaseInv, CurrentIsComplete
  <1>same. (\A j \in Jobs : ckpt'[j].phase = ckpt[j].phase /\ ckpt'[j].seq = ckpt[j].seq
                             /\ ckpt'[j].batch = ckpt[j].batch)
           /\ JobsSame /\ RowsKept /\ UNCHANGED facts
           => CheckpointMatchesFacts' /\ PhaseInv'
    BY <1>bound, CheckpointsStay
  <1>1. ASSUME NEW w \in Workers, NEW j \in Jobs, NEW s \in Scans, NEW R \in ResourceSets,
               Create(w, j, s, R)
        PROVE  Content'
    <2>1. /\ job' = [job EXCEPT ![j] = [state |-> "queued", owner |-> 1, scan |-> s,
                                       resources |-> R, pred |-> proj[ProjectOf[s]].current,
                                       version |-> proj[ProjectOf[s]].version + 1]]
          /\ ckpt' = [ckpt EXCEPT ![j] = [phase |-> LOCKED, seq |-> 0, fence |-> FirstToken(R),
                                         batch |-> 0, readSet |-> NothingRead]]
          /\ facts' = facts /\ rows' = rows
      BY <1>1 DEF Create
    <2>2. proj[ProjectOf[s]].version \in Nat
      BY <1>proj, ProjectOfAssumption DEF ProjectState
    <2>3. /\ \A i \in Jobs : i # j => job'[i] = job[i] /\ ckpt'[i] = ckpt[i]
          /\ job'[j].version > 0 /\ ckpt'[j].phase = LOCKED
          /\ ckpt'[j].seq = 0 /\ ckpt'[j].batch = 0
      BY <1>job, <1>ckpt, <2>1, <2>2
    <2>4. CheckpointMatchesFacts'
      BY <2>1, <2>3 DEF Content, CheckpointMatchesFacts, LOCKED, COVERAGE_IMPORTED
    <2>5. PhaseInv'
      BY <2>1, <2>3 DEF Content, PhaseInv, LOCKED, CONSISTENCY_VERIFIED, SEALED
    <2>6. CurrentKept
      <3>1. \A p \in Projects : proj'[p].current = proj[p].current
        BY <1>1, <1>proj DEF Create, ProjectState
      <3>2. scan' = scan \/ (scan[s].status = "none" /\ \A i \in Scans : i # s => scan'[i] = scan[i])
        BY <1>1, <1>scan DEF Create
      <3> QED
        BY <1>current, <2>1, <3>1, <3>2 DEF CurrentKept
    <2> QED
      BY <2>1, <2>4, <2>5, <2>6, CurrentStaysComplete DEF Content, RowsKept
  <1>2. ASSUME NEW w \in Workers, NEW j \in Jobs, Reclaim(w, j)
        PROVE  Content'
    <2>1. /\ job' = [job EXCEPT ![j].state = "running", ![j].owner = job[j].owner + 1]
          /\ ckpt' = [ckpt EXCEPT ![j].fence = FirstToken(job[j].resources)]
          /\ job[j].state # "none"
          /\ UNCHANGED <<scan, facts, rows, proj>>
      BY <1>2 DEF Reclaim, ClaimFencing, Active, scanVars
    <2>2. JobsSame /\ RowsKept
      BY <1>job, <2>1 DEF JobsSame, RowsKept, Job
    <2>3. \A i \in Jobs : ckpt'[i].phase = ckpt[i].phase /\ ckpt'[i].seq = ckpt[i].seq
                             /\ ckpt'[i].batch = ckpt[i].batch
      BY <1>ckpt, <2>1 DEF Checkpoint
    <2> QED
      BY <1>same, <2>1, <2>2, <2>3 DEF Content, CurrentIsComplete
  <1>3. ASSUME NEW j \in Jobs, NEW owner, NEW verdict, RecordFailure(j, owner, verdict),
               UNCHANGED <<ckpt, facts, rows, proj>>
        PROVE  Content'
    <2>1. JobsKept
      BY <1>3, FailureKeeps DEF Ownership
    <2>2. JobsSame /\ RowsKept
      BY <1>3, <2>1 DEF JobsKept, JobsSame, RowsKept
    <2> QED
      BY <1>3, <1>same, <2>2, FailureSparesCurrent DEF Content
  <1>4. ASSUME NEW w \in Workers, RunPlainPhase(w)
        PROVE  Content'
    <2> DEFINE j == worker[w].job
    <2>1. /\ j \in Jobs /\ job[j].state # "none" /\ job[j].scan \in Scans
          /\ UNCHANGED <<job, facts, rows>>
      BY <1>4, <1>bound DEF RunPlainPhase, RunsNext, AtPhase, scanVars
    <2>2. /\ ckpt'[j].phase = ckpt[j].phase + 1 /\ ckpt'[j].seq = ckpt[j].seq + 1
          /\ ckpt'[j].batch = ckpt[j].batch
          /\ \A i \in Jobs : i # j => ckpt'[i] = ckpt[i]
      BY <1>4, <1>ckpt, <2>1 DEF RunPlainPhase, Advance, Checkpoint
    <2>3. ckpt'[j].phase \notin {COVERAGE_IMPORTED, CONSISTENCY_VERIFIED}
      BY <1>4, <1>rows, <2>1, <2>2 DEF RunPlainPhase, RunsNext, PlainPhases, SCAN_CREATED,
         INFO_STAGED, COVERAGE_IMPORTED, GIT_VERIFIED, SOURCE_PREPARED, LINE_MAP_BUILT,
         STATS_REBUILT, CONSISTENCY_VERIFIED
    <2>4. RowsKept
      BY <1>rows, <2>1 DEF RowsKept
    <2>5. CheckpointMatchesFacts' /\ PhaseInv'
      BY <1>bound, <2>1, <2>2, <2>3, <2>4, CheckpointsAdvance DEF Advances
    <2>6. CurrentKept
      BY <1>4, <2>1 DEF RunPlainPhase, CurrentKept, scanVars
    <2> QED
      BY <2>4, <2>5, <2>6, CurrentStaysComplete DEF Content
  <1>5. ASSUME NEW w \in Workers, FinalizeCoverage(w)
        PROVE  Content'
    <2> DEFINE j == worker[w].job
    <2>1. /\ j \in Jobs /\ job[j].state # "none" /\ job[j].scan \in Scans
          /\ UNCHANGED <<job, facts, rows>>
      BY <1>5, <1>bound DEF FinalizeCoverage, RunsNext, AtPhase, scanVars
    <2>2. /\ ckpt'[j].phase = ckpt[j].phase + 1 /\ ckpt'[j].seq = ckpt[j].seq + 1
          /\ ckpt'[j].batch = ckpt[j].batch
          /\ \A i \in Jobs : i # j => ckpt'[i] = ckpt[i]
      BY <1>5, <1>ckpt, <2>1 DEF FinalizeCoverage, Advance, Checkpoint
    <2>3. ckpt'[j].phase # CONSISTENCY_VERIFIED /\ facts[job[j].scan] = Batches
      BY <1>5, <1>rows, <2>1, <2>2 DEF FinalizeCoverage, RunsNext, COVERAGE_IMPORTED, CONSISTENCY_VERIFIED
    <2>4. RowsKept
      BY <1>rows, <2>1 DEF RowsKept
    <2>5. CheckpointMatchesFacts' /\ PhaseInv'
      BY <1>bound, <2>1, <2>2, <2>3, <2>4, CheckpointsAdvance DEF Advances
    <2>6. CurrentKept
      BY <1>5, <2>1 DEF FinalizeCoverage, CurrentKept, scanVars
    <2> QED
      BY <2>4, <2>5, <2>6, CurrentStaysComplete DEF Content
  <1>6. ASSUME NEW w \in Workers, ComputeInheritance(w)
        PROVE  Content'
    <2> DEFINE j == worker[w].job
    <2>1. /\ j \in Jobs /\ job[j].state # "none" /\ job[j].scan \in Scans
          /\ UNCHANGED <<job, facts, rows>>
      BY <1>6, <1>bound DEF ComputeInheritance, RunsNext, AtPhase, scanVars
    <2>2. /\ ckpt'[j].phase = ckpt[j].phase + 1 /\ ckpt'[j].seq = ckpt[j].seq + 1
          /\ ckpt'[j].batch = ckpt[j].batch
          /\ \A i \in Jobs : i # j => ckpt'[i] = ckpt[i]
      BY <1>6, <1>ckpt, <2>1 DEF ComputeInheritance, Checkpoint
    <2>3. ckpt'[j].phase \notin {COVERAGE_IMPORTED, CONSISTENCY_VERIFIED}
      <3>1. worker[w].target = INHERITANCE_COMPUTED /\ RunsNext(w)
        BY <1>6, Zenon DEF ComputeInheritance
      <3>2. ckpt[j].phase + 1 = worker[w].target
        BY <3>1, Zenon DEF RunsNext, AtPhase
      <3> QED
        BY <2>2, <3>1, <3>2 DEF COVERAGE_IMPORTED, INHERITANCE_COMPUTED, CONSISTENCY_VERIFIED
    <2>4. RowsKept
      BY <1>rows, <2>1 DEF RowsKept
    <2>5. CheckpointMatchesFacts' /\ PhaseInv'
      BY <1>bound, <2>1, <2>2, <2>3, <2>4, CheckpointsAdvance DEF Advances
    <2>6. CurrentKept
      BY <1>6, <2>1 DEF ComputeInheritance, CurrentKept, scanVars
    <2> QED
      BY <2>4, <2>5, <2>6, CurrentStaysComplete DEF Content
  <1>7. ASSUME NEW w \in Workers, VerifyConsistency(w)
        PROVE  Content'
    <2> DEFINE j == worker[w].job
    <2>1. /\ j \in Jobs /\ job[j].state # "none" /\ job[j].scan \in Scans
          /\ UNCHANGED <<job, facts>>
      BY <1>7, <1>bound DEF VerifyConsistency, RunsNext, AtPhase, scanVars
    <2>2. job[j].version # 0 /\ rows' = [rows EXCEPT ![job[j].scan] = job[j].version]
      <3>1. job[j].version \in Nat
        BY <1>job, <2>1 DEF Job
      <3>2. job[j].version > 0
        BY <2>1 DEF Content, PhaseInv
      <3>3. rows' = [rows EXCEPT ![job[j].scan] = job[j].version]
        BY <1>7 DEF VerifyConsistency
      <3> QED
        BY <3>1, <3>2, <3>3
    <2>3. /\ ckpt'[j].phase = ckpt[j].phase + 1 /\ ckpt'[j].seq = ckpt[j].seq + 1
          /\ ckpt'[j].batch = ckpt[j].batch
          /\ \A i \in Jobs : i # j => ckpt'[i] = ckpt[i]
      BY <1>7, <1>ckpt, <2>1 DEF VerifyConsistency, Advance, Checkpoint
    <2>4. ckpt'[j].phase # COVERAGE_IMPORTED /\ rows'[job[j].scan] # 0
      <3>1. rows'[job[j].scan] # 0
        BY <1>rows, <2>1, <2>2
      <3>2. ckpt'[j].phase # COVERAGE_IMPORTED
        <4>1. ckpt[j].phase + 1 = CONSISTENCY_VERIFIED
          BY <1>7 DEF VerifyConsistency, RunsNext
        <4> QED
          BY <2>3, <4>1 DEF COVERAGE_IMPORTED, CONSISTENCY_VERIFIED
      <3> QED
        BY <3>1, <3>2
    <2>5. RowsKept
      BY <1>rows, <2>1, <2>2 DEF RowsKept
    <2>6. CheckpointMatchesFacts' /\ PhaseInv'
      BY <1>bound, <2>1, <2>3, <2>4, <2>5, CheckpointsAdvance DEF Advances
    <2>7. CurrentKept
      BY <1>7, <1>proj, <2>1 DEF VerifyConsistency, CurrentKept, ProjectState
    <2> QED
      BY <2>5, <2>6, <2>7, CurrentStaysComplete DEF Content
  <1>8. ASSUME NEW w \in Workers, Seal(w)
        PROVE  Content'
    <2> DEFINE j == worker[w].job
    <2>1. /\ j \in Jobs /\ job[j].state # "none" /\ job[j].scan \in Scans
          /\ UNCHANGED <<job, facts, rows>>
      BY <1>8, <1>bound DEF Seal, scanVars
    <2>2. /\ ckpt'[j].phase = ckpt[j].phase + 1 /\ ckpt'[j].seq = ckpt[j].seq + 1
          /\ ckpt'[j].batch = ckpt[j].batch
          /\ \A i \in Jobs : i # j => ckpt'[i] = ckpt[i]
      BY <1>8, <1>ckpt, <2>1 DEF Seal, Advance, Checkpoint
    <2>3. ckpt'[j].phase \notin {COVERAGE_IMPORTED, CONSISTENCY_VERIFIED}
      BY <1>8, <1>rows, <2>1, <2>2 DEF Seal, COVERAGE_IMPORTED, CONSISTENCY_VERIFIED, SEALED
    <2>4. RowsKept
      BY <1>rows, <2>1 DEF RowsKept
    <2>5. CheckpointMatchesFacts' /\ PhaseInv'
      BY <1>bound, <2>1, <2>2, <2>3, <2>4, CheckpointsAdvance DEF Advances
    <2>6. CurrentKept
      BY <1>8, <1>scan, <1>current, <2>1 DEF Seal, CurrentKept, Scan
    <2> QED
      BY <2>4, <2>5, <2>6, CurrentStaysComplete DEF Content
  <1>9. ASSUME NEW w \in Workers, IngestBatch(w)
        PROVE  Content'
    <2> DEFINE j == worker[w].job
               s == job[j].scan
               b == ckpt[j].batch + 1
    <2>1. /\ j \in Jobs /\ job[j].state # "none" /\ s \in Scans
          /\ UNCHANGED <<job, scan, rows, proj>>
      BY <1>9, <1>bound DEF IngestBatch
    <2>2. /\ worker[w].batch + 1 = b
          /\ ckpt[j].phase = INFO_STAGED
          /\ scan[s].status = "IMPORTING"
          /\ facts' = [facts EXCEPT ![s] = @ \cup {b}]
          /\ ckpt' = [ckpt EXCEPT ![j].batch = b, ![j].seq = @ + 1]
      BY <1>9 DEF IngestBatch, StoreFacts
    <2>3. /\ ckpt'[j].phase = INFO_STAGED /\ ckpt'[j].seq = ckpt[j].seq + 1 /\ ckpt'[j].batch = b
          /\ \A i \in Jobs : i # j => ckpt'[i] = ckpt[i]
      BY <1>ckpt, <2>1, <2>2 DEF Checkpoint
    <2>4. /\ ckpt[j].batch \in Nat /\ ckpt[j].seq \in Nat
          /\ b \in Batches
      <3>1. worker \in [Workers -> Worker]
        BY DEF TypeOK
      <3> QED
        BY <1>9, <1>ckpt, <2>1, <2>2, <3>1, BoundsAssumption
           DEF IngestBatch, Checkpoint, Worker, Batches
    <2>5. \A i \in Scans : facts[i] \subseteq facts'[i] /\ (facts[i] = Batches => facts'[i] = Batches)
      BY <1>facts, <2>1, <2>2, <2>4
    <2>6. CheckpointMatchesFacts'
      <3> SUFFICES ASSUME NEW i \in Jobs, job[i].state # "none", ckpt'[i].phase < PUBLISHED
                   PROVE  /\ 1 .. ckpt'[i].batch \subseteq facts'[job[i].scan]
                          /\ ckpt'[i].seq = ckpt'[i].phase + ckpt'[i].batch
                          /\ ckpt'[i].phase >= COVERAGE_IMPORTED => facts'[job[i].scan] = Batches
        BY <2>1 DEF CheckpointMatchesFacts
      <3>1. CASE i # j
        <4>1. /\ 1 .. ckpt[i].batch \subseteq facts[job[i].scan]
              /\ ckpt[i].seq = ckpt[i].phase + ckpt[i].batch
              /\ ckpt[i].phase >= COVERAGE_IMPORTED => facts[job[i].scan] = Batches
              /\ job[i].scan \in Scans
          BY <1>bound, <2>3, <3>1 DEF Bound, Content, CheckpointMatchesFacts
        <4> QED
          BY <2>3, <2>5, <3>1, <4>1
      <3>2. CASE i = j
        <4>1. /\ 1 .. ckpt[j].batch \subseteq facts[s]
              /\ ckpt[j].seq = ckpt[j].phase + ckpt[j].batch
          BY <2>1, <2>2 DEF Content, CheckpointMatchesFacts, INFO_STAGED, PUBLISHED
        <4>2. 1 .. b \subseteq facts'[s]
          <5>1. facts'[s] = facts[s] \cup {b}
            BY <1>facts, <2>1, <2>2
          <5>2. ASSUME NEW x \in 1 .. b
                PROVE  x \in 1 .. ckpt[j].batch \/ x = b
            BY <2>4
          <5> QED
            BY <4>1, <5>1, <5>2
        <4>3. ckpt[j].seq + 1 = INFO_STAGED + b
          <5>1. ckpt[j].phase = INFO_STAGED
            BY <2>2, Zenon
          <5> QED
            BY <2>4, <4>1, <5>1 DEF INFO_STAGED
        <4>4. ~(INFO_STAGED >= COVERAGE_IMPORTED)
          BY DEF INFO_STAGED, COVERAGE_IMPORTED
        <4> HIDE DEF b
        <4> QED
          BY <2>3, <3>2, <4>2, <4>3, <4>4
      <3> QED
        BY <3>1, <3>2
    <2>7. PhaseInv'
      BY <2>1, <2>3 DEF Content, PhaseInv, INFO_STAGED, CONSISTENCY_VERIFIED, SEALED
    <2>8. CurrentKept
      BY <1>current, <1>facts, <2>1, <2>2, <2>5 DEF CurrentKept
    <2> QED
      BY <2>1, <2>6, <2>7, <2>8, CurrentStaysComplete DEF Content, RowsKept
  <1>10. ASSUME NEW w \in Workers, PublishTransaction(w)
        PROVE  Content'
    <2> DEFINE j == worker[w].job
               s == job[j].scan
    <2>1. /\ j \in Jobs /\ job[j].state # "none" /\ s \in Scans
          /\ UNCHANGED <<scan, facts, rows>>
          /\ ckpt[j].phase = SEALED /\ scan[s].status = "SEALED"
      BY <1>10, <1>bound DEF PublishTransaction, scanVars
    <2>1a. proj' = [proj EXCEPT ![ProjectOf[s]].current = s]
      BY <1>10, Zenon DEF PublishTransaction
    <2>1b. job' = [job EXCEPT ![j].state = "completed"]
      BY <1>10, Zenon DEF PublishTransaction
    <2>2. JobsSame
      BY <1>job, <2>1, <2>1b DEF JobsSame, Job
    <2>3. /\ ckpt'[j].phase = PUBLISHED
          /\ \A i \in Jobs : i # j => ckpt'[i] = ckpt[i]
      <3>1. ckpt' = [ckpt EXCEPT ![j] = [ckpt[j] EXCEPT !.phase = PUBLISHED, !.seq = @ + 1,
                                                        !.batch = 0, !.readSet = NothingRead]]
        BY <1>10, <1>ckpt, <2>1 DEF PublishTransaction
      <3>2. [ckpt[j] EXCEPT !.phase = PUBLISHED, !.seq = @ + 1,
                            !.batch = 0, !.readSet = NothingRead].phase = PUBLISHED
        BY <1>ckpt, <2>1 DEF Checkpoint
      <3> QED
        BY <1>ckpt, <2>1, <3>1, <3>2
    <2>4. CheckpointMatchesFacts'
      BY <2>1, <2>2, <2>3 DEF Content, CheckpointMatchesFacts, JobsSame, PUBLISHED
    <2>5. PhaseInv'
      BY <2>1, <2>2, <2>3 DEF Content, PhaseInv, JobsSame, PUBLISHED, SEALED, CONSISTENCY_VERIFIED
    <2>6. facts[s] = Batches /\ rows[s] # 0
      BY <2>1 DEF Content, CheckpointMatchesFacts, PhaseInv, PUBLISHED, SEALED,
         CONSISTENCY_VERIFIED, COVERAGE_IMPORTED
    <2>7. CurrentIsComplete'
      <3>1. \A p \in Projects : proj'[p].current = IF p = ProjectOf[s] THEN s ELSE proj[p].current
        BY <1>proj, <2>1, <2>1a DEF ProjectState
      <3>2. ASSUME NEW p \in Projects, proj'[p].current # NoScan
            PROVE  LET c == proj'[p].current IN
                   ProjectOf[c] = p /\ scan'[c].status = "SEALED" /\ facts'[c] = Batches /\ rows'[c] # 0
        <4>1. CASE p = ProjectOf[s]
          BY <2>1, <2>6, <3>1, <4>1
        <4>2. CASE p # ProjectOf[s]
          BY <2>1, <3>1, <3>2, <4>2 DEF Content, CurrentIsComplete
        <4> QED
          BY <4>1, <4>2
      <3> QED
        BY <3>2 DEF CurrentIsComplete
    <2> QED
      BY <2>4, <2>5, <2>7 DEF Content
  <1>11. ASSUME NEW p \in Projects, NEW f \in Files, AnalysisSave(p, f)
        PROVE  Content'
    <2>1. /\ UNCHANGED <<job, ckpt, scan, facts>>
          /\ rows' = [rows EXCEPT ![proj[p].current] = proj[p].version + 1]
          /\ proj' = [proj EXCEPT ![p].version = proj[p].version + 1,
                                  ![p].ready = proj[p].version + 1]
      BY <1>11 DEF AnalysisSave
    <2>2. proj[p].version \in Nat
      BY <1>proj DEF ProjectState
    <2>3. JobsSame /\ RowsKept
      BY <1>rows, <2>1, <2>2 DEF JobsSame, RowsKept
    <2>4. CurrentKept
      BY <1>proj, <2>1 DEF CurrentKept, ProjectState
    <2> QED
      BY <1>same, <2>1, <2>3, <2>4, CurrentStaysComplete DEF Content
  <1>12. ASSUME NEW w \in Workers,
               \/ RecordPublishFailure(w) \/ HandleFailure(w) \/ EnqueueFails(w)
        PROVE  Content'
    BY <1>12, <1>3, <1>bound DEF RecordPublishFailure, HandleFailure, EnqueueFails
  <1>13. ASSUME NEW j \in Jobs, ResumeEnqueueFails(j)
        PROVE  Content'
    BY <1>13, <1>3 DEF ResumeEnqueueFails
  <1>14. ASSUME NEW w \in Workers,
               \/ Load(w) \/ SkipPhase(w) \/ ObserveOwner(w) \/ AlreadyPublished(w)
               \/ PublishRaises(w) \/ Raise(w) \/ Crash(w)
        PROVE  Content'
    BY <1>14, <1>idle DEF Load, SkipPhase, ObserveOwner, AlreadyPublished, PublishRaises,
       Raise, Crash, scanVars
  <1>15. ASSUME NEW j \in Jobs, LeaseExpires(j)
        PROVE  Content'
    BY <1>15, <1>idle DEF LeaseExpires, scanVars
  <1>16. CASE UNCHANGED vars
    BY <1>16, <1>idle DEF vars
  <1> QED
    BY <1>1, <1>2, <1>4, <1>5, <1>6, <1>7, <1>8, <1>9, <1>10, <1>11, <1>12, <1>13, <1>14, <1>15, <1>16 DEF Next, Step

-----------------------------------------------------------------------------
(* Theorems *)

Inv == TypeOK /\ Ownership /\ Content

(* An empty database satisfies the invariant. *)
LEMMA InitInv == Init => Inv
  <1> SUFFICES ASSUME Init PROVE Inv
    OBVIOUS
  <1> USE DEF Init
  <1>1. TypeOK
    <2>1. lock \in [Resources -> Lock] /\ worker \in [Workers -> Worker]
      BY InitialRows
    <2>2. job \in [Jobs -> Job]
      BY DEF Job
    <2>3. ckpt \in [Jobs -> Checkpoint]
      BY InitialRows, BoundsAssumption DEF Checkpoint, Phases, LOCKED, PUBLISHED
    <2>4. scan \in [Scans -> Scan] /\ proj \in [Projects -> ProjectState]
      BY DEF Scan, ProjectState
    <2>5. /\ nextToken \in [Resources -> Nat] /\ facts \in [Scans -> SUBSET Batches]
          /\ rows \in [Scans -> Nat] /\ carried \in [Scans -> [Files -> Nat]]
          /\ rev \in [Scans -> [Files -> Nat]]
      BY InitialRows
    <2> QED
      BY <2>1, <2>2, <2>3, <2>4, <2>5 DEF TypeOK
  <1>2. /\ \A j \in Jobs : job[j].state = "none"
        /\ \A w \in Workers : worker[w].pc = "idle"
        /\ \A r \in Resources : lock[r].job = NoJob
        /\ \A p \in Projects : proj[p].current = NoScan
    BY DEF Idle, NoLock
  <1>3. Ownership
    BY <1>2 DEF Ownership, Bound, LocksOfActive, FencesBounded, LeaseMatchesFence, Running
  <1>4. Content
    BY <1>2 DEF Content, CheckpointMatchesFacts, PhaseInv, CurrentIsComplete
  <1> QED
    BY <1>1, <1>3, <1>4 DEF Inv

(* Every step keeps the invariant. *)
LEMMA StepInv == Inv /\ [Next]_vars => Inv'
  BY TypeStep, OwnershipStep, ContentStep DEF Inv, Ownership

(* The three parts of the inductive invariant hold in every reachable state. *)
THEOREM Invariant == Spec => []Inv
  BY InitInv, StepInv, PTL DEF Spec

(* The rows of the database and the callbacks' local state keep their types *)
(* for every number of imports, threads, repositories and batches.          *)
THEOREM TypeCorrect == Spec => []TypeOK
  <1>1. Inv => TypeOK
    BY DEF Inv
  <1> QED
    BY Invariant, <1>1, PTL

(* reclaim and claim_fencing keep the job's lease and the checkpoint's      *)
(* token together: one callback holds both, every superseded one neither.   *)
THEOREM LeaseAndFence == Spec => []LeaseMatchesFence
  <1>1. Inv => LeaseMatchesFence
    BY DEF Inv, Ownership
  <1> QED
    BY Invariant, <1>1, PTL

(* publish and record_failure release every repository of the import they   *)
(* finish, so a finished import blocks no other one.                        *)
THEOREM FinishedReleases == Spec => []TerminalHoldsNoLock
  <1>1. Inv => TerminalHoldsNoLock
    BY DEF Inv, Ownership, LocksOfActive, TerminalHoldsNoLock, Terminal, Active
  <1> QED
    BY Invariant, <1>1, PTL

(* What save_batch and advance recorded is in the database, so an import    *)
(* resumed from its checkpoint misses no batch.                             *)
THEOREM ResumeMissesNothing == Spec => []CheckpointMatchesFacts
  <1>1. Inv => CheckpointMatchesFacts
    BY DEF Inv, Content
  <1> QED
    BY Invariant, <1>1, PTL

(* publish_in_transaction makes only complete scans CURRENT, and            *)
(* record_failure never marks the scan that is CURRENT.                     *)
THEOREM CurrentComplete == Spec => []CurrentIsComplete
  <1>1. Inv => CurrentIsComplete
    BY DEF Inv, Content
  <1> QED
    BY Invariant, <1>1, PTL

(* The database, as a superseded callback must leave it. *)
Database == <<lockVars, job, ckpt, scanVars, rev, proj>>

Harmless(w) ==
    Stale(w) /\ worker[w].pc \in {"load", "work", "fail"} /\ worker'[w] # worker[w]
    => UNCHANGED Database

(* A superseded callback owns neither the fence nor the lease. *)
LEMMA SupersededStep ==
    ASSUME Inv, NEW w \in Workers
    PROVE  [Next]_vars => Harmless(w)
  <1>worker. worker \in [Workers -> Worker]
    BY DEF Inv, TypeOK
  <1>stale. Stale(w) => ~Owned(w) /\ ~MayTerminate(worker[w].job, worker[w].owner)
    BY DEF Inv, Ownership, LeaseMatchesFence, Stale, Owned, AssertAllFences, MayTerminate
  <1>other. \A v \in Workers : v # w =>
              \A u : worker' = [worker EXCEPT ![v] = u] => worker'[w] = worker[w]
    BY <1>worker
  <1>1. ASSUME NEW v \in Workers, v # w, Step(v) \/ Crash(v)
        PROVE  worker'[w] = worker[w]
    <2>1. \E u : worker' = [worker EXCEPT ![v] = u]
      <3>1. ASSUME Load(v) \/ SkipPhase(v) PROVE \E u : worker' = [worker EXCEPT ![v] = u]
        BY <3>1 DEF Load, SkipPhase
      <3>2. ASSUME IngestBatch(v) PROVE \E u : worker' = [worker EXCEPT ![v] = u]
        BY <3>2 DEF IngestBatch
      <3>3. ASSUME RunsNext(v) PROVE \E u : worker' = [worker EXCEPT ![v] = u]
        BY <3>3 DEF RunsNext
      <3>4. ASSUME Seal(v) \/ Raise(v) \/ RecordPublishFailure(v)
            PROVE \E u : worker' = [worker EXCEPT ![v] = u]
        BY <3>4 DEF Seal, Raise, RecordPublishFailure, Goto
      <3>5. ASSUME ObserveOwner(v) PROVE \E u : worker' = [worker EXCEPT ![v] = u]
        BY <3>5 DEF ObserveOwner
      <3>6. ASSUME PublishRaises(v) PROVE \E u : worker' = [worker EXCEPT ![v] = u]
        BY <3>6 DEF PublishRaises
      <3>7. ASSUME PublishTransaction(v) \/ AlreadyPublished(v) \/ HandleFailure(v)
                   \/ EnqueueFails(v) \/ Crash(v)
            PROVE \E u : worker' = [worker EXCEPT ![v] = u]
        BY <3>7 DEF PublishTransaction, AlreadyPublished, HandleFailure, EnqueueFails, Crash
      <3> QED
        BY <1>1, <3>1, <3>2, <3>3, <3>4, <3>5, <3>6, <3>7 DEF Step, RunPlainPhase,
           FinalizeCoverage, ComputeInheritance, VerifyConsistency
    <2> QED
      BY <1>1, <1>other, <2>1
  <1>2. ASSUME Step(w) \/ Crash(w)
        PROVE  Harmless(w)
    <2>1. ASSUME \/ Load(w) \/ SkipPhase(w) \/ Raise(w) \/ Crash(w) \/ ObserveOwner(w)
                 \/ AlreadyPublished(w) \/ PublishRaises(w)
          PROVE  UNCHANGED Database
      BY <2>1 DEF Load, SkipPhase, Raise, Crash, ObserveOwner, AlreadyPublished,
         PublishRaises, Database
    <2>2. ASSUME IngestBatch(w) \/ RunsNext(w) \/ Seal(w)
          PROVE  Owned(w)
      BY <2>2 DEF IngestBatch, RunsNext, Seal
    <2>3. ASSUME PublishTransaction(w) \/ RecordPublishFailure(w)
          PROVE  worker[w].pc \notin {"load", "work", "fail"}
      BY <2>3 DEF PublishTransaction, RecordPublishFailure
    <2>4. ASSUME HandleFailure(w) \/ EnqueueFails(w), Stale(w)
          PROVE  UNCHANGED Database
      BY <1>stale, <2>4 DEF HandleFailure, EnqueueFails, RecordFailure, Database, lockVars, scanVars
    <2> QED
      BY <1>2, <1>stale, <2>1, <2>2, <2>3, <2>4 DEF Step, Harmless, RunPlainPhase,
         FinalizeCoverage, ComputeInheritance, VerifyConsistency
  <1>3. ASSUME NEW v \in Workers, worker[v].pc = "idle",
               \E u : worker' = [worker EXCEPT ![v] = u]
        PROVE  Harmless(w)
    <2>1. CASE v = w
      BY <1>3, <2>1 DEF Harmless
    <2>2. CASE v # w
      BY <1>3, <1>other, <2>2 DEF Harmless
    <2> QED
      BY <2>1, <2>2
  <1>4. ASSUME NEW v \in Workers, NEW j \in Jobs, Reclaim(v, j)
        PROVE  Harmless(w)
    BY <1>3, <1>4 DEF Reclaim
  <1>5. ASSUME NEW v \in Workers, NEW j \in Jobs, NEW s \in Scans, NEW R \in ResourceSets,
               Create(v, j, s, R)
        PROVE  Harmless(w)
    BY <1>3, <1>5 DEF Create
  <1>6. ASSUME worker' = worker
        PROVE  Harmless(w)
    BY <1>6 DEF Harmless
  <1>7. ASSUME NEW v \in Workers, v # w, Step(v) \/ Crash(v)
        PROVE  Harmless(w)
    BY <1>1, <1>7 DEF Harmless
  <1>8. ASSUME NEW j \in Jobs, ResumeEnqueueFails(j) \/ LeaseExpires(j)
        PROVE  worker' = worker
    BY <1>8 DEF ResumeEnqueueFails, LeaseExpires
  <1>9. ASSUME NEW p \in Projects, NEW f \in Files, AnalysisSave(p, f)
        PROVE  worker' = worker
    BY <1>9 DEF AnalysisSave
  <1>10. ASSUME UNCHANGED vars
         PROVE  worker' = worker
    BY <1>10 DEF vars
  <1> QED
    BY <1>2, <1>4, <1>5, <1>6, <1>7, <1>8, <1>9, <1>10 DEF Next

(* A callback that lost its import to a reclaim writes nothing any more,    *)
(* neither through _assert_all_fences nor through record_failure.           *)
THEOREM SupersededIsHarmless == Spec => SupersededChangesNothing
  <1>1. Inv /\ [Next]_vars =>
          [\A w \in Workers :
             /\ Stale(w) /\ worker[w].pc \in {"load", "work", "fail"}
             /\ worker'[w] # worker[w]
             => UNCHANGED <<lockVars, job, ckpt, scanVars, rev, proj>>]_vars
    BY SupersededStep DEF Harmless, Database
  <1> QED
    BY <1>1, Invariant, PTL DEF Spec, SupersededChangesNothing
-----------------------------------------------------------------------------
(* Publications *)

(* What the steps leave alone that neither create, compute, seal nor        *)
(* publish an import and save no review.                                    *)
JobsQuiet ==
    \A j \in Jobs :
        /\ job'[j].scan = job[j].scan
        /\ job'[j].pred = job[j].pred
        /\ job'[j].state = "none" <=> job[j].state = "none"
        /\ job'[j].state = "completed" <=> job[j].state = "completed"

PhasesQuiet ==
    \A j \in Jobs :
        /\ ckpt'[j].readSet = ckpt[j].readSet
        /\ \/ ckpt'[j].phase = ckpt[j].phase
           \/ /\ ckpt'[j].phase = ckpt[j].phase + 1
              /\ ckpt'[j].phase < SEALED
              /\ ckpt'[j].phase # INHERITANCE_COMPUTED

ScansQuiet ==
    \A s \in Scans :
        /\ scan'[s].pred = scan[s].pred
        /\ \/ scan'[s].status = scan[s].status
           \/ /\ scan[s].status \in {"IMPORTING", "SEALED"}
              /\ scan'[s].status \in {"FAILED", "ABORTED"}

CurrentQuiet == \A p \in Projects : proj'[p].current = proj[p].current

Quiet == JobsQuiet /\ PhasesQuiet /\ ScansQuiet /\ CurrentQuiet /\ UNCHANGED <<carried, rev>>

(* record_failure only ends an active job and fails its scan. *)
LEMMA FailureIsQuiet ==
    ASSUME TypeOK, NEW j \in Jobs, NEW owner, NEW verdict \in {"FAILED", "ABORTED"},
           RecordFailure(j, owner, verdict)
    PROVE  JobsQuiet /\ ScansQuiet
  <1>1. job \in [Jobs -> Job] /\ scan \in [Scans -> Scan]
    BY DEF TypeOK
  <1>2. CASE MayTerminate(j, owner)
    <2>1. JobsQuiet
      BY <1>1, <1>2 DEF RecordFailure, MayTerminate, Active, JobsQuiet, Job
    <2>2. ScansQuiet
      BY <1>1, <1>2 DEF RecordFailure, MayFail, ScansQuiet, Scan
    <2> QED
      BY <2>1, <2>2
  <1>3. CASE ~MayTerminate(j, owner)
    BY <1>3 DEF RecordFailure, JobsQuiet, ScansQuiet
  <1> QED
    BY <1>2, <1>3

(* Every step creates an import, computes what a scan inherits, seals a     *)
(* scan, publishes it, saves a review, or is quiet.                         *)
LEMMA QuietStep ==
    ASSUME TypeOK, Bound
    PROVE  [Next]_vars =>
             \/ \E w \in Workers, j \in Jobs, s \in Scans, R \in ResourceSets : Create(w, j, s, R)
             \/ \E w \in Workers : ComputeInheritance(w) \/ Seal(w) \/ PublishTransaction(w)
             \/ \E p \in Projects, f \in Files : AnalysisSave(p, f)
             \/ Quiet
  <1>job. job \in [Jobs -> Job]
    BY DEF TypeOK
  <1>ckpt. ckpt \in [Jobs -> Checkpoint]
    BY DEF TypeOK
  <1>proj. proj \in [Projects -> ProjectState]
    BY DEF TypeOK
  <1>same. /\ UNCHANGED job => JobsQuiet
           /\ UNCHANGED ckpt => PhasesQuiet
           /\ UNCHANGED scan => ScansQuiet
           /\ UNCHANGED proj => CurrentQuiet
    BY DEF JobsQuiet, PhasesQuiet, ScansQuiet, CurrentQuiet
  <1>still. UNCHANGED <<job, ckpt, scan, proj, carried, rev>> => Quiet
    BY <1>same DEF Quiet
  <1>adv. ASSUME NEW w \in Workers, RunsNext(w), Advance(worker[w].job),
                 worker[w].target \in PlainPhases \cup {COVERAGE_IMPORTED, CONSISTENCY_VERIFIED}
          PROVE  PhasesQuiet
    <2>1. worker[w].job \in Jobs
      BY <1>adv DEF RunsNext, AtPhase, Bound, Running
    <2>2. /\ ckpt[worker[w].job].phase + 1 = worker[w].target
          /\ worker[w].target < SEALED /\ worker[w].target # INHERITANCE_COMPUTED
      BY <1>adv DEF RunsNext, PlainPhases, SCAN_CREATED, INFO_STAGED, GIT_VERIFIED,
         SOURCE_PREPARED, LINE_MAP_BUILT, STATS_REBUILT, COVERAGE_IMPORTED,
         CONSISTENCY_VERIFIED, INHERITANCE_COMPUTED, SEALED, PUBLISHED
    <2> QED
      BY <1>adv, <1>ckpt, <2>1, <2>2 DEF Advance, PhasesQuiet, Checkpoint
  <1>1. ASSUME NEW w \in Workers, NEW j \in Jobs, Reclaim(w, j)
        PROVE  Quiet
    <2>1. JobsQuiet
      BY <1>1, <1>job DEF Reclaim, JobsQuiet, Job, Active
    <2>2. PhasesQuiet
      BY <1>1, <1>ckpt DEF Reclaim, ClaimFencing, PhasesQuiet, Checkpoint
    <2> QED
      BY <1>1, <1>same, <2>1, <2>2 DEF Reclaim, Quiet, scanVars
  <1>2. ASSUME NEW w \in Workers, IngestBatch(w)
        PROVE  Quiet
    <2>1. PhasesQuiet
      BY <1>2, <1>ckpt DEF IngestBatch, PhasesQuiet, Checkpoint
    <2> QED
      BY <1>2, <1>same, <2>1 DEF IngestBatch, Quiet
  <1>3. ASSUME NEW w \in Workers, RunPlainPhase(w) \/ FinalizeCoverage(w)
        PROVE  Quiet
    BY <1>3, <1>same, <1>adv DEF RunPlainPhase, FinalizeCoverage, Quiet, scanVars
  <1>4. ASSUME NEW w \in Workers, VerifyConsistency(w)
        PROVE  Quiet
    <2>1. PhasesQuiet
      BY <1>4, <1>adv DEF VerifyConsistency
    <2>2. CurrentQuiet
      BY <1>4, <1>proj DEF VerifyConsistency, CurrentQuiet, ProjectState
    <2> QED
      BY <1>4, <1>same, <2>1, <2>2 DEF VerifyConsistency, Quiet
  <1>5. ASSUME NEW w \in Workers, Load(w) \/ SkipPhase(w) \/ ObserveOwner(w) \/ Raise(w)
        PROVE  Quiet
    BY <1>5, <1>still DEF Load, SkipPhase, ObserveOwner, Raise, scanVars
  <1>6. ASSUME NEW w \in Workers, AlreadyPublished(w) \/ PublishRaises(w) \/ Crash(w)
        PROVE  Quiet
    BY <1>6, <1>still DEF AlreadyPublished, PublishRaises, Crash, scanVars
  <1>7. ASSUME NEW w \in Workers, RecordPublishFailure(w)
        PROVE  Quiet
    <2>1. worker[w].job \in Jobs /\ worker[w].why \in {"FAILED", "ABORTED"}
      BY <1>7 DEF RecordPublishFailure, Bound, Running, TypeOK, Worker
    <2>2. JobsQuiet /\ ScansQuiet
      BY <1>7, <2>1, FailureIsQuiet DEF RecordPublishFailure
    <2> QED
      BY <1>7, <1>same, <2>2 DEF RecordPublishFailure, Quiet
  <1>8. ASSUME NEW w \in Workers, HandleFailure(w) \/ EnqueueFails(w)
        PROVE  Quiet
    <2>1. worker[w].job \in Jobs
      BY <1>8 DEF HandleFailure, EnqueueFails, Bound, Running
    <2>2. JobsQuiet /\ ScansQuiet
      BY <1>8, <2>1, FailureIsQuiet DEF HandleFailure, EnqueueFails
    <2> QED
      BY <1>8, <1>same, <2>2 DEF HandleFailure, EnqueueFails, Quiet
  <1>9. ASSUME NEW j \in Jobs, ResumeEnqueueFails(j)
        PROVE  Quiet
    <2>1. JobsQuiet /\ ScansQuiet
      BY <1>9, FailureIsQuiet DEF ResumeEnqueueFails
    <2> QED
      BY <1>9, <1>same, <2>1 DEF ResumeEnqueueFails, Quiet
  <1>10. ASSUME NEW j \in Jobs, LeaseExpires(j)
         PROVE  Quiet
    BY <1>10, <1>still DEF LeaseExpires, scanVars
  <1>11. CASE UNCHANGED vars
    BY <1>11, <1>still DEF vars
  <1> QED
    BY <1>1, <1>2, <1>3, <1>4, <1>5, <1>6, <1>7, <1>8, <1>9, <1>10, <1>11 DEF Next, Step

(* Some import has made s CURRENT. *)
PublishedOf(s) == \E k \in Jobs : job[k].state = "completed" /\ job[k].scan = s

(* A sealed import has sealed its scan, and is the only one of that scan. *)
SealedOnce ==
    /\ \A j \in Jobs : job[j].state # "none" /\ ckpt[j].phase >= SEALED =>
         scan[job[j].scan].status \notin {"none", "IMPORTING"}
    /\ \A i, j \in Jobs :
         /\ job[i].state # "none" /\ ckpt[i].phase >= SEALED
         /\ job[j].state # "none" /\ ckpt[j].phase >= SEALED
         /\ job[i].scan = job[j].scan
         => i = j
    /\ \A j \in Jobs : job[j].state = "completed" => ckpt[j].phase = PUBLISHED

(* Imports start from scans that were published, and CURRENT is one. *)
FromPublished ==
    /\ \A j \in Jobs : job[j].state # "none" /\ job[j].pred # NoScan => PublishedOf(job[j].pred)
    /\ \A p \in Projects : proj[p].current # NoScan => PublishedOf(proj[p].current)

(* What a published import started from is not CURRENT again. *)
MovedOn ==
    \A j \in Jobs : job[j].state = "completed" =>
        job[j].pred # proj[ProjectOf[job[j].scan]].current

Chain == SealedOnce /\ FromPublished /\ MovedOn /\ OneSuccessor

(* A step without a publication keeps the published imports in one chain. *)
LEMMA ChainKept ==
    ASSUME TypeOK, Bound, Chain,
           \A j \in Jobs : job'[j].state = "completed" <=> job[j].state = "completed",
           \A j \in Jobs : job[j].state # "none" =>
             job'[j].scan = job[j].scan /\ job'[j].pred = job[j].pred,
           \A j \in Jobs : job[j].state = "none" /\ job'[j].state # "none" =>
             job'[j].pred = NoScan \/ \E p \in Projects : job'[j].pred = proj[p].current,
           CurrentQuiet
    PROVE  FromPublished' /\ MovedOn' /\ OneSuccessor'
  <1>1. \A s : PublishedOf(s) => PublishedOf(s)'
    BY DEF PublishedOf
  <1>2. FromPublished'
    <2>1. ASSUME NEW j \in Jobs, job'[j].state # "none", job'[j].pred # NoScan
          PROVE  PublishedOf(job'[j].pred)
      BY <2>1 DEF Chain, FromPublished
    <2>2. ASSUME NEW p \in Projects, proj'[p].current # NoScan
          PROVE  PublishedOf(proj'[p].current)
      BY <2>2 DEF Chain, FromPublished, CurrentQuiet
    <2>3. \A j \in Jobs : job'[j].state # "none" /\ job'[j].pred # NoScan =>
             \E k \in Jobs : job'[k].state = "completed" /\ job'[k].scan = job'[j].pred
      BY <2>1 DEF PublishedOf
    <2>4. \A p \in Projects : proj'[p].current # NoScan =>
             \E k \in Jobs : job'[k].state = "completed" /\ job'[k].scan = proj'[p].current
      BY <2>2 DEF PublishedOf
    <2> QED
      BY <2>3, <2>4 DEF FromPublished, PublishedOf
  <1>3. MovedOn'
    <2> SUFFICES ASSUME NEW j \in Jobs, job'[j].state = "completed"
                 PROVE  job'[j].pred # proj'[ProjectOf[job'[j].scan]].current
      BY DEF MovedOn
    <2>1. job[j].state = "completed" /\ job'[j].scan = job[j].scan /\ job'[j].pred = job[j].pred
      OBVIOUS
    <2>2. ProjectOf[job[j].scan] \in Projects
      BY <2>1, ProjectOfAssumption DEF Bound
    <2> QED
      BY <2>1, <2>2 DEF Chain, MovedOn, CurrentQuiet
  <1>4. OneSuccessor'
    <2> SUFFICES ASSUME NEW i \in Jobs, NEW j \in Jobs, i # j,
                        job'[i].state = "completed", job'[j].state = "completed",
                        ProjectOf[job'[i].scan] = ProjectOf[job'[j].scan]
                 PROVE  job'[i].pred # job'[j].pred
      BY DEF OneSuccessor
    <2>1. /\ job[i].state = "completed" /\ job'[i].scan = job[i].scan /\ job'[i].pred = job[i].pred
          /\ job[j].state = "completed" /\ job'[j].scan = job[j].scan /\ job'[j].pred = job[j].pred
      OBVIOUS
    <2> QED
      BY <2>1 DEF Chain, OneSuccessor
  <1> QED
    BY <1>2, <1>3, <1>4

(* Every step keeps the published imports of a project in one chain. *)
LEMMA ChainStep ==
    ASSUME TypeOK, Bound, Chain
    PROVE  [Next]_vars => Chain'
  <1>job. job \in [Jobs -> Job]
    BY DEF TypeOK
  <1>ckpt. ckpt \in [Jobs -> Checkpoint]
    BY DEF TypeOK
  <1>scan. scan \in [Scans -> Scan]
    BY DEF TypeOK
  <1>proj. proj \in [Projects -> ProjectState]
    BY DEF TypeOK
  <1>phase. \A j \in Jobs : ckpt[j].phase \in Int
    BY <1>ckpt DEF Checkpoint, Phases, LOCKED, PUBLISHED
  <1>1. ASSUME NEW w \in Workers, NEW j \in Jobs, NEW s \in Scans, NEW R \in ResourceSets,
               Create(w, j, s, R)
        PROVE  Chain'
    <2>1. /\ ProjectOf[s] \in Projects
          /\ CurrentQuiet
      BY <1>1, <1>proj, ProjectOfAssumption DEF Create, CurrentQuiet, ProjectState
    <2>2. /\ job[j].state = "none"
          /\ job'[j].state = "queued" /\ job'[j].scan = s
          /\ job'[j].pred = proj[ProjectOf[s]].current
          /\ \A i \in Jobs : i # j => job'[i] = job[i]
      BY <1>1, <1>job DEF Create
    <2>3. /\ ckpt'[j].phase = LOCKED
          /\ \A i \in Jobs : i # j => ckpt'[i] = ckpt[i]
      BY <1>1, <1>ckpt DEF Create
    <2>4. \A t \in Scans : scan[t].status \notin {"none", "IMPORTING"} => scan'[t] = scan[t]
      BY <1>1, <1>scan DEF Create
    <2>5. SealedOnce'
      <3>1. \A i \in Jobs : job'[i].state # "none" /\ ckpt'[i].phase >= SEALED =>
              /\ i # j /\ job'[i] = job[i] /\ ckpt'[i] = ckpt[i]
              /\ job[i].state # "none" /\ ckpt[i].phase >= SEALED /\ job[i].scan \in Scans
        BY <2>2, <2>3 DEF LOCKED, SEALED, Bound
      <3>2. \A i \in Jobs : job'[i].state = "completed" =>
              job[i].state = "completed" /\ ckpt'[i] = ckpt[i]
        BY <2>2, <2>3
      <3> QED
        BY <2>4, <3>1, <3>2 DEF Chain, SealedOnce
    <2>6. FromPublished' /\ MovedOn' /\ OneSuccessor'
      BY <2>1, <2>2, ChainKept
    <2> QED
      BY <2>5, <2>6 DEF Chain
  <1>2. ASSUME NEW w \in Workers, ComputeInheritance(w)
        PROVE  Chain'
    <2>1. worker[w].job \in Jobs /\ job' = job /\ scan' = scan /\ proj' = proj
      BY <1>2 DEF ComputeInheritance, RunsNext, AtPhase, Bound, Running
    <2>2. \A i \in Jobs : ckpt'[i].phase = ckpt[i].phase
                          \/ (ckpt[i].phase < SEALED - 1 /\ ckpt'[i].phase = INHERITANCE_COMPUTED)
      <3>1. ckpt[worker[w].job].phase + 1 = INHERITANCE_COMPUTED
        BY <1>2 DEF ComputeInheritance, RunsNext
      <3>2. /\ ckpt'[worker[w].job].phase = ckpt[worker[w].job].phase + 1
            /\ \A i \in Jobs : i # worker[w].job => ckpt'[i].phase = ckpt[i].phase
        BY <1>2, <1>ckpt, <2>1 DEF ComputeInheritance, Checkpoint
      <3> QED
        BY <1>phase, <2>1, <3>1, <3>2 DEF SEALED, INHERITANCE_COMPUTED
    <2>3. SealedOnce'
      <3>1. \A i \in Jobs : ckpt'[i].phase >= SEALED => ckpt[i].phase >= SEALED
        BY <1>phase, <2>2 DEF SEALED, INHERITANCE_COMPUTED
      <3>2. \A i \in Jobs : ckpt[i].phase = PUBLISHED => ckpt'[i].phase = PUBLISHED
        BY <1>phase, <2>2 DEF SEALED, PUBLISHED
      <3> QED
        BY <2>1, <3>1, <3>2 DEF Chain, SealedOnce
    <2>4. FromPublished' /\ MovedOn' /\ OneSuccessor'
      BY <2>1 DEF Chain, FromPublished, PublishedOf, MovedOn, OneSuccessor
    <2> QED
      BY <2>3, <2>4 DEF Chain
  <1>3. ASSUME NEW w \in Workers, Seal(w)
        PROVE  Chain'
    <2> DEFINE j == worker[w].job
               s == job[j].scan
    <2>1. /\ j \in Jobs /\ job[j].state # "none" /\ s \in Scans
          /\ job' = job /\ proj' = proj /\ scan[s].status = "IMPORTING"
      BY <1>3 DEF Seal, Bound, Running
    <2>2. /\ scan'[s].status = "SEALED"
          /\ \A t \in Scans : t # s => scan'[t] = scan[t]
      BY <1>3, <1>scan, <2>1 DEF Seal, Scan
    <2>3. /\ ckpt[j].phase = SEALED - 1 /\ ckpt'[j].phase = SEALED
          /\ \A i \in Jobs : i # j => ckpt'[i] = ckpt[i]
      <3>1. Advance(j) /\ ckpt[j].phase + 1 = SEALED
        BY <1>3, Zenon DEF Seal
      <3>2. ckpt[j].phase \in Int
        BY <1>phase, <2>1
      <3> QED
        BY <1>ckpt, <2>1, <3>1, <3>2, AdvancedRows DEF SEALED
    <2>4. \A i \in Jobs : job[i].state # "none" /\ ckpt[i].phase >= SEALED => job[i].scan # s
      BY <2>1 DEF Chain, SealedOnce
    <2>5. job[j].state # "completed"
      BY <2>1, <2>3 DEF Chain, SealedOnce, SEALED, PUBLISHED
    <2> HIDE DEF j, s
    <2>6. SealedOnce'
      <3>1. \A i \in Jobs : job[i].state # "none" /\ ckpt'[i].phase >= SEALED =>
              i = j \/ (ckpt[i].phase >= SEALED /\ job[i].scan # s)
        BY <2>3, <2>4
      <3>2. job[j].scan = s
        BY DEF s
      <3>3. \A i \in Jobs : job[i].state # "none" => job[i].scan \in Scans
        BY DEF Bound
      <3>4. \A i \in Jobs : job'[i].state # "none" /\ ckpt'[i].phase >= SEALED =>
              scan'[job'[i].scan].status \notin {"none", "IMPORTING"}
        BY <2>1, <2>2, <3>1, <3>2, <3>3 DEF Chain, SealedOnce
      <3>5. \A i, k \in Jobs :
               /\ job'[i].state # "none" /\ ckpt'[i].phase >= SEALED
               /\ job'[k].state # "none" /\ ckpt'[k].phase >= SEALED
               /\ job'[i].scan = job'[k].scan
               => i = k
        BY <2>1, <3>1, <3>2 DEF Chain, SealedOnce
      <3>6. \A i \in Jobs : job'[i].state = "completed" => ckpt'[i].phase = PUBLISHED
        BY <2>1, <2>3, <2>5 DEF Chain, SealedOnce
      <3> QED
        BY <3>4, <3>5, <3>6 DEF SealedOnce
    <2>7. FromPublished' /\ MovedOn' /\ OneSuccessor'
      BY <2>1 DEF Chain, FromPublished, PublishedOf, MovedOn, OneSuccessor
    <2> QED
      BY <2>6, <2>7 DEF Chain
  <1>4. ASSUME NEW w \in Workers, PublishTransaction(w)
        PROVE  Chain'
    <2>1. PICK j \in Jobs : j = worker[w].job /\ job[j].state # "none"
      BY <1>4 DEF PublishTransaction, Bound, Running
    <2>2. PICK s \in Scans : s = job[j].scan
      BY <2>1 DEF Bound
    <2>3. PICK p \in Projects : p = ProjectOf[s]
      BY ProjectOfAssumption
    <2>4. /\ ckpt[j].phase = SEALED /\ job[j].state # "completed"
          /\ proj[p].current = job[j].pred /\ scan' = scan
      BY <1>4, <2>1, <2>2, <2>3 DEF PublishTransaction, Publishable, Active, scanVars
    <2>5. /\ job'[j].state = "completed" /\ job'[j].scan = s /\ job'[j].pred = job[j].pred
          /\ \A i \in Jobs : i # j => job'[i] = job[i]
      BY <1>4, <1>job, <2>1, <2>2 DEF PublishTransaction, Job
    <2>6. /\ ckpt'[j].phase = PUBLISHED
          /\ \A i \in Jobs : i # j => ckpt'[i] = ckpt[i]
      BY <1>4, <1>ckpt, <2>1 DEF PublishTransaction, Checkpoint
    <2>7. /\ proj'[p].current = s
          /\ \A q \in Projects : q # p => proj'[q].current = proj[q].current
      BY <1>4, <1>proj, <2>1, <2>2, <2>3 DEF PublishTransaction, ProjectState
    <2>8. SealedOnce'
      <3>1. \A i \in Jobs : job'[i].state # "none" /\ ckpt'[i].phase >= SEALED =>
              job[i].state # "none" /\ ckpt[i].phase >= SEALED
        BY <2>1, <2>4, <2>5, <2>6 DEF SEALED
      <3>2. \A i \in Jobs : job'[i].scan = job[i].scan
        BY <2>2, <2>5
      <3>3. \A i \in Jobs : job'[i].state = "completed" => ckpt'[i].phase = PUBLISHED
        BY <2>5, <2>6 DEF Chain, SealedOnce
      <3> QED
        BY <2>4, <3>1, <3>2, <3>3 DEF Chain, SealedOnce
    <2>9. ~PublishedOf(s)
      <3> SUFFICES ASSUME NEW k \in Jobs, job[k].state = "completed", job[k].scan = s
                   PROVE  FALSE
        BY DEF PublishedOf
      <3>1. ckpt[k].phase = PUBLISHED /\ k # j
        BY <2>4 DEF Chain, SealedOnce
      <3> QED
        BY <2>1, <2>2, <2>4, <3>1 DEF Chain, SealedOnce, SEALED, PUBLISHED
    <2>10. s # NoScan
      BY NoneAssumption
    <2>11. \A i \in Jobs : job[i].state # "none" => job'[i].pred = job[i].pred /\ job[i].pred # s
      BY <2>5, <2>9, <2>10 DEF Chain, FromPublished
    <2>12. \A i \in Jobs : job'[i].state # "none" <=> job[i].state # "none"
      BY <2>1, <2>5
    <2>13. \A t : PublishedOf(t) \/ t = s =>
             \E k \in Jobs : job'[k].state = "completed" /\ job'[k].scan = t
      BY <2>2, <2>5 DEF PublishedOf
    <2>14. FromPublished'
      <3>1. \A i \in Jobs : job'[i].state # "none" /\ job'[i].pred # NoScan =>
              \E k \in Jobs : job'[k].state = "completed" /\ job'[k].scan = job'[i].pred
        BY <2>11, <2>12, <2>13 DEF Chain, FromPublished
      <3>2. \A q \in Projects : proj'[q].current # NoScan =>
              \E k \in Jobs : job'[k].state = "completed" /\ job'[k].scan = proj'[q].current
        BY <2>7, <2>13 DEF Chain, FromPublished
      <3> QED
        BY <3>1, <3>2 DEF FromPublished, PublishedOf
    <2>15. MovedOn'
      <3> SUFFICES ASSUME NEW i \in Jobs, job'[i].state = "completed"
                   PROVE  job'[i].pred # proj'[ProjectOf[job'[i].scan]].current
        BY DEF MovedOn
      <3>1. job[i].state # "none" /\ job'[i].scan = job[i].scan
        BY <2>2, <2>5, <2>12
      <3>2. ProjectOf[job[i].scan] \in Projects
        BY <3>1, ProjectOfAssumption DEF Bound
      <3>3. CASE ProjectOf[job[i].scan] = p
        BY <2>7, <2>11, <3>1, <3>3
      <3>4. CASE ProjectOf[job[i].scan] # p
        <4>1. i # j
          BY <2>2, <2>3, <3>4
        <4> QED
          BY <2>5, <2>7, <3>2, <3>4, <4>1 DEF Chain, MovedOn
      <3> QED
        BY <3>3, <3>4
    <2>16. OneSuccessor'
      <3> SUFFICES ASSUME NEW i \in Jobs, NEW k \in Jobs, i # k,
                          job'[i].state = "completed", job'[k].state = "completed",
                          ProjectOf[job'[i].scan] = ProjectOf[job'[k].scan]
                   PROVE  job'[i].pred # job'[k].pred
        BY DEF OneSuccessor
      <3>1. \A m \in Jobs : job'[m].scan = job[m].scan /\ job'[m].pred = job[m].pred
        BY <2>2, <2>5
      <3>2. \A m \in Jobs : m # j /\ job[m].state = "completed" /\ ProjectOf[job[m].scan] = p
              => job[m].pred # job[j].pred
        BY <2>4 DEF Chain, MovedOn
      <3>3. CASE i # j /\ k # j
        BY <2>5, <3>1, <3>3 DEF Chain, OneSuccessor
      <3>4. CASE i = j
        BY <2>2, <2>3, <2>5, <3>1, <3>2, <3>4
      <3>5. CASE k = j
        BY <2>2, <2>3, <2>5, <3>1, <3>2, <3>5
      <3> QED
        BY <3>3, <3>4, <3>5
    <2> QED
      BY <2>8, <2>14, <2>15, <2>16 DEF Chain
  <1>5. ASSUME NEW p \in Projects, NEW f \in Files, AnalysisSave(p, f)
        PROVE  Chain'
    <2>1. CurrentQuiet /\ UNCHANGED <<job, ckpt, scan>>
      BY <1>5, <1>proj DEF AnalysisSave, CurrentQuiet, ProjectState
    <2>2. SealedOnce'
      BY <2>1 DEF Chain, SealedOnce
    <2>3. FromPublished' /\ MovedOn' /\ OneSuccessor'
      BY <2>1, ChainKept
    <2> QED
      BY <2>2, <2>3 DEF Chain
  <1>6. ASSUME Quiet
        PROVE  Chain'
    <2>1. SealedOnce'
      <3>1. \A j \in Jobs : ckpt'[j].phase >= SEALED => ckpt[j].phase >= SEALED
        BY <1>6, <1>phase DEF Quiet, PhasesQuiet, SEALED
      <3>2. \A s \in Scans : scan[s].status \notin {"none", "IMPORTING"} =>
              scan'[s].status \notin {"none", "IMPORTING"}
        BY <1>6 DEF Quiet, ScansQuiet
      <3>3. \A j \in Jobs : job'[j].state # "none" => job[j].scan \in Scans
        BY <1>6 DEF Quiet, JobsQuiet, Bound
      <3>4. \A j \in Jobs : job'[j].state = "completed" => ckpt'[j].phase = PUBLISHED
        BY <1>6, <1>phase DEF Quiet, JobsQuiet, PhasesQuiet, Chain, SealedOnce, SEALED, PUBLISHED
      <3>5. \A j \in Jobs : /\ job'[j].state # "none" => job[j].state # "none"
                            /\ job'[j].scan = job[j].scan
        BY <1>6 DEF Quiet, JobsQuiet
      <3>6. \A j \in Jobs : job'[j].state # "none" /\ ckpt'[j].phase >= SEALED =>
              scan'[job'[j].scan].status \notin {"none", "IMPORTING"}
        BY <3>1, <3>2, <3>3, <3>5 DEF Chain, SealedOnce
      <3>7. \A i, j \in Jobs :
               /\ job'[i].state # "none" /\ ckpt'[i].phase >= SEALED
               /\ job'[j].state # "none" /\ ckpt'[j].phase >= SEALED
               /\ job'[i].scan = job'[j].scan
               => i = j
        BY <3>1, <3>5 DEF Chain, SealedOnce
      <3> QED
        BY <3>4, <3>6, <3>7 DEF SealedOnce
    <2>2. FromPublished' /\ MovedOn' /\ OneSuccessor'
      BY <1>6, ChainKept DEF Quiet, JobsQuiet
    <2> QED
      BY <2>1, <2>2 DEF Chain
  <1> QED
    BY <1>1, <1>2, <1>3, <1>4, <1>5, <1>6, QuietStep

(* A scan's predecessor is another scan of its project, and an import that  *)
(* was not created names none.                                              *)
Predecessors ==
    /\ \A s \in Scans : scan[s].pred # NoScan =>
         scan[s].pred # s /\ ProjectOf[scan[s].pred] = ProjectOf[s]
    /\ \A j \in Jobs : job[j].state = "none" => job[j].scan = NoScan

(* What the only import of a scan carried over is what its checkpoint says  *)
(* it has read, from the computation to the publication, and nothing before.*)
CarriedIsRead ==
    /\ \A s \in Scans : (\A j \in Jobs : job[j].scan # s) => carried[s] = NothingRead
    /\ \A j \in Jobs : job[j].state # "none" /\ OneImport(job[j].scan) =>
         /\ ckpt[j].phase < INHERITANCE_COMPUTED => carried[job[j].scan] = NothingRead
         /\ ckpt[j].phase \in INHERITANCE_COMPUTED .. SEALED =>
              carried[job[j].scan] = ckpt[j].readSet

Carry == Predecessors /\ CarriedIsRead /\ InheritanceIsCurrent

(* CarriedIsRead and InheritanceIsCurrent of the next state, scan by scan. *)
LEMMA CarriedIsReadNext ==
    ASSUME \A s \in Scans : (\A j \in Jobs : job'[j].scan # s) => carried'[s] = NothingRead,
           \A j \in Jobs : \A t :
             t = job'[j].scan /\ job'[j].state # "none" /\ OneImport(t)' =>
               /\ ckpt'[j].phase < INHERITANCE_COMPUTED => carried'[t] = NothingRead
               /\ ckpt'[j].phase \in INHERITANCE_COMPUTED .. SEALED =>
                    carried'[t] = ckpt'[j].readSet
    PROVE  CarriedIsRead'
  <1> SUFFICES ASSUME NEW j \in Jobs, job'[j].state # "none", OneImport(job[j].scan)'
               PROVE  /\ ckpt'[j].phase < INHERITANCE_COMPUTED =>
                           carried'[job'[j].scan] = NothingRead
                      /\ ckpt'[j].phase \in INHERITANCE_COMPUTED .. SEALED =>
                           carried'[job'[j].scan] = ckpt'[j].readSet
    BY DEF CarriedIsRead
  <1>1. PICK t : t = job'[j].scan
    OBVIOUS
  <1>2. OneImport(t)'
    BY <1>1 DEF OneImport
  <1> QED
    BY <1>1, <1>2

LEMMA InheritanceIsCurrentNext ==
    ASSUME \A p \in Projects : \A t :
             t = proj'[p].current /\ t # NoScan /\ OneImport(t)' => InheritedFrom(t)'
    PROVE  InheritanceIsCurrent'
  <1> SUFFICES ASSUME NEW p \in Projects, proj'[p].current # NoScan,
                      OneImport(proj[p].current)'
               PROVE  InheritedFrom(proj[p].current)'
    BY DEF InheritanceIsCurrent
  <1>1. PICK t : t = proj'[p].current
    OBVIOUS
  <1>2. OneImport(t)'
    BY <1>1 DEF OneImport
  <1>3. InheritedFrom(t)'
    BY <1>1, <1>2
  <1> QED
    BY <1>1, <1>3 DEF InheritedFrom

(* Every step keeps what CURRENT inherited the same as what its predecessor *)
(* says.                                                                    *)
LEMMA CarryStep ==
    ASSUME TypeOK, Bound, CurrentIsComplete, Chain, Carry
    PROVE  [Next]_vars => Carry'
  <1>job. job \in [Jobs -> Job]
    BY DEF TypeOK
  <1>ckpt. ckpt \in [Jobs -> Checkpoint]
    BY DEF TypeOK
  <1>scan. scan \in [Scans -> Scan]
    BY DEF TypeOK
  <1>proj. proj \in [Projects -> ProjectState]
    BY DEF TypeOK
  <1>rev. carried \in [Scans -> [Files -> Nat]] /\ rev \in [Scans -> [Files -> Nat]]
    BY DEF TypeOK
  <1>phase. \A j \in Jobs : ckpt[j].phase \in Int
    BY <1>ckpt DEF Checkpoint, Phases, LOCKED, PUBLISHED
  <1>cur. \A p \in Projects : proj[p].current # NoScan =>
            /\ proj[p].current \in Scans /\ ProjectOf[proj[p].current] = p
            /\ scan[proj[p].current].status = "SEALED"
    BY <1>proj DEF ProjectState, CurrentIsComplete
  <1>pred. \A s \in Scans : scan[s].pred \in Scans \cup {NoScan}
    BY <1>scan DEF Scan
  <1>1. ASSUME NEW w \in Workers, NEW j \in Jobs, NEW s \in Scans, NEW R \in ResourceSets,
               Create(w, j, s, R)
        PROVE  Carry'
    <2>1. /\ ProjectOf[s] \in Projects
          /\ CurrentQuiet
      BY <1>1, <1>proj, ProjectOfAssumption DEF Create, CurrentQuiet, ProjectState
    <2>2. /\ job[j].state = "none" /\ job[j].scan = NoScan
          /\ job'[j].state = "queued" /\ job'[j].scan = s
          /\ \A i \in Jobs : i # j => job'[i] = job[i]
      BY <1>1, <1>job DEF Create, Carry, Predecessors
    <2>3. /\ ckpt'[j].phase = LOCKED
          /\ \A i \in Jobs : i # j => ckpt'[i] = ckpt[i]
      BY <1>1, <1>ckpt DEF Create
    <2>4. /\ \A t \in Scans : t # s => scan'[t] = scan[t]
          /\ \/ scan'[s].pred = scan[s].pred
             \/ scan'[s].pred = proj[ProjectOf[s]].current
          /\ scan[s].status \in {"none", "IMPORTING"}
          /\ UNCHANGED <<carried, rev>>
      BY <1>1, <1>scan DEF Create
    <2>5. \A t \in Scans : OneImport(t)' => OneImport(t)
      <3> SUFFICES ASSUME NEW t \in Scans, OneImport(t)', NEW i \in Jobs, NEW k \in Jobs,
                          job[i].scan = t, job[k].scan = t
                   PROVE  i = k
        BY DEF OneImport
      <3>1. i # j /\ k # j
        BY <2>2, NoneAssumption
      <3>2. job'[i].scan = t /\ job'[k].scan = t
        BY <2>2, <3>1
      <3> QED
        BY <3>2 DEF OneImport
    <2>6. OneImport(s)' => \A i \in Jobs : job[i].scan # s
      <3> SUFFICES ASSUME OneImport(s)', NEW i \in Jobs, job[i].scan = s
                   PROVE  FALSE
        OBVIOUS
      <3>1. i # j /\ job'[i].scan = s /\ job'[j].scan = s
        BY <2>2, NoneAssumption
      <3> QED
        BY <3>1 DEF OneImport
    <2>7. Predecessors'
      <3>1. ASSUME NEW t \in Scans, scan'[t].pred # NoScan
            PROVE  scan'[t].pred # t /\ ProjectOf[scan'[t].pred] = ProjectOf[t]
        <4>1. CASE scan'[t].pred = scan[t].pred
          BY <3>1, <4>1 DEF Carry, Predecessors
        <4>2. CASE t = s /\ scan'[s].pred = proj[ProjectOf[s]].current
          BY <1>cur, <2>1, <2>4, <3>1, <4>2
        <4> QED
          BY <2>4, <4>1, <4>2
      <3>2. \A i \in Jobs : job'[i].state = "none" => job'[i].scan = NoScan
        BY <2>2 DEF Carry, Predecessors
      <3> QED
        BY <3>1, <3>2 DEF Predecessors
    <2>8. CarriedIsRead'
      <3>1. ASSUME NEW t \in Scans, \A i \in Jobs : job'[i].scan # t
            PROVE  carried'[t] = NothingRead
        <4>1. \A i \in Jobs : job[i].scan # t
          BY <2>2, <3>1, NoneAssumption
        <4> QED
          BY <2>4, <4>1 DEF Carry, CarriedIsRead
      <3>2. ASSUME NEW i \in Jobs, NEW t, t = job'[i].scan, job'[i].state # "none", OneImport(t)'
            PROVE  /\ ckpt'[i].phase < INHERITANCE_COMPUTED => carried'[t] = NothingRead
                   /\ ckpt'[i].phase \in INHERITANCE_COMPUTED .. SEALED =>
                        carried'[t] = ckpt'[i].readSet
        <4>1. CASE i = j
          <5>1. t = s /\ \A k \in Jobs : job[k].scan # s
            BY <2>2, <2>6, <3>2, <4>1
          <5> QED
            BY <2>3, <2>4, <4>1, <5>1 DEF Carry, CarriedIsRead, LOCKED, INHERITANCE_COMPUTED
        <4>2. CASE i # j
          <5>1. job'[i] = job[i] /\ ckpt'[i] = ckpt[i] /\ t \in Scans /\ OneImport(t)
            BY <2>2, <2>3, <2>5, <3>2, <4>2 DEF Bound
          <5>2. /\ ckpt[i].phase < INHERITANCE_COMPUTED => carried[t] = NothingRead
                /\ ckpt[i].phase \in INHERITANCE_COMPUTED .. SEALED => carried[t] = ckpt[i].readSet
            BY <3>2, <5>1 DEF Carry, CarriedIsRead
          <5> QED
            BY <2>4, <5>1, <5>2
        <4> QED
          BY <4>1, <4>2
      <3> QED
        BY <3>1, <3>2, CarriedIsReadNext
    <2>9. InheritanceIsCurrent'
      <3>1. ASSUME NEW p \in Projects, NEW t, t = proj'[p].current, t # NoScan, OneImport(t)'
            PROVE  InheritedFrom(t)'
        <4>1. t = proj[p].current /\ t \in Scans /\ t # s
          BY <1>cur, <2>1, <2>4, <3>1 DEF CurrentQuiet
        <4>2. InheritedFrom(t)
          BY <2>5, <3>1, <4>1 DEF Carry, InheritanceIsCurrent
        <4> QED
          BY <2>4, <4>1, <4>2 DEF InheritedFrom
      <3> QED
        BY <3>1, InheritanceIsCurrentNext
    <2> QED
      BY <2>7, <2>8, <2>9 DEF Carry
  <1>2. ASSUME NEW w \in Workers, ComputeInheritance(w)
        PROVE  Carry'
    <2>1. PICK j \in Jobs : j = worker[w].job /\ job[j].state # "none"
      BY <1>2 DEF ComputeInheritance, RunsNext, AtPhase, Bound, Running
    <2>2. PICK s \in Scans : s = job[j].scan
      BY <2>1 DEF Bound
    <2>3. /\ job' = job /\ scan' = scan /\ proj' = proj /\ CarryOver(s)
          /\ ckpt[j].phase + 1 = INHERITANCE_COMPUTED
      BY <1>2, <2>1, <2>2 DEF ComputeInheritance, RunsNext
    <2>4. /\ ckpt'[j].phase = INHERITANCE_COMPUTED /\ ckpt'[j].readSet = ReadSetOf(s)
          /\ \A i \in Jobs : i # j => ckpt'[i] = ckpt[i]
      BY <1>2, <1>ckpt, <2>1, <2>2, <2>3 DEF ComputeInheritance, Checkpoint
    <2>5. ReadSetOf(s) \in [Files -> Nat]
      BY <1>rev, <1>pred, InitialRows DEF ReadSetOf
    <2>6. \A t : OneImport(t)' <=> OneImport(t)
      BY <2>3 DEF OneImport
    <2>7. /\ \A t \in Scans : t # s => carried'[t] = carried[t] /\ rev'[t] = rev[t]
          /\ carried'[s] = [f \in Files |-> IF carried[s][f] # 0 THEN carried[s][f]
                                            ELSE ReadSetOf(s)[f]]
          /\ \A f \in Files : rev[s][f] # 0 => rev'[s][f] = rev[s][f]
      BY <1>rev, <2>3 DEF CarryOver
    <2>8. OneImport(s) => carried'[s] = ReadSetOf(s)
      <3>1. OneImport(s) => carried[s] = NothingRead
        BY <1>phase, <2>1, <2>2, <2>3 DEF Carry, CarriedIsRead, INHERITANCE_COMPUTED
      <3>2. carried[s] = NothingRead => carried'[s] = [f \in Files |-> ReadSetOf(s)[f]]
        BY <2>7 DEF NothingRead
      <3> QED
        BY <2>5, <3>1, <3>2
    <2>9. Predecessors'
      BY <2>3 DEF Carry, Predecessors
    <2>10. CarriedIsRead'
      <3>1. ASSUME NEW t \in Scans, \A i \in Jobs : job'[i].scan # t
            PROVE  carried'[t] = NothingRead
        BY <2>2, <2>3, <2>7, <3>1 DEF Carry, CarriedIsRead
      <3>2. ASSUME NEW i \in Jobs, NEW t, t = job'[i].scan, job'[i].state # "none", OneImport(t)'
            PROVE  /\ ckpt'[i].phase < INHERITANCE_COMPUTED => carried'[t] = NothingRead
                   /\ ckpt'[i].phase \in INHERITANCE_COMPUTED .. SEALED =>
                        carried'[t] = ckpt'[i].readSet
        <4>1. OneImport(t) /\ t \in Scans /\ t = job[i].scan
          BY <2>3, <2>6, <3>2 DEF Bound
        <4>2. CASE i = j
          BY <2>2, <2>4, <2>8, <4>1, <4>2 DEF INHERITANCE_COMPUTED
        <4>3. CASE i # j
          <5>1. t # s
            BY <2>2, <4>1, <4>3 DEF OneImport
          <5>2. /\ ckpt[i].phase < INHERITANCE_COMPUTED => carried[t] = NothingRead
                /\ ckpt[i].phase \in INHERITANCE_COMPUTED .. SEALED => carried[t] = ckpt[i].readSet
            BY <2>3, <3>2, <4>1 DEF Carry, CarriedIsRead
          <5> QED
            BY <2>4, <2>7, <4>1, <4>3, <5>1, <5>2
        <4> QED
          BY <4>2, <4>3
      <3> QED
        BY <3>1, <3>2, CarriedIsReadNext
    <2>11. InheritanceIsCurrent'
      <3>1. ASSUME NEW p \in Projects, NEW t, t = proj'[p].current, t # NoScan, OneImport(t)'
            PROVE  InheritedFrom(t)'
        <4>1. t = proj[p].current /\ t \in Scans /\ OneImport(t)
          BY <1>cur, <2>3, <2>6, <3>1
        <4>2. InheritedFrom(t)
          BY <3>1, <4>1 DEF Carry, InheritanceIsCurrent
        <4>3. PublishedOf(t)
          BY <3>1, <4>1 DEF Chain, FromPublished
        <4>4. t # s
          <5>1. ckpt[j].phase # PUBLISHED
            BY <1>phase, <2>3 DEF INHERITANCE_COMPUTED, PUBLISHED
          <5> QED
            BY <2>2, <4>1, <4>3, <5>1 DEF PublishedOf, OneImport, Chain, SealedOnce
        <4>5. ASSUME scan[t].pred # NoScan, NEW f \in Files, carried'[t][f] # 0
              PROVE  carried'[t][f] = rev'[scan[t].pred][f]
          <5>1. scan[t].pred \in Scans /\ carried'[t] = carried[t]
            BY <1>pred, <2>7, <4>1, <4>4, <4>5
          <5>2. carried[t][f] = rev[scan[t].pred][f]
            BY <4>2, <4>5, <5>1 DEF InheritedFrom
          <5> QED
            BY <2>7, <4>5, <5>1, <5>2
        <4> QED
          BY <2>3, <4>5 DEF InheritedFrom
      <3> QED
        BY <3>1, InheritanceIsCurrentNext
    <2> QED
      BY <2>9, <2>10, <2>11 DEF Carry
  <1>3. ASSUME NEW w \in Workers, PublishTransaction(w)
        PROVE  Carry'
    <2>1. PICK j \in Jobs : j = worker[w].job /\ job[j].state # "none"
      BY <1>3 DEF PublishTransaction, Bound, Running
    <2>2. PICK s \in Scans : s = job[j].scan
      BY <2>1 DEF Bound
    <2>3. PICK p \in Projects : p = ProjectOf[s]
      BY ProjectOfAssumption
    <2>4. /\ ckpt[j].phase = SEALED /\ ReadSetUnchanged(j)
          /\ UNCHANGED <<scan, carried, rev>>
      BY <1>3, <2>1, <2>2, <2>3 DEF PublishTransaction, Publishable, scanVars
    <2>5. \A i \in Jobs : /\ job'[i].scan = job[i].scan
                          /\ job'[i].state = "none" <=> job[i].state = "none"
      BY <1>3, <1>job, <2>1 DEF PublishTransaction, Job
    <2>6. /\ ckpt'[j].phase = PUBLISHED
          /\ \A i \in Jobs : i # j => ckpt'[i] = ckpt[i]
      BY <1>3, <1>ckpt, <2>1 DEF PublishTransaction, Checkpoint
    <2>7. /\ proj'[p].current = s
          /\ \A q \in Projects : q # p => proj'[q].current = proj[q].current
      BY <1>3, <1>proj, <2>1, <2>2, <2>3 DEF PublishTransaction, ProjectState
    <2>8. \A t : OneImport(t)' <=> OneImport(t)
      BY <2>5 DEF OneImport
    <2>9. \A t : InheritedFrom(t)' <=> InheritedFrom(t)
      BY <2>4 DEF InheritedFrom
    <2>10. Predecessors'
      BY <2>4, <2>5 DEF Carry, Predecessors
    <2>11. CarriedIsRead'
      <3>1. ASSUME NEW t \in Scans, \A i \in Jobs : job'[i].scan # t
            PROVE  carried'[t] = NothingRead
        BY <2>4, <2>5, <3>1 DEF Carry, CarriedIsRead
      <3>2. ASSUME NEW i \in Jobs, NEW t, t = job'[i].scan, job'[i].state # "none", OneImport(t)'
            PROVE  /\ ckpt'[i].phase < INHERITANCE_COMPUTED => carried'[t] = NothingRead
                   /\ ckpt'[i].phase \in INHERITANCE_COMPUTED .. SEALED =>
                        carried'[t] = ckpt'[i].readSet
        <4>1. OneImport(t) /\ t = job[i].scan /\ job[i].state # "none"
          BY <2>5, <2>8, <3>2
        <4>2. /\ ckpt[i].phase < INHERITANCE_COMPUTED => carried[t] = NothingRead
              /\ ckpt[i].phase \in INHERITANCE_COMPUTED .. SEALED => carried[t] = ckpt[i].readSet
          BY <4>1 DEF Carry, CarriedIsRead
        <4> QED
          BY <2>4, <2>6, <4>2 DEF INHERITANCE_COMPUTED, SEALED, PUBLISHED
      <3> QED
        BY <3>1, <3>2, CarriedIsReadNext
    <2>12. InheritanceIsCurrent'
      <3>1. ASSUME NEW q \in Projects, NEW t, t = proj'[q].current, t # NoScan, OneImport(t)'
            PROVE  InheritedFrom(t)'
        <4>1. CASE q # p
          BY <2>7, <2>8, <2>9, <3>1, <4>1 DEF Carry, InheritanceIsCurrent
        <4>2. CASE q = p
          <5>1. t = s /\ OneImport(s)
            BY <2>7, <2>8, <3>1, <4>2
          <5>2. carried[s] = ckpt[j].readSet
            BY <2>1, <2>2, <2>4, <5>1 DEF Carry, CarriedIsRead, INHERITANCE_COMPUTED, SEALED
          <5>3. InheritedFrom(s)
            BY <2>2, <2>4, <5>2 DEF InheritedFrom, ReadSetUnchanged
          <5> QED
            BY <2>9, <5>1, <5>3
        <4> QED
          BY <4>1, <4>2
      <3> QED
        BY <3>1, InheritanceIsCurrentNext
    <2> QED
      BY <2>10, <2>11, <2>12 DEF Carry
  <1>4. ASSUME NEW p \in Projects, NEW f \in Files, AnalysisSave(p, f)
        PROVE  Carry'
    <2>1. PICK s \in Scans : s = proj[p].current
      BY <1>4, <1>cur DEF AnalysisSave
    <2>2. /\ UNCHANGED <<job, ckpt, scan, carried>> /\ CurrentQuiet
          /\ \A t \in Scans : t # s => rev'[t] = rev[t]
      BY <1>4, <1>proj, <1>rev, <2>1 DEF AnalysisSave, CurrentQuiet, ProjectState
    <2>3. Predecessors' /\ CarriedIsRead'
      BY <2>2 DEF Carry, Predecessors, CarriedIsRead, OneImport
    <2>4. \A t : OneImport(t)' <=> OneImport(t)
      BY <2>2 DEF OneImport
    <2>5. ASSUME NEW q \in Projects, NEW t, t = proj'[q].current, t # NoScan, OneImport(t)'
          PROVE  InheritedFrom(t)'
      <3>1. t = proj[q].current /\ t \in Scans /\ ProjectOf[t] = q
        BY <1>cur, <2>2, <2>5 DEF CurrentQuiet
      <3>2. InheritedFrom(t)
        BY <2>4, <2>5, <3>1 DEF Carry, InheritanceIsCurrent
      <3>3. scan[t].pred # NoScan => scan[t].pred \in Scans /\ scan[t].pred # s
        BY <1>cur, <1>pred, <2>1, <3>1, NoneAssumption DEF Carry, Predecessors
      <3> QED
        BY <2>2, <3>2, <3>3 DEF InheritedFrom
    <2>6. InheritanceIsCurrent'
      BY <2>5, InheritanceIsCurrentNext
    <2> QED
      BY <2>3, <2>6 DEF Carry
  <1>5. ASSUME CurrentQuiet, UNCHANGED <<carried, rev>>,
               \A s \in Scans : scan'[s].pred = scan[s].pred,
               \A j \in Jobs : /\ job'[j].scan = job[j].scan
                               /\ job'[j].state = "none" <=> job[j].state = "none"
                               /\ ckpt'[j].readSet = ckpt[j].readSet
                               /\ \/ ckpt'[j].phase = ckpt[j].phase
                                  \/ /\ ckpt'[j].phase = ckpt[j].phase + 1
                                     /\ ckpt'[j].phase # INHERITANCE_COMPUTED
        PROVE  Carry'
    <2>1. \A t : OneImport(t)' <=> OneImport(t)
      BY <1>5 DEF OneImport
    <2>2. Predecessors'
      BY <1>5 DEF Carry, Predecessors
    <2>3. CarriedIsRead'
      <3>1. ASSUME NEW t \in Scans, \A i \in Jobs : job'[i].scan # t
            PROVE  carried'[t] = NothingRead
        BY <1>5, <3>1 DEF Carry, CarriedIsRead
      <3>2. ASSUME NEW i \in Jobs, NEW t, t = job'[i].scan, job'[i].state # "none", OneImport(t)'
            PROVE  /\ ckpt'[i].phase < INHERITANCE_COMPUTED => carried'[t] = NothingRead
                   /\ ckpt'[i].phase \in INHERITANCE_COMPUTED .. SEALED =>
                        carried'[t] = ckpt'[i].readSet
        <4>1. OneImport(t) /\ t = job[i].scan /\ job[i].state # "none"
          BY <1>5, <2>1, <3>2
        <4>2. /\ ckpt[i].phase < INHERITANCE_COMPUTED => carried[t] = NothingRead
              /\ ckpt[i].phase \in INHERITANCE_COMPUTED .. SEALED => carried[t] = ckpt[i].readSet
          BY <4>1 DEF Carry, CarriedIsRead
        <4>3. /\ ckpt'[i].phase < INHERITANCE_COMPUTED => ckpt[i].phase < INHERITANCE_COMPUTED
              /\ ckpt'[i].phase \in INHERITANCE_COMPUTED .. SEALED =>
                   ckpt[i].phase \in INHERITANCE_COMPUTED .. SEALED
          BY <1>5, <1>phase DEF INHERITANCE_COMPUTED, SEALED
        <4> QED
          BY <1>5, <4>2, <4>3
      <3> QED
        BY <3>1, <3>2, CarriedIsReadNext
    <2>4. ASSUME NEW q \in Projects, NEW t, t = proj'[q].current, t # NoScan, OneImport(t)'
          PROVE  InheritedFrom(t)'
      <3>1. t = proj[q].current /\ t \in Scans
        BY <1>5, <1>cur, <2>4 DEF CurrentQuiet
      <3>2. InheritedFrom(t)
        BY <2>1, <2>4, <3>1 DEF Carry, InheritanceIsCurrent
      <3> QED
        BY <1>5, <3>1, <3>2 DEF InheritedFrom
    <2>5. InheritanceIsCurrent'
      BY <2>4, InheritanceIsCurrentNext
    <2> QED
      BY <2>2, <2>3, <2>5 DEF Carry
  <1>6. ASSUME NEW w \in Workers, Seal(w)
        PROVE  Carry'
    <2>1. worker[w].job \in Jobs /\ job[worker[w].job].scan \in Scans
      BY <1>6 DEF Seal, Bound, Running
    <2>2. /\ UNCHANGED <<job, carried, rev, proj>>
          /\ ckpt[worker[w].job].phase + 1 # INHERITANCE_COMPUTED
      BY <1>6, <1>phase, <2>1 DEF Seal, SEALED, INHERITANCE_COMPUTED
    <2>3. \A j \in Jobs : /\ ckpt'[j].readSet = ckpt[j].readSet
                          /\ \/ ckpt'[j].phase = ckpt[j].phase
                             \/ /\ ckpt'[j].phase = ckpt[j].phase + 1
                                /\ ckpt'[j].phase # INHERITANCE_COMPUTED
      BY <1>6, <1>ckpt, <2>1, <2>2 DEF Seal, Advance, Checkpoint
    <2>4. \A s \in Scans : scan'[s].pred = scan[s].pred
      BY <1>6, <1>scan, <2>1 DEF Seal, Scan
    <2>5. CurrentQuiet
      BY <2>2 DEF CurrentQuiet
    <2> QED
      BY <1>5, <2>2, <2>3, <2>4, <2>5
  <1>7. ASSUME Quiet
        PROVE  Carry'
    <2>1. CurrentQuiet /\ UNCHANGED <<carried, rev>> /\ \A s \in Scans : scan'[s].pred = scan[s].pred
      BY <1>7 DEF Quiet, ScansQuiet
    <2>2. \A j \in Jobs : /\ job'[j].scan = job[j].scan
                          /\ job'[j].state = "none" <=> job[j].state = "none"
                          /\ ckpt'[j].readSet = ckpt[j].readSet
                          /\ \/ ckpt'[j].phase = ckpt[j].phase
                             \/ /\ ckpt'[j].phase = ckpt[j].phase + 1
                                /\ ckpt'[j].phase # INHERITANCE_COMPUTED
      BY <1>7 DEF Quiet, JobsQuiet, PhasesQuiet
    <2> QED
      BY <1>5, <2>1, <2>2
  <1> QED
    BY <1>1, <1>2, <1>3, <1>4, <1>6, <1>7, QuietStep

(* publish_in_transaction lets one import succeed each CURRENT and replays  *)
(* its read set: whatever imports race, whoever reviews in between and      *)
(* wherever callbacks die, CURRENT carries what its predecessor says.       *)
THEOREM PublicationCurrent == Spec => []PublicationIsCurrent
  <1>1. Init => Chain /\ Carry
    <2> SUFFICES ASSUME Init PROVE Chain /\ Carry
      OBVIOUS
    <2>1. /\ \A j \in Jobs : job[j].state = "none" /\ job[j].scan = NoScan
          /\ \A p \in Projects : proj[p].current = NoScan
          /\ \A s \in Scans : scan[s].pred = NoScan /\ carried[s] = NothingRead
      BY DEF Init
    <2>2. Chain
      BY <2>1 DEF Chain, SealedOnce, FromPublished, MovedOn, OneSuccessor
    <2>3. Carry
      BY <2>1 DEF Carry, Predecessors, CarriedIsRead, InheritanceIsCurrent
    <2> QED
      BY <2>2, <2>3
  <1>2. Inv /\ Chain /\ Carry /\ [Next]_vars => Chain' /\ Carry'
    BY ChainStep, CarryStep DEF Inv, Ownership, Content
  <1>3. Chain /\ Carry => PublicationIsCurrent
    BY DEF Chain, Carry, PublicationIsCurrent
  <1> QED
    BY Invariant, <1>1, <1>2, <1>3, PTL DEF Spec

-----------------------------------------------------------------------------
(* The line map: what it maps keeps its order, and no two lines of the       *)
(* predecessor meet on one line of the candidate.                            *)

LEMMA FencesAre ==
  ASSUME NEW old, NEW new, Len(old) \in Nat, Len(new) \in Nat, NEW kept \in GitDiffs(old, new),
         NEW p \in Fences(old, new, kept)
  PROVE  /\ p \in Nat \X Nat /\ p = <<p[1], p[2]>> /\ p[1] \in Nat /\ p[2] \in Nat
         /\ \/ p \in kept /\ p[1] \in 1..Len(old) /\ p[2] \in 1..Len(new)
            \/ p[1] = 0 /\ p[2] = 0
            \/ p[1] = Len(old) + 1 /\ p[2] = Len(new) + 1
  <1>1. CASE p \in kept
    <2>1. p \in (1..Len(old)) \X (1..Len(new))
      BY <1>1 DEF GitDiffs
    <2> QED
      BY <1>1, <2>1
  <1>2. CASE p = <<0, 0>>
    BY <1>2
  <1>3. CASE p = <<Len(old) + 1, Len(new) + 1>>
    BY <1>3
  <1> QED
    BY <1>1, <1>2, <1>3 DEF Fences

LEMMA FencesIncrease ==
  ASSUME NEW old, NEW new, Len(old) \in Nat, Len(new) \in Nat, NEW kept \in GitDiffs(old, new),
         NEW p \in Fences(old, new, kept), NEW q \in Fences(old, new, kept)
  PROVE  (p[1] < q[1]) <=> (p[2] < q[2])
  <1>1. CASE p \in kept /\ q \in kept
    BY <1>1 DEF GitDiffs, Increasing
  <1>2. CASE p \notin kept \/ q \notin kept
    BY <1>2, FencesAre
  <1> QED
    BY <1>1, <1>2

(* A new line of a hunk is in no other hunk, and Git kept none in it. *)
LEMMA LiesBetween ==
  ASSUME NEW a \in Nat, NEW b \in Nat, NEW j \in (a + 1)..(b - 1)
  PROVE  a < j /\ j < b
  OBVIOUS

LEMMA HunksApart ==
  ASSUME NEW old, NEW new, Len(old) \in Nat, Len(new) \in Nat, NEW kept \in GitDiffs(old, new),
         NEW g \in Consecutive(Fences(old, new, kept)), NEW j \in (g[1][2] + 1)..(g[2][2] - 1)
  PROVE  /\ \A p \in kept : p[2] # j
         /\ \A h \in Consecutive(Fences(old, new, kept)) :
               j \in (h[1][2] + 1)..(h[2][2] - 1) => h[1] = g[1] /\ h[2] = g[2]
  <1> DEFINE F == Fences(old, new, kept)
  <1>1. \A h \in Consecutive(F) : /\ h[1] \in F /\ h[2] \in F /\ h[1][1] < h[2][1]
                                  /\ \A r \in F : r[1] <= h[1][1] \/ r[1] >= h[2][1]
    BY DEF Consecutive
  <1>2. \A r \in F : r[1] \in Nat /\ r[2] \in Nat /\ r = <<r[1], r[2]>>
    BY FencesAre
  <1>3. \A r, q \in F : (r[1] < q[1]) <=> (r[2] < q[2])
    BY FencesIncrease
  <1>4. kept \subseteq F
    BY DEF Fences
  <1> HIDE DEF F
  <1>5. \A r, q \in F : r[1] <= q[1] => r[2] <= q[2]
    BY <1>2, <1>3
  <1>6. \A h \in Consecutive(F) : \A r \in F : r[2] <= h[1][2] \/ r[2] >= h[2][2]
    BY <1>1, <1>2, <1>5
  <1>7. \A r \in F : r[2] # j
    <2>1. g \in Consecutive(F) /\ g[1][2] \in Nat /\ g[2][2] \in Nat
      BY <1>1, <1>2 DEF F
    <2> QED
      BY <1>2, <1>6, <2>1
  <1>8. ASSUME NEW h \in Consecutive(F), j \in (h[1][2] + 1)..(h[2][2] - 1)
        PROVE  h[1] = g[1] /\ h[2] = g[2]
    <2>1. /\ g \in Consecutive(F) /\ g[1] \in F /\ g[2] \in F /\ h[1] \in F /\ h[2] \in F
          /\ g[1][2] < j /\ j < g[2][2] /\ h[1][2] < j /\ j < h[2][2]
      <3>1. g \in Consecutive(F) /\ g[1] \in F /\ g[2] \in F /\ h[1] \in F /\ h[2] \in F
        BY <1>1, <1>8 DEF F
      <3>2. g[1][2] \in Nat /\ g[2][2] \in Nat /\ h[1][2] \in Nat /\ h[2][2] \in Nat
        BY <1>2, <3>1
      <3>3. g[1][2] < j /\ j < g[2][2]
        BY <3>2, LiesBetween
      <3>4. h[1][2] < j /\ j < h[2][2]
        BY <1>8, <3>2, LiesBetween
      <3> QED
        BY <3>1, <3>3, <3>4
    <2>2. h[1][2] <= g[1][2] /\ g[1][2] <= h[1][2] /\ h[2][2] >= g[2][2] /\ g[2][2] >= h[2][2]
      <3>1. h[1][2] <= g[1][2] \/ h[1][2] >= g[2][2]
        BY <1>6, <2>1
      <3>2. g[1][2] <= h[1][2] \/ g[1][2] >= h[2][2]
        BY <1>6, <2>1
      <3>3. h[2][2] <= g[1][2] \/ h[2][2] >= g[2][2]
        BY <1>6, <2>1
      <3>4. g[2][2] <= h[1][2] \/ g[2][2] >= h[2][2]
        BY <1>6, <2>1
      <3>5. /\ g[1][2] \in Nat /\ g[2][2] \in Nat /\ h[1][2] \in Nat /\ h[2][2] \in Nat
            /\ j \in Int
        BY <1>2, <2>1
      <3> QED
        BY <2>1, <3>1, <3>2, <3>3, <3>4, <3>5, SMTT(30)
    <2>3. h[1][2] = g[1][2] /\ h[2][2] = g[2][2]
      BY <1>2, <2>1, <2>2, SMTT(30)
    <2>4. \A r, q \in F : r[2] = q[2] => r = q
      <3> SUFFICES ASSUME NEW r \in F, NEW q \in F, r[2] = q[2] PROVE r = q
        OBVIOUS
      <3>1. ~(r[1] < q[1]) /\ ~(q[1] < r[1])
        BY <1>2, <1>3
      <3>2. r[1] = q[1]
        BY <1>2, <3>1
      <3> QED
        BY <1>2, <3>2
    <2> QED
      BY <2>1, <2>3, <2>4
  <1> QED
    BY <1>4, <1>7, <1>8 DEF F

(* What a line is mapped to: the line Git kept, or the same tokens in        *)
(* another spelling.                                                         *)
LEMMA PairsAre ==
  ASSUME NEW old, NEW new, NEW kept, NEW p \in MapGitText(old, new, kept).pair
  PROVE  \/ p \in kept
         \/ \E g \in Consecutive(Fences(old, new, kept)) :
               p \in MapHunk(old, new, Between(g[1], g[2]))
  <1>1. p \in kept \cup UNION {MapHunk(old, new, h) : h \in Hunks(old, new, kept)}
    BY DEF MapGitText
  <1>2. CASE \E h \in Hunks(old, new, kept) : p \in MapHunk(old, new, h)
    BY <1>2 DEF Hunks
  <1> QED
    BY <1>1, <1>2

LEMMA HunkPairs ==
  ASSUME NEW old, NEW new, NEW h, NEW p \in MapHunk(old, new, h)
  PROVE  /\ p \in h.old \X h.new /\ old[p[1]].tok = new[p[2]].tok /\ old[p[1]].sp # new[p[2]].sp
         /\ \A q \in MapHunk(old, new, h) : (p[1] < q[1]) <=> (p[2] < q[2])
         /\ \A q \in MapHunk(old, new, h) : (q[1] < p[1]) <=> (q[2] < p[2])
  <1>1. MapHunk(old, new, h) \in {Respelled(old, new, h), {}}
    BY DEF MapHunk
  <1>2. p \in Respelled(old, new, h) /\ Increasing(Respelled(old, new, h))
    BY <1>1 DEF MapHunk
  <1> QED
    BY <1>1, <1>2 DEF Respelled, Increasing

LEMMA WithinText ==
  ASSUME NEW a \in Nat, NEW b \in Nat, NEW len \in Nat, b <= len + 1, NEW i \in (a + 1)..(b - 1)
  PROVE  i \in 1..len
  OBVIOUS

LEMMA MapIsExact ==
  ASSUME NEW old, NEW new, Len(old) \in Nat, Len(new) \in Nat, NEW kept \in GitDiffs(old, new),
         NEW p \in MapGitText(old, new, kept).pair
  PROVE  /\ p[1] \in 1..Len(old) /\ p[2] \in 1..Len(new) /\ p = <<p[1], p[2]>>
         /\ old[p[1]].tok = new[p[2]].tok
         /\ p \in kept \/ old[p[1]].sp # new[p[2]].sp
  <1>1. CASE p \in kept
    <2>1. p \in (1..Len(old)) \X (1..Len(new)) /\ SameText(old[p[1]], new[p[2]])
      BY <1>1 DEF GitDiffs
    <2> QED
      BY <1>1, <2>1 DEF SameText
  <1>2. CASE p \notin kept
    <2>1. PICK g \in Consecutive(Fences(old, new, kept)) : p \in MapHunk(old, new, Between(g[1], g[2]))
      BY <1>2, PairsAre
    <2>2. p \in ((g[1][1] + 1)..(g[2][1] - 1)) \X ((g[1][2] + 1)..(g[2][2] - 1))
      <3>1. p \in Between(g[1], g[2]).old \X Between(g[1], g[2]).new
        BY <2>1, HunkPairs
      <3> QED
        BY <3>1 DEF Between
    <2>3. old[p[1]].tok = new[p[2]].tok /\ old[p[1]].sp # new[p[2]].sp
      BY <2>1, HunkPairs
    <2>4. g[1] \in Fences(old, new, kept) /\ g[2] \in Fences(old, new, kept)
      BY <2>1 DEF Consecutive
    <2>5. /\ g[1][1] \in Nat /\ g[1][2] \in Nat /\ g[2][1] \in Nat /\ g[2][2] \in Nat
          /\ g[2][1] <= Len(old) + 1 /\ g[2][2] <= Len(new) + 1
      BY <2>4, FencesAre
    <2>6. p[1] \in (g[1][1] + 1)..(g[2][1] - 1) /\ p[2] \in (g[1][2] + 1)..(g[2][2] - 1)
      BY <2>2
    <2>7. p[1] \in 1..Len(old) /\ p[2] \in 1..Len(new)
      BY <2>5, <2>6, WithinText
    <2>8. p = <<p[1], p[2]>>
      BY <2>2
    <2> QED
      BY <2>3, <2>7, <2>8
  <1> QED
    BY <1>1, <1>2

LEMMA MapIsInjective ==
  ASSUME NEW old, NEW new, Len(old) \in Nat, Len(new) \in Nat, NEW kept \in GitDiffs(old, new),
         NEW p \in MapGitText(old, new, kept).pair, NEW q \in MapGitText(old, new, kept).pair,
         p[2] = q[2]
  PROVE  p[1] = q[1]
  <1>1. /\ p[1] \in Nat /\ p[2] \in Nat /\ q[1] \in Nat
    BY MapIsExact
  <1>2. CASE p \in kept /\ q \in kept
    <2>1. ~(p[1] < q[1]) /\ ~(q[1] < p[1])
      BY <1>1, <1>2 DEF GitDiffs, Increasing
    <2> QED
      BY <1>1, <2>1
  <1>3. ASSUME NEW r \in MapGitText(old, new, kept).pair, r \notin kept
        PROVE  \E g \in Consecutive(Fences(old, new, kept)) :
                  /\ r \in MapHunk(old, new, Between(g[1], g[2]))
                  /\ r[2] \in (g[1][2] + 1)..(g[2][2] - 1)
    <2>1. PICK g \in Consecutive(Fences(old, new, kept)) : r \in MapHunk(old, new, Between(g[1], g[2]))
      BY <1>3, PairsAre
    <2>2. r[2] \in (g[1][2] + 1)..(g[2][2] - 1)
      <3>1. r \in Between(g[1], g[2]).old \X Between(g[1], g[2]).new
        BY <2>1, HunkPairs
      <3> QED
        BY <3>1 DEF Between
    <2> QED
      BY <2>1, <2>2
  <1>4. p \in kept <=> q \in kept
    BY <1>3, HunksApart
  <1>5. CASE p \notin kept /\ q \notin kept
    <2>1. PICK g \in Consecutive(Fences(old, new, kept)) :
             /\ p \in MapHunk(old, new, Between(g[1], g[2]))
             /\ p[2] \in (g[1][2] + 1)..(g[2][2] - 1)
      BY <1>3, <1>5
    <2>2. PICK e \in Consecutive(Fences(old, new, kept)) :
             /\ q \in MapHunk(old, new, Between(e[1], e[2]))
             /\ q[2] \in (e[1][2] + 1)..(e[2][2] - 1)
      BY <1>3, <1>5
    <2>3. e[1] = g[1] /\ e[2] = g[2]
      BY <2>1, <2>2, HunksApart
    <2>5. ~(p[1] < q[1]) /\ ~(q[1] < p[1])
      BY <1>1, <2>1, <2>2, <2>3, HunkPairs
    <2> QED
      BY <1>1, <2>5
  <1> QED
    BY <1>2, <1>4, <1>5

LEMMA MappedIs ==
  ASSUME NEW m, NEW i, MappedLine(m, i) # 0
  PROVE  \E p \in m.pair : p[1] = i /\ p[2] = MappedLine(m, i)
  BY DEF MappedLine

(* Numbers and reasons. *)
LEMMA LeastOf ==
  ASSUME NEW S \in SUBSET Nat, S # {}
  PROVE  Min(S) \in S /\ \A n \in S : Min(S) <= n
  <1> DEFINE R == {pair \in Nat \X Nat : pair[1] < pair[2]}
  <1>1. IsWellFoundedOn(R, Nat)
    BY NatLessThanWellFounded DEF OpToRel
  <1> HIDE DEF R
  <1>2. \A m, n \in Nat : ~(<<n, m>> \in R) => m <= n
    BY DEF R
  <1>3. PICK m \in S : \A n \in S : ~(<<n, m>> \in R)
    BY <1>1, WFMin
  <1>4. \A n \in S : m <= n
    BY <1>2, <1>3
  <1> QED
    BY <1>4 DEF Min

LEMMA GreatestOf ==
  ASSUME NEW N \in Nat, NEW S \in SUBSET (0..N), S # {}
  PROVE  Max(S) \in S
  <1> DEFINE T == {N - n : n \in S}
  <1>1. T \in SUBSET Nat
    OBVIOUS
  <1>0. T # {}
    OBVIOUS
  <1>2. Min(T) \in T /\ \A k \in T : Min(T) <= k
    BY <1>0, <1>1, LeastOf
  <1>3. PICK n \in S : \A k \in T : N - n <= k
    BY <1>2
  <1>4. \A m \in S : n >= m
    <2> SUFFICES ASSUME NEW m \in S PROVE n >= m
      OBVIOUS
    <2>1. N - n <= N - m
      BY <1>3
    <2> QED
      BY <2>1
  <1> QED
    BY <1>4 DEF Max

LEMMA RunsInside ==
  ASSUME NEW N \in Nat, NEW M \in SUBSET (0..N), NEW t \in M, NEW run, run = RunAround(M, t)
  PROVE  run[1]..run[2] \subseteq M
  <1> DEFINE A == {a \in M : a <= t /\ a..t \subseteq M}
             B == {b \in M : b >= t /\ t..b \subseteq M}
  <1>0. t \in Nat /\ t..t \subseteq M
    OBVIOUS
  <1>1. t \in A /\ t \in B
    BY <1>0
  <1>2. A \in SUBSET Nat /\ B \in SUBSET (0..N)
    <2>1. M \subseteq Nat /\ A \subseteq M /\ B \subseteq M
      OBVIOUS
    <2> QED
      BY <2>1
  <1>3. Min(A) \in A /\ Max(B) \in B
    BY <1>1, <1>2, LeastOf, GreatestOf
  <1>4. run[1] = Min(A) /\ run[2] = Max(B)
    BY DEF RunAround
  <1> HIDE DEF A, B
  <1>5. run[1] \in 0..N /\ run[2] \in 0..N /\ run[1]..t \subseteq M /\ t..run[2] \subseteq M
    BY <1>3, <1>4 DEF A, B
  <1> QED
    BY <1>5

(* compare_line inherits nothing but the line itself, in its place. *)
LEMMA LineIsSame ==
  ASSUME NEW c, NEW pair, NEW a, NEW b, LineReason(c, pair, a, b) \in {NoReason, "INHERITED"}
  PROVE  a.fn = b.fn /\ a.fn \notin Uncertain \cup {None} /\ a.ctl = b.ctl /\ a.pp = b.pp
  <1>1. PICK checks : checks = <<
           <<\E k \in {pair[1], pair[2]} : c.ix[k].memory, "DEPENDENCY_INDEX_MEMORY_BUDGET_EXHAUSTED">>,
           <<a.tok # b.tok, "LINE_CODE_CHANGED">>,
           <<None \in {a.fn, b.fn}, "FUNCTION_ID_UNRESOLVED">>,
           <<a.fn # b.fn, "FUNCTION_CHANGED">>,
           <<{a.fn, b.fn} \cap Uncertain # {}, "PARSER_UNRELIABLE">>,
           <<a.ctl # b.ctl, "CONTROL_CONTEXT_CHANGED">>,
           <<a.pp # b.pp, "PP_CONTEXT_CHANGED">> >>
    OBVIOUS
  <1>2. FirstReason(checks) \in {NoReason, "INHERITED"}
    BY <1>1 DEF LineReason
  <1> DEFINE failing == {n \in DOMAIN checks : checks[n][1]}
  <1>3. DOMAIN checks = 1..7
    BY <1>1
  <1>4. \A n \in 1..7 : checks[n][2] \notin {NoReason, "INHERITED"}
    BY <1>1 DEF NoReason
  <1>5. failing = {}
    <2> SUFFICES ASSUME failing # {} PROVE FALSE
      OBVIOUS
    <2>1. failing \in SUBSET Nat
      BY <1>3
    <2>2. Min(failing) \in failing
      BY <2>1, LeastOf
    <2>3. FirstReason(checks) = checks[Min(failing)][2]
      BY DEF FirstReason
    <2> QED
      BY <1>2, <1>3, <1>4, <2>2, <2>3
  <1>6. \A n \in 1..7 : ~checks[n][1]
    BY <1>3, <1>5
  <1>7. ~checks[3][1] /\ ~checks[4][1] /\ ~checks[5][1] /\ ~checks[6][1] /\ ~checks[7][1]
    BY <1>6
  <1> QED
    BY <1>1, <1>7

LEMMA InheritsWhat ==
  ASSUME NEW r, NEW reason, RelationReason(r, reason) = "INHERITED"
  PROVE  reason \in {NoReason, "INHERITED"}
  <1> SUFFICES ASSUME reason # NoReason PROVE reason = "INHERITED"
    OBVIOUS
  <1>0. (reason # NoReason) = TRUE
    OBVIOUS
  <1>1. PICK checks : checks = << <<TRUE, reason>>, <<~r.verified, "BLOCK_AMBIGUOUS">>,
                                  <<TRUE, "INHERITED">> >>
    OBVIOUS
  <1>2. FirstReason(checks) = "INHERITED"
    BY <1>0, <1>1 DEF RelationReason
  <1> DEFINE failing == {n \in DOMAIN checks : checks[n][1]}
  <1>3. DOMAIN checks = 1..3 /\ checks[1][1] /\ checks[1][2] = reason
    BY <1>1
  <1>4. 1 \in failing /\ failing \in SUBSET Nat /\ \A n \in failing : n >= 1
    BY <1>3
  <1>5. Min(failing) = 1
    <2>1. Min(failing) \in failing /\ \A n \in failing : Min(failing) <= n
      BY <1>4, LeastOf
    <2>2. Min(failing) \in Nat /\ Min(failing) >= 1 /\ Min(failing) <= 1
      BY <1>4, <2>1
    <2> QED
      BY <2>2
  <1>6. FirstReason(checks) = checks[Min(failing)][2]
    BY <1>4 DEF FirstReason
  <1> QED
    BY <1>2, <1>3, <1>5, <1>6

-----------------------------------------------------------------------------
(* The inductive invariant of a run *)

MapOf(f) == MapGitText(OldText[f], texts[f].new, texts[f].kept)

(* A commit that was read stays what it was. *)
TextsInv ==
  \A f \in DOMAIN texts :
    /\ f \in Range(RelationFiles) /\ texts[f].new \in NewTexts[f]
    /\ texts[f].kept \in GitDiffs(OldText[f], texts[f].new)

(* The walk is at a file; a rolled back run has left nothing. *)
WalkInv ==
  /\ status \in [Repositories -> Readiness] /\ at \in Nat
  /\ pc \in {"open", "compare"} => at \in DOMAIN RelationFiles
  /\ pc = "failed" => 1 \in DOMAIN RelationFiles /\ DOMAIN decided = {}
  /\ pc = "open" => \A d \in DOMAIN decided : \E n \in 1..(at - 1) : d[1] = RelationFiles[n]

(* Of the open file, no relation that is still to come has had its line      *)
(* decided.                                                                  *)
OpenInv ==
  pc = "compare" =>
    /\ File \in DOMAIN texts /\ snap.new = texts[File].new /\ snap.map = MapOf(File)
    /\ rest \in Seq(Range(Relations[File]))
    /\ \A m, n \in DOMAIN rest : rest[m].line = rest[n].line => m = n
    /\ \A n \in DOMAIN rest : <<File, MappedLine(snap.map, rest[n].line)>> \notin DOMAIN decided
    /\ \A d \in DOMAIN decided : \E n \in 1..at : d[1] = RelationFiles[n]

(* INHERITED is said of a line once its relation is there. *)
AgreeInv ==
  /\ \A l \in links : <<l.file, l.to>> \in DOMAIN decided /\ decided[<<l.file, l.to>>] = "INHERITED"
  /\ \A l, m \in links : l.file = m.file /\ l.to = m.to => l = m
  /\ \A d \in DOMAIN decided : decided[d] = "INHERITED" => \E l \in links : <<l.file, l.to>> = d
  /\ pc = "done" => Undecided \subseteq DOMAIN decided

(* A candidate block, cached or used, holds only lines its source mapped to. *)
Maps(f, block) == \A j \in block[1]..block[2] : \E p \in MapOf(f).pair : p[2] = j

LinkInv ==
  /\ \A k \in DOMAIN blocks : k[1] \in DOMAIN texts /\ Maps(k[1], blocks[k])
  /\ \A l \in links : /\ l.file \in DOMAIN texts /\ SameLine(l.file, l.from, l.to)
                      /\ l.to \in l.block[1]..l.block[2] /\ Maps(l.file, l.block)

InheritInv == TextsInv /\ WalkInv /\ OpenInv /\ AgreeInv /\ LinkInv

(* Whatever its dependencies, an inherited line is the line it was: Git kept *)
(* it or only its formatting changed, in the same function and contexts      *)
(* (compare_line); the decisions of a finished run agree with its relations, *)
(* and its blocks are precise.                                               *)
LinesAreInherited ==
  /\ \A l \in links : SameLine(l.file, l.from, l.to)
  /\ DecisionsAgree /\ BlocksArePrecise

-----------------------------------------------------------------------------
(* The invariant holds of every run: first, the steps that create nothing. *)

LEMMA InheritFirst ==
  ASSUME InheritanceInit PROVE InheritInv
  <1>1. /\ DOMAIN texts = {} /\ DOMAIN decided = {} /\ DOMAIN blocks = {} /\ links = {} /\ at = 1
        /\ status \in [Repositories -> Readiness] /\ pc \in {"open", "sweep"}
        /\ pc = "open" => RelationFiles # <<>>
    BY DEF InheritanceInit, Start
  <1>2. RelationFiles # <<>> => 1 \in DOMAIN RelationFiles
    BY FilesAssumption
  <1>3. TextsInv /\ LinkInv
    BY <1>1 DEF TextsInv, LinkInv
  <1>4. WalkInv /\ OpenInv /\ AgreeInv
    BY <1>1, <1>2 DEF WalkInv, OpenInv, AgreeInv
  <1> QED
    BY <1>3, <1>4 DEF InheritInv

LEMMA TextsStay ==
  ASSUME TextsInv, UNCHANGED texts PROVE TextsInv'
  BY DEF TextsInv

LEMMA LinksStay ==
  ASSUME LinkInv, UNCHANGED <<texts, links, blocks>> PROVE LinkInv'
  BY DEF LinkInv, Maps, MapOf, SameLine

LEMMA AgreementStays ==
  ASSUME AgreeInv, UNCHANGED <<links, decided>>, pc' # "done" PROVE AgreeInv'
  BY DEF AgreeInv

LEMMA EmptyIsFine ==
  ASSUME InheritInv, pc \in {"open", "compare"}, Abandon PROVE InheritInv'
  <1>1. /\ UNCHANGED <<texts, status, at>> /\ pc' = "failed" /\ links' = {}
        /\ DOMAIN decided' = {} /\ DOMAIN blocks' = {}
    BY DEF Abandon
  <1>2. TextsInv'
    BY <1>1, TextsStay DEF InheritInv
  <1>3. 1 \in DOMAIN RelationFiles
    <2>1. at \in DOMAIN RelationFiles
      BY DEF InheritInv, WalkInv
    <2> QED
      BY <2>1, FilesAssumption
  <1>4. WalkInv'
    BY <1>1, <1>3 DEF InheritInv, WalkInv
  <1>5. OpenInv' /\ AgreeInv' /\ LinkInv'
    BY <1>1 DEF OpenInv, AgreeInv, LinkInv
  <1> QED
    BY <1>2, <1>4, <1>5 DEF InheritInv

LEMMA NextFileIsFine ==
  ASSUME InheritInv, pc \in {"open", "compare"}, NEW c, NextFile(c),
         UNCHANGED <<status, texts, decided, links, blocks>>
  PROVE  InheritInv'
  <1>1. /\ at' = at + 1 /\ pc' \in {"sweep", "open"}
        /\ pc' = "open" => at # Len(RelationFiles)
    BY DEF NextFile
  <1>2. at \in 1..Len(RelationFiles) /\ DOMAIN RelationFiles = 1..Len(RelationFiles)
    <2>1. at \in DOMAIN RelationFiles
      BY DEF InheritInv, WalkInv
    <2> QED
      BY <2>1, FilesAssumption
  <1>3. \A d \in DOMAIN decided : \E n \in 1..at : d[1] = RelationFiles[n]
    <2>1. CASE pc = "compare"
      BY <2>1 DEF InheritInv, OpenInv
    <2>2. CASE pc = "open"
      <3>1. 1..(at - 1) \subseteq 1..at
        BY <1>2
      <3> QED
        BY <2>2, <3>1 DEF InheritInv, WalkInv
    <2> QED
      BY <2>1, <2>2
  <1>4. Len(RelationFiles) \in Nat
    BY FilesAssumption
  <1>5. at' \in Nat /\ at' - 1 = at /\ (pc' = "open" => at' \in DOMAIN RelationFiles)
    <2>1. at \in Nat /\ at' = at + 1
      BY <1>1 DEF InheritInv, WalkInv
    <2>2. ASSUME pc' = "open" PROVE at' \in 1..Len(RelationFiles)
      <3>1. at # Len(RelationFiles)
        BY <1>1, <2>2
      <3>2. at <= Len(RelationFiles)
        BY <1>2, <1>4
      <3> QED
        BY <1>4, <2>1, <3>1, <3>2
    <2> QED
      BY <1>2, <2>1, <2>2
  <1>6. WalkInv'
    BY <1>1, <1>3, <1>5 DEF InheritInv, WalkInv
  <1>7. OpenInv'
    BY <1>1 DEF OpenInv
  <1>8. AgreeInv'
    BY <1>1, AgreementStays DEF InheritInv
  <1>9. TextsInv' /\ LinkInv'
    BY TextsStay, LinksStay DEF InheritInv
  <1> QED
    BY <1>6, <1>7, <1>8, <1>9 DEF InheritInv

LEMMA SweepIsFine ==
  ASSUME InheritInv, Sweep PROVE InheritInv'
  <1>1. /\ pc' = "done" /\ UNCHANGED <<status, at, texts, links, blocks>>
        /\ decided' = [d \in DOMAIN decided \cup Undecided |->
                           IF d \in DOMAIN decided THEN decided[d] ELSE SweepReason(d[1])]
    BY DEF Sweep
  <1>2. TextsInv' /\ LinkInv' /\ WalkInv' /\ OpenInv'
    <2>1. TextsInv' /\ LinkInv'
      BY <1>1, TextsStay, LinksStay DEF InheritInv
    <2>2. WalkInv' /\ OpenInv'
      BY <1>1 DEF InheritInv, WalkInv, OpenInv
    <2> QED
      BY <2>1, <2>2
  <1>3. \A d \in Undecided : SweepReason(d[1]) # "INHERITED"
    <2> SUFFICES ASSUME NEW d \in Undecided PROVE SweepReason(d[1]) # "INHERITED"
      OBVIOUS
    <2>1. PICK f \in Range(RelationFiles) : d \in {f} \X UncoveredLines(f)
      BY DEF Undecided
    <2>2. d[1] = f /\ RepositoryOf[f] \in Repositories
      BY <2>1, FilesAssumption
    <2>3. status[RepositoryOf[d[1]]] \in Readiness
      BY <2>2 DEF InheritInv, WalkInv
    <2> QED
      BY <2>3, ReadinessAssumption DEF SweepReason
  <1>4. DOMAIN decided' = DOMAIN decided \cup Undecided
    BY <1>1
  <1>5. /\ \A d \in DOMAIN decided : decided'[d] = decided[d]
        /\ \A d \in DOMAIN decided' \ DOMAIN decided : decided'[d] # "INHERITED"
    BY <1>1, <1>3
  <1>6. Undecided' = Undecided
    BY DEF Undecided, UncoveredLines
  <1>7. AgreeInv'
    BY <1>1, <1>4, <1>5, <1>6 DEF InheritInv, AgreeInv
  <1> QED
    BY <1>2, <1>7 DEF InheritInv

LEMMA RetryIsFine ==
  ASSUME InheritInv, Retry PROVE InheritInv'
  <1>1. /\ pc = "failed" /\ pc' = "open" /\ at' = 1
        /\ UNCHANGED <<status, texts, decided, links, blocks>>
    BY DEF Retry
  <1>2. TextsInv' /\ LinkInv' /\ AgreeInv'
    BY <1>1, TextsStay, LinksStay, AgreementStays DEF InheritInv
  <1>3. WalkInv' /\ OpenInv'
    BY <1>1 DEF InheritInv, WalkInv, OpenInv
  <1> QED
    BY <1>2, <1>3 DEF InheritInv

LEMMA SkipIsFine ==
  ASSUME InheritInv, SkipRelation PROVE InheritInv'
  <1>1. /\ pc = "compare" /\ rest # <<>> /\ rest' = Tail(rest)
        /\ UNCHANGED <<status, pc, at, snap, texts, decided, links, blocks>>
    BY DEF SkipRelation
  <1>2. TextsInv' /\ LinkInv' /\ AgreeInv'
    BY <1>1, TextsStay, LinksStay, AgreementStays DEF InheritInv
  <1>3. WalkInv'
    BY <1>1 DEF InheritInv, WalkInv
  <1>4. File' = File
    BY <1>1 DEF File
  <1>5. /\ File \in DOMAIN texts /\ snap.new = texts[File].new /\ snap.map = MapOf(File)
        /\ rest \in Seq(Range(Relations[File]))
        /\ \A m, n \in DOMAIN rest : rest[m].line = rest[n].line => m = n
        /\ \A n \in DOMAIN rest : <<File, MappedLine(snap.map, rest[n].line)>> \notin DOMAIN decided
        /\ \A d \in DOMAIN decided : \E n \in 1..at : d[1] = RelationFiles[n]
    BY <1>1 DEF InheritInv, OpenInv
  <1>6. /\ rest' \in Seq(Range(Relations[File]))
        /\ \A n \in DOMAIN rest' : n + 1 \in DOMAIN rest /\ rest'[n] = rest[n + 1]
    BY <1>1, <1>5
  <1>7. \A m, n \in DOMAIN rest' : rest'[m].line = rest'[n].line => m = n
    <2> SUFFICES ASSUME NEW m \in DOMAIN rest', NEW n \in DOMAIN rest', rest'[m].line = rest'[n].line
                 PROVE  m = n
      OBVIOUS
    <2>1. m \in Nat /\ n \in Nat
      BY <1>6
    <2>2. m + 1 = n + 1
      BY <1>5, <1>6
    <2> QED
      BY <2>1, <2>2
  <1>8. \A n \in DOMAIN rest' : <<File, MappedLine(snap.map, rest'[n].line)>> \notin DOMAIN decided
    BY <1>5, <1>6
  <1>9. OpenInv'
    BY <1>1, <1>4, <1>5, <1>6, <1>7, <1>8 DEF OpenInv, MapOf
  <1> QED
    BY <1>2, <1>3, <1>9 DEF InheritInv

(* Opening a file reads its commit, or the commit it read before. *)
LEMMA VersionsAre ==
  ASSUME InheritInv, NEW f \in Range(RelationFiles), NEW v \in Versions(f)
  PROVE  /\ v.new \in NewTexts[f] /\ v.kept \in GitDiffs(OldText[f], v.new)
         /\ f \in DOMAIN texts => v = texts[f]
  <1>1. CASE f \in DOMAIN texts
    BY <1>1 DEF Versions, InheritInv, TextsInv
  <1>2. CASE f \notin DOMAIN texts
    <2>1. PICK new \in NewTexts[f] :
             v \in {[new |-> new, kept |-> kept] : kept \in GitDiffs(OldText[f], new)}
      BY <1>2 DEF Versions
    <2>2. PICK kept \in GitDiffs(OldText[f], new) : v = [new |-> new, kept |-> kept]
      BY <2>1
    <2>3. v.new = new /\ v.kept = kept
      BY <2>2
    <2> QED
      BY <1>2, <2>3
  <1> QED
    BY <1>1, <1>2

LEMMA OpensTheFile ==
  ASSUME InheritInv, pc = "open", NEW v \in Versions(File),
         snap' = [map |-> MapGitText(OldText[File], v.new, v.kept), new |-> v.new],
         texts' = Stored(texts, File, v), rest' = RelationPages, pc' = "compare",
         UNCHANGED <<at, status, decided, links, blocks>>
  PROVE  InheritInv'
  <1>1. at \in DOMAIN RelationFiles /\ DOMAIN RelationFiles = 1..Len(RelationFiles)
    BY FilesAssumption DEF InheritInv, WalkInv
  <1>2. File \in Range(RelationFiles) /\ File' = File
    BY <1>1 DEF File, Range
  <1>3. /\ v.new \in NewTexts[File] /\ v.kept \in GitDiffs(OldText[File], v.new)
        /\ File \in DOMAIN texts => v = texts[File]
    BY <1>2, VersionsAre
  <1>4. /\ DOMAIN texts' = DOMAIN texts \cup {File} /\ texts'[File] = v
        /\ \A f \in DOMAIN texts : texts'[f] = texts[f]
    BY <1>3 DEF Stored
  <1>5. TextsInv'
    BY <1>2, <1>3, <1>4 DEF InheritInv, TextsInv
  <1>6. WalkInv'
    BY <1>1 DEF InheritInv, WalkInv
  <1>7. AgreeInv'
    BY AgreementStays DEF InheritInv
  <1>8. LinkInv'
    <2>1. \A f \in DOMAIN texts : MapOf(f)' = MapOf(f)
      BY <1>4 DEF MapOf
    <2>2. ASSUME NEW f \in DOMAIN texts, NEW block, Maps(f, block)
          PROVE  \A j \in block[1]..block[2] : \E p \in (MapOf(f)').pair : p[2] = j
      BY <2>1, <2>2 DEF Maps
    <2>3. ASSUME NEW k \in DOMAIN blocks'
          PROVE  k[1] \in DOMAIN texts' /\ Maps(k[1], blocks[k])'
      <3>1. k[1] \in DOMAIN texts /\ Maps(k[1], blocks[k])
        BY DEF InheritInv, LinkInv
      <3> QED
        BY <1>4, <2>2, <3>1 DEF Maps
    <2>4. ASSUME NEW l \in links'
          PROVE  /\ l.file \in DOMAIN texts' /\ SameLine(l.file, l.from, l.to)'
                 /\ l.to \in l.block[1]..l.block[2] /\ Maps(l.file, l.block)'
      <3>1. /\ l.file \in DOMAIN texts /\ SameLine(l.file, l.from, l.to)
            /\ l.to \in l.block[1]..l.block[2] /\ Maps(l.file, l.block)
        BY DEF InheritInv, LinkInv
      <3>2. SameLine(l.file, l.from, l.to)'
        BY <1>4, <3>1 DEF SameLine
      <3> QED
        BY <1>4, <2>2, <3>1, <3>2 DEF Maps
    <2> QED
      BY <2>3, <2>4 DEF LinkInv
  <1>9. OpenInv'
    <2>1. snap'.new = v.new /\ snap'.map = MapGitText(OldText[File], v.new, v.kept)
      OBVIOUS
    <2>2. /\ rest' \in Seq(Range(Relations[File]))
          /\ \A m, n \in DOMAIN rest' : rest'[m].line = rest'[n].line => m = n
      BY <1>2, RelationsAssumption DEF RelationPages
    <2>3. \A d \in DOMAIN decided : \E n \in 1..(at - 1) : d[1] = RelationFiles[n]
      BY DEF InheritInv, WalkInv
    <2>4. \A d \in DOMAIN decided : d[1] # File
      <3> SUFFICES ASSUME NEW d \in DOMAIN decided, d[1] = File PROVE FALSE
        OBVIOUS
      <3>1. PICK n \in 1..(at - 1) : d[1] = RelationFiles[n]
        BY <2>3
      <3>2. n \in DOMAIN RelationFiles /\ n # at
        BY <1>1
      <3> QED
        BY <1>1, <3>1, <3>2, FilesAssumption DEF File
    <2>5. \A n \in DOMAIN rest' : <<File, MappedLine(snap'.map, rest'[n].line)>> \notin DOMAIN decided
      BY <2>4
    <2>6. \A d \in DOMAIN decided : \E n \in 1..at : d[1] = RelationFiles[n]
      <3>1. 1..(at - 1) \subseteq 1..at
        BY <1>1
      <3> QED
        BY <2>3, <3>1
    <2>7. MapOf(File)' = snap'.map
      BY <1>2, <1>4, <2>1 DEF MapOf
    <2> QED
      BY <1>2, <1>4, <2>1, <2>2, <2>5, <2>6, <2>7 DEF OpenInv
  <1> QED
    BY <1>5, <1>6, <1>7, <1>8, <1>9 DEF InheritInv

LEMMA OpenIsFine ==
  ASSUME InheritInv, OpenFile PROVE InheritInv'
  <1>1. PICK c : c = OpenPair(cache, PairOf[RepositoryOf[File]], RepositoryOf[File])
    OBVIOUS
  <1>2. pc = "open" /\ Snapshot(c) /\ UNCHANGED <<status, decided, links, blocks>>
    BY <1>1 DEF OpenFile
  <1>3. CASE PairOf[RepositoryOf[File]] \in c.failed
    BY <1>2, <1>3, NextFileIsFine DEF Snapshot
  <1>4. CASE PairOf[RepositoryOf[File]] \notin c.failed
    <2>1. PICK v \in Versions(File) :
             /\ snap' = [map |-> MapGitText(OldText[File], v.new, v.kept), new |-> v.new]
             /\ texts' = Stored(texts, File, v)
      BY <1>2, <1>4 DEF Snapshot
    <2>2. rest' = RelationPages /\ pc' = "compare" /\ UNCHANGED at
      BY <1>2, <1>4 DEF Snapshot
    <2> QED
      BY <1>2, <2>1, <2>2, OpensTheFile
  <1> QED
    BY <1>3, <1>4

(* Comparing a relation decides the line it maps to, once.  From here on r   *)
(* is the next relation, t its candidate line.                               *)
Compares(r, t) ==
  /\ pc = "compare" /\ rest # <<>> /\ r = Head(rest)
  /\ t = MappedLine(snap.map, r.line) /\ t \in TargetLines[File]

LEMMA ComparedIs ==
  ASSUME InheritInv, NEW r, NEW t, Compares(r, t)
  PROVE  /\ File \in DOMAIN texts /\ File \in Range(RelationFiles) /\ snap.map = MapOf(File)
         /\ snap.new = texts[File].new /\ t # 0
         /\ r \in Range(Relations[File]) /\ rest[1] = r /\ 1 \in DOMAIN rest
         /\ Len(OldText[File]) \in Nat /\ Len(texts[File].new) \in Nat
         /\ texts[File].kept \in GitDiffs(OldText[File], texts[File].new)
         /\ <<File, t>> \notin DOMAIN decided
  <1>1. /\ File \in DOMAIN texts /\ snap.new = texts[File].new /\ snap.map = MapOf(File)
        /\ rest \in Seq(Range(Relations[File]))
        /\ \A n \in DOMAIN rest : <<File, MappedLine(snap.map, rest[n].line)>> \notin DOMAIN decided
    BY DEF Compares, InheritInv, OpenInv
  <1>2. /\ File \in Range(RelationFiles) /\ texts[File].new \in NewTexts[File]
        /\ texts[File].kept \in GitDiffs(OldText[File], texts[File].new)
    BY <1>1 DEF InheritInv, TextsInv
  <1>3. r \in Range(Relations[File]) /\ rest[1] = r /\ 1 \in DOMAIN rest
    BY <1>1 DEF Compares
  <1>4. /\ OldText[File] \in Seq(Range(OldText[File]))
        /\ texts[File].new \in Seq(Range(texts[File].new)) /\ 0 \notin TargetLines[File]
    BY <1>2, TextsAssumption
  <1>5. t # 0
    BY <1>4 DEF Compares
  <1>7. Len(OldText[File]) \in Nat /\ Len(texts[File].new) \in Nat
    BY <1>4
  <1>8. <<File, t>> \notin DOMAIN decided
    BY <1>1, <1>3 DEF Compares
  <1> QED
    BY <1>1, <1>2, <1>3, <1>5, <1>7, <1>8

LEMMA ComparedMaps ==
  ASSUME InheritInv, NEW r, NEW t, Compares(r, t)
  PROVE  \E p \in MapOf(File).pair : p[1] = r.line /\ p[2] = t
  <1>1. snap.map = MapOf(File) /\ t # 0
    BY ComparedIs
  <1> QED
    BY <1>1, MappedIs DEF Compares

(* No other relation that is still to come maps to t. *)
LEMMA OthersMapElsewhere ==
  ASSUME InheritInv, NEW r, NEW t, Compares(r, t), NEW n \in DOMAIN rest, n # 1
  PROVE  MappedLine(snap.map, rest[n].line) # t
  <1> SUFFICES ASSUME MappedLine(snap.map, rest[n].line) = t PROVE FALSE
    OBVIOUS
  <1>1. /\ snap.map = MapOf(File) /\ t # 0 /\ rest[1] = r /\ 1 \in DOMAIN rest
        /\ Len(OldText[File]) \in Nat /\ Len(texts[File].new) \in Nat
        /\ texts[File].kept \in GitDiffs(OldText[File], texts[File].new)
    BY ComparedIs
  <1>2. PICK p \in MapOf(File).pair : p[1] = r.line /\ p[2] = t
    BY ComparedMaps
  <1>3. PICK q \in MapOf(File).pair : q[1] = rest[n].line /\ q[2] = t
    BY <1>1, MappedIs
  <1>4. p[1] = q[1]
    BY <1>1, <1>2, <1>3, MapIsInjective DEF MapOf
  <1>5. \A i, j \in DOMAIN rest : rest[i].line = rest[j].line => i = j
    BY DEF Compares, InheritInv, OpenInv
  <1> QED
    BY <1>1, <1>2, <1>3, <1>4, <1>5

LEMMA BlockIsPrecise ==
  ASSUME InheritInv, NEW r, NEW t, Compares(r, t), NEW block, block = CandidateBlock(snap.map, r, t)
  PROVE  Maps(File, block)
  <1>1. /\ snap.map = MapOf(File) /\ t # 0 /\ r \in Range(Relations[File])
        /\ File \in Range(RelationFiles)
        /\ Len(OldText[File]) \in Nat /\ Len(texts[File].new) \in Nat
        /\ texts[File].kept \in GitDiffs(OldText[File], texts[File].new)
    BY ComparedIs
  <1>2. CASE BlockKey(r) \in DOMAIN blocks
    <2>1. BlockKey(r)[1] = File
      BY DEF BlockKey
    <2>2. block = blocks[BlockKey(r)]
      BY <1>2 DEF CandidateBlock
    <2> QED
      BY <1>2, <2>1, <2>2 DEF InheritInv, LinkInv
  <1>3. CASE BlockKey(r) \notin DOMAIN blocks
    <2>1. PICK M : M = BlockTargets(snap.map, r)
      OBVIOUS
    <2>2. ASSUME NEW j \in M
          PROVE  j \in 0..Len(texts[File].new) /\ \E p \in MapOf(File).pair : p[2] = j
      <3>1. PICK i \in r.from..r.to : j = MappedLine(snap.map, i) /\ j # 0
        BY <2>1 DEF BlockTargets
      <3>2. PICK p \in MapOf(File).pair : p[1] = i /\ p[2] = j
        BY <1>1, <3>1, MappedIs
      <3>3. p[2] \in 1..Len(texts[File].new)
        BY <1>1, MapIsExact DEF MapOf
      <3> QED
        BY <1>1, <3>2, <3>3
    <2>3. t \in M
      <3>1. r.line \in r.from..r.to
        BY <1>1, RelationsAssumption
      <3> QED
        BY <1>1, <2>1, <3>1 DEF BlockTargets, Compares
    <2>4. block = RunAround(M, t)
      BY <1>3, <2>1 DEF CandidateBlock
    <2>5. M \in SUBSET (0..Len(texts[File].new))
      BY <2>2
    <2>6. block[1]..block[2] \subseteq M
      BY <1>1, <2>3, <2>4, <2>5, RunsInside
    <2> QED
      BY <2>2, <2>6 DEF Maps
  <1> QED
    BY <1>2, <1>3

LEMMA InheritsTheLine ==
  ASSUME InheritInv, NEW r, NEW t, Compares(r, t), NEW fault, NEW result,
         result = CompareLine(OldText[File][r.line], snap.new[t], fault),
         RelationReason(r, result.reason) = "INHERITED"
  PROVE  SameLine(File, r.line, t)
  <1>1. /\ snap.map = MapOf(File) /\ snap.new = texts[File].new
        /\ Len(OldText[File]) \in Nat /\ Len(texts[File].new) \in Nat
        /\ texts[File].kept \in GitDiffs(OldText[File], texts[File].new)
    BY ComparedIs
  <1>2. PICK p \in MapOf(File).pair : p[1] = r.line /\ p[2] = t
    BY ComparedMaps
  <1>3. PICK a, b : a = OldText[File][r.line] /\ b = snap.new[t]
    OBVIOUS
  <1>4. /\ p = <<p[1], p[2]>> /\ OldText[File][p[1]].tok = texts[File].new[p[2]].tok
        /\ p \in texts[File].kept \/ OldText[File][p[1]].sp # texts[File].new[p[2]].sp
    BY <1>1, MapIsExact DEF MapOf
  <1>5. <<r.line, t>> \in texts[File].kept \/ (a.tok = b.tok /\ a.sp # b.sp)
    BY <1>1, <1>2, <1>3, <1>4
  <1>6. result.reason \in {NoReason, "INHERITED"}
    BY InheritsWhat
  <1>7. LineReason(cache, PairOf[RepositoryOf[File]], a, b) \in {NoReason, "INHERITED"}
    <2> SUFFICES ASSUME LineReason(cache, PairOf[RepositoryOf[File]], a, b) # NoReason
                 PROVE  result.reason = LineReason(cache, PairOf[RepositoryOf[File]], a, b)
      BY <1>6
    <2> QED
      BY <1>3 DEF CompareLine
  <1>8. a.fn = b.fn /\ a.fn \notin Uncertain \cup {None} /\ a.ctl = b.ctl /\ a.pp = b.pp
    BY <1>7, LineIsSame
  <1> QED
    BY <1>1, <1>3, <1>5, <1>8 DEF SameLine

LEMMA DecidesOnce ==
  ASSUME InheritInv, NEW r, NEW t, Compares(r, t), NEW reason, Decide(<<File, t>>, reason),
         rest' = Tail(rest), UNCHANGED <<status, pc, at, snap, texts>>
  PROVE  /\ TextsInv' /\ WalkInv' /\ OpenInv'
         /\ DOMAIN decided' = DOMAIN decided \cup {<<File, t>>}
         /\ decided'[<<File, t>>] = reason /\ \A d \in DOMAIN decided : decided'[d] = decided[d]
  <1>1. <<File, t>> \notin DOMAIN decided
    BY ComparedIs
  <1>2. /\ DOMAIN decided' = DOMAIN decided \cup {<<File, t>>}
        /\ decided'[<<File, t>>] = reason /\ \A d \in DOMAIN decided : decided'[d] = decided[d]
    BY <1>1 DEF Decide
  <1>3. TextsInv'
    BY TextsStay DEF InheritInv
  <1>4. pc = "compare" /\ pc' = "compare" /\ File' = File /\ rest # <<>>
    BY DEF Compares, File
  <1>5. WalkInv'
    BY <1>4 DEF InheritInv, WalkInv
  <1>6. /\ File \in DOMAIN texts /\ snap.new = texts[File].new /\ snap.map = MapOf(File)
        /\ rest \in Seq(Range(Relations[File]))
        /\ \A m, n \in DOMAIN rest : rest[m].line = rest[n].line => m = n
        /\ \A n \in DOMAIN rest : <<File, MappedLine(snap.map, rest[n].line)>> \notin DOMAIN decided
        /\ \A d \in DOMAIN decided : \E n \in 1..at : d[1] = RelationFiles[n]
    BY <1>4 DEF InheritInv, OpenInv
  <1>7. /\ rest' \in Seq(Range(Relations[File]))
        /\ \A n \in DOMAIN rest' : n \in Nat /\ n + 1 \in DOMAIN rest /\ n + 1 # 1
                                   /\ rest'[n] = rest[n + 1]
    BY <1>4, <1>6
  <1>8. \A m, n \in DOMAIN rest' : rest'[m].line = rest'[n].line => m = n
    <2> SUFFICES ASSUME NEW m \in DOMAIN rest', NEW n \in DOMAIN rest', rest'[m].line = rest'[n].line
                 PROVE  m = n
      OBVIOUS
    <2>1. m \in Nat /\ n \in Nat /\ m + 1 = n + 1
      BY <1>6, <1>7
    <2> QED
      BY <2>1
  <1>9. ASSUME NEW n \in DOMAIN rest'
        PROVE  <<File, MappedLine(snap.map, rest'[n].line)>> \notin DOMAIN decided'
    <2>1. MappedLine(snap.map, rest[n + 1].line) # t
      BY <1>7, OthersMapElsewhere
    <2>2. <<File, MappedLine(snap.map, rest[n + 1].line)>> \notin DOMAIN decided
      BY <1>6, <1>7
    <2> QED
      BY <1>2, <1>7, <2>1, <2>2
  <1>10. \A d \in DOMAIN decided' : \E n \in 1..at : d[1] = RelationFiles[n]
    <2>1. at \in 1..at
      <3>1. at \in DOMAIN RelationFiles
        BY <1>4 DEF InheritInv, WalkInv
      <3>2. at \in Nat /\ at >= 1
        BY <3>1, FilesAssumption
      <3> QED
        BY <3>2
    <2> QED
      BY <1>2, <1>6, <2>1 DEF File
  <1>11. OpenInv'
    <2>1. MapOf(File)' = MapOf(File)
      BY <1>4 DEF MapOf
    <2> QED
      BY <1>4, <1>6, <1>7, <1>8, <1>9, <1>10, <2>1 DEF OpenInv
  <1> QED
    BY <1>2, <1>3, <1>5, <1>11

LEMMA RefusedIsFine ==
  ASSUME InheritInv, NEW r, NEW t, Compares(r, t), NEW reason, reason # "INHERITED",
         Decide(<<File, t>>, reason), rest' = Tail(rest),
         UNCHANGED <<status, pc, at, snap, texts, links, blocks>>
  PROVE  InheritInv'
  <1>1. /\ TextsInv' /\ WalkInv' /\ OpenInv'
        /\ DOMAIN decided' = DOMAIN decided \cup {<<File, t>>}
        /\ decided'[<<File, t>>] = reason /\ \A d \in DOMAIN decided : decided'[d] = decided[d]
    BY DecidesOnce
  <1>2. LinkInv'
    BY LinksStay DEF InheritInv
  <1>3. pc' = "compare"
    BY DEF Compares
  <1>4. AgreeInv'
    BY <1>1, <1>3 DEF InheritInv, AgreeInv
  <1> QED
    BY <1>1, <1>2, <1>4 DEF InheritInv

LEMMA InheritedIsFine ==
  ASSUME InheritInv, NEW r, NEW t, Compares(r, t), Decide(<<File, t>>, "INHERITED"),
         NEW block, Maps(File, block), t \in block[1]..block[2], SameLine(File, r.line, t),
         Inherit(r, t, block), rest' = Tail(rest), UNCHANGED <<status, pc, at, snap, texts>>
  PROVE  InheritInv'
  <1>1. /\ TextsInv' /\ WalkInv' /\ OpenInv'
        /\ DOMAIN decided' = DOMAIN decided \cup {<<File, t>>}
        /\ decided'[<<File, t>>] = "INHERITED"
        /\ \A d \in DOMAIN decided : decided'[d] = decided[d]
    BY DecidesOnce
  <1>2. pc' = "compare" /\ File \in DOMAIN texts /\ <<File, t>> \notin DOMAIN decided
    BY ComparedIs DEF Compares
  <1>3. PICK k : k = [file |-> File, from |-> r.line, to |-> t, record |-> r.record, block |-> block,
                      group |-> GroupOf(r),
                      state |-> IF t \in CoveredLines[File] THEN "CARRIED_COVERED"
                                ELSE "INHERITED_PENDING"]
    OBVIOUS
  <1>4. links' = links \cup {k} /\ blocks' = Stored(blocks, BlockKey(r), block)
    BY <1>3 DEF Inherit
  <1>5. k.file = File /\ k.from = r.line /\ k.to = t /\ k.block = block
    BY <1>3
  <1>6. AgreeInv'
    <2>1. \A l \in links : <<l.file, l.to>> \in DOMAIN decided
      BY DEF InheritInv, AgreeInv
    <2>2. \A l \in links : ~(l.file = File /\ l.to = t)
      BY <1>2, <2>1
    <2>3. \A l \in links' : <<l.file, l.to>> \in DOMAIN decided' /\ decided'[<<l.file, l.to>>] = "INHERITED"
      BY <1>1, <1>4, <1>5 DEF InheritInv, AgreeInv
    <2>4. \A l, m \in links' : l.file = m.file /\ l.to = m.to => l = m
      BY <1>4, <1>5, <2>2 DEF InheritInv, AgreeInv
    <2>5. \A d \in DOMAIN decided' : decided'[d] = "INHERITED" => \E l \in links' : <<l.file, l.to>> = d
      <3> SUFFICES ASSUME NEW d \in DOMAIN decided', decided'[d] = "INHERITED"
                   PROVE  \E l \in links' : <<l.file, l.to>> = d
        OBVIOUS
      <3>1. CASE d = <<File, t>>
        BY <1>4, <1>5, <3>1
      <3>2. CASE d \in DOMAIN decided
        BY <1>1, <1>4, <3>2 DEF InheritInv, AgreeInv
      <3> QED
        BY <1>1, <3>1, <3>2
    <2> QED
      BY <1>2, <2>3, <2>4, <2>5 DEF AgreeInv
  <1>7. \A f, b : Maps(f, b)' <=> Maps(f, b)
    BY DEF Maps, MapOf
  <1>8. \A f, i, j : SameLine(f, i, j)' <=> SameLine(f, i, j)
    BY DEF SameLine
  <1>9. LinkInv'
    <2>1. ASSUME NEW x \in DOMAIN blocks' PROVE x[1] \in DOMAIN texts' /\ Maps(x[1], blocks'[x])
      <3>1. CASE x = BlockKey(r)
        <4>1. blocks'[x] = block /\ x[1] = File
          BY <1>4, <3>1 DEF Stored, BlockKey
        <4> QED
          BY <1>2, <4>1
      <3>2. CASE x # BlockKey(r)
        <4>1. x \in DOMAIN blocks /\ blocks'[x] = blocks[x]
          BY <1>4, <3>2 DEF Stored
        <4> QED
          BY <4>1 DEF InheritInv, LinkInv
      <3> QED
        BY <3>1, <3>2
    <2>2. ASSUME NEW l \in links'
          PROVE  /\ l.file \in DOMAIN texts' /\ SameLine(l.file, l.from, l.to)
                 /\ l.to \in l.block[1]..l.block[2] /\ Maps(l.file, l.block)
      <3>1. CASE l = k
        BY <1>2, <1>5, <3>1
      <3>2. CASE l \in links
        BY <3>2 DEF InheritInv, LinkInv
      <3> QED
        BY <1>4, <3>1, <3>2
    <2>3. \A x \in DOMAIN blocks' : x[1] \in DOMAIN texts' /\ Maps(x[1], blocks[x])'
      BY <2>1 DEF Maps, MapOf
    <2>4. \A l \in links' : /\ l.file \in DOMAIN texts' /\ SameLine(l.file, l.from, l.to)'
                            /\ l.to \in l.block[1]..l.block[2] /\ Maps(l.file, l.block)'
      BY <1>7, <1>8, <2>2
    <2> QED
      BY <2>3, <2>4 DEF LinkInv
  <1> QED
    BY <1>1, <1>6, <1>9 DEF InheritInv

LEMMA PersistIsFine ==
  ASSUME InheritInv, PersistRelation PROVE InheritInv'
  <1>1. PICK fault \in ReadFaults, t \in {MappedLine(snap.map, Head(rest).line)} :
           \E result \in {CompareLine(OldText[File][Head(rest).line], snap.new[t], fault)} :
             Persist(Head(rest), t, CandidateBlock(snap.map, Head(rest), t),
                     result.c, RelationReason(Head(rest), result.reason))
    BY DEF PersistRelation
  <1>2. PICK result \in {CompareLine(OldText[File][Head(rest).line], snap.new[t], fault)} :
             Persist(Head(rest), t, CandidateBlock(snap.map, Head(rest), t),
                     result.c, RelationReason(Head(rest), result.reason))
    BY <1>1
  <1>3. PICK r : r = Head(rest)
    OBVIOUS
  <1>4. PICK block, reason : block = CandidateBlock(snap.map, r, t) /\ reason = RelationReason(r, result.reason)
    OBVIOUS
  <1>5. Persist(r, t, block, result.c, reason)
    BY <1>2, <1>3, <1>4
  <1>6. Compares(r, t)
    BY <1>1, <1>3 DEF PersistRelation, NoTarget, Compares
  <1>7. CASE reason = "INHERITED" /\ t \notin block[1]..block[2]
    <2>1. Abandon
      BY <1>5, <1>7 DEF Persist
    <2> QED
      BY <1>6, <2>1, EmptyIsFine DEF Compares
  <1>8. CASE ~(reason = "INHERITED" /\ t \notin block[1]..block[2])
    <2>1. /\ Decide(<<File, t>>, reason) /\ rest' = Tail(rest)
          /\ UNCHANGED <<status, pc, at, snap, texts>>
          /\ IF reason = "INHERITED" THEN Inherit(r, t, block) ELSE UNCHANGED <<blocks, links>>
      BY <1>5, <1>8 DEF Persist
    <2>2. CASE reason # "INHERITED"
      BY <1>6, <2>1, <2>2, RefusedIsFine
    <2>3. CASE reason = "INHERITED"
      <3>1. Maps(File, block)
        BY <1>4, <1>6, BlockIsPrecise
      <3>2. SameLine(File, r.line, t)
        BY <1>2, <1>3, <1>4, <1>6, <2>3, InheritsTheLine
      <3>3. t \in block[1]..block[2] /\ Decide(<<File, t>>, "INHERITED") /\ Inherit(r, t, block)
        BY <1>8, <2>1, <2>3
      <3> QED
        BY <1>6, <2>1, <3>1, <3>2, <3>3, InheritedIsFine
    <2> QED
      BY <2>2, <2>3
  <1> QED
    BY <1>7, <1>8

LEMMA InheritStep ==
  ASSUME InheritInv, [InheritanceNext]_inheritanceVars PROVE InheritInv'
  <1>1. CASE SkipFile
    BY <1>1, NextFileIsFine DEF SkipFile
  <1>2. CASE OpenFile
    BY <1>2, OpenIsFine
  <1>3. CASE GitFails
    BY <1>3, EmptyIsFine DEF GitFails
  <1>4. CASE CloseFile
    BY <1>4, NextFileIsFine DEF CloseFile
  <1>5. CASE SkipRelation
    BY <1>5, SkipIsFine
  <1>6. CASE PersistRelation
    BY <1>6, PersistIsFine
  <1>7. CASE Sweep
    BY <1>7, SweepIsFine
  <1>8. CASE Retry
    BY <1>8, RetryIsFine
  <1>9. CASE Done \/ UNCHANGED inheritanceVars
    <2>1. UNCHANGED <<status, pc, at, snap, rest, texts, decided, links, blocks>>
      BY <1>9 DEF Done, inheritanceVars
    <2>2. TextsInv' /\ LinkInv'
      BY <2>1, TextsStay, LinksStay DEF InheritInv
    <2>3. WalkInv'
      BY <2>1 DEF InheritInv, WalkInv
    <2>4. OpenInv'
      BY <2>1 DEF InheritInv, OpenInv, File, MapOf
    <2>5. AgreeInv'
      BY <2>1 DEF InheritInv, AgreeInv, Undecided, UncoveredLines
    <2> QED
      BY <2>2, <2>3, <2>4, <2>5 DEF InheritInv
  <1> QED
    BY <1>1, <1>2, <1>3, <1>4, <1>5, <1>6, <1>7, <1>8, <1>9 DEF InheritanceNext

LEMMA InheritedAgree ==
  ASSUME InheritInv PROVE LinesAreInherited
  <1>1. \A l \in links : SameLine(l.file, l.from, l.to)
    BY DEF InheritInv, LinkInv
  <1>2. BlocksArePrecise
    BY DEF InheritInv, LinkInv, Maps, MapOf, BlocksArePrecise
  <1>3. ASSUME NEW line \in DOMAIN decided
        PROVE  (decided[line] = "INHERITED") <=>
                 (Cardinality({l \in links : <<l.file, l.to>> = line}) = 1)
    <2>1. ASSUME decided[line] = "INHERITED"
          PROVE  Cardinality({l \in links : <<l.file, l.to>> = line}) = 1
      <3>1. PICK l \in links : <<l.file, l.to>> = line
        BY <2>1 DEF InheritInv, AgreeInv
      <3>2. \A m \in links : <<m.file, m.to>> = line => m = l
        BY <3>1 DEF InheritInv, AgreeInv
      <3>3. {m \in links : <<m.file, m.to>> = line} = {l}
        BY <3>1, <3>2
      <3> QED
        BY <3>3, FS_Singleton
    <2>2. ASSUME decided[line] # "INHERITED"
          PROVE  Cardinality({l \in links : <<l.file, l.to>> = line}) # 1
      <3>1. {l \in links : <<l.file, l.to>> = line} = {}
        BY <2>2 DEF InheritInv, AgreeInv
      <3> QED
        BY <3>1, FS_EmptySet
    <2> QED
      BY <2>1, <2>2
  <1>4. DecisionsAgree
    BY <1>3 DEF DecisionsAgree, InheritInv, AgreeInv
  <1> QED
    BY <1>1, <1>2, <1>4 DEF LinesAreInherited

(* For every repository, text, diff and fault: a run inherits a relation     *)
(* only on the line Git kept or reformatted, in the same certain function    *)
(* and contexts; when it is done every uncovered line is decided, exactly    *)
(* the lines decided INHERITED carry one relation each, and a candidate      *)
(* block holds no line its source did not map to.                            *)
THEOREM LinesInherited == InheritanceSpec => []LinesAreInherited
  <1>1. InheritanceInit => InheritInv
    BY InheritFirst
  <1>2. InheritInv /\ [InheritanceNext]_inheritanceVars => InheritInv'
    BY InheritStep
  <1>3. InheritInv => LinesAreInherited
    BY InheritedAgree
  <1> QED
    BY <1>1, <1>2, <1>3, PTL DEF InheritanceSpec

=============================================================================
