--------------------------- MODULE BoundedExecutor ---------------------------
(***************************************************************************)
(* BoundedJobExecutor of app/jobs/bounded_executor.py: the queues of one   *)
(* process, the worker threads that serve them, the callers that submit    *)
(* and cancel jobs, and shutdown.                                          *)
(*                                                                         *)
(* _lock (and the condition _capacity on it) is held by a caller from the  *)
(* check of _accepting to the registration of its job.  Every other        *)
(* section under the lock is one action that needs the lock to be free;    *)
(* the queues, _accepting and _shutdown_event are used without it.         *)
(***************************************************************************)
EXTENDS Naturals, FiniteSets, Sequences

CONSTANTS
    Descriptors,         \* job descriptors
    WorkKey,        \* (job_type, project_name) of a job
    Reusable,     \* the jobs submitted with reuse_existing
    Callers,      \* threads that submit jobs
    Workers,      \* worker threads
    Buckets,      \* resource classes
    BucketOf,     \* the bucket of a job or of a worker
    Capacity,     \* max_queue_size of a bucket
    Budget,       \* global_worker_budget
    MaxRetained,  \* max_retained_jobs
    NoJob, Nobody,
    MayStop       \* whether shutdown is called

ASSUME BucketAssumption == BucketOf \in [Descriptors \cup Workers -> Buckets]
ASSUME NamesAssumption == NoJob \notin Descriptors /\ Nobody \notin Callers
ASSUME LimitsAssumption ==
    Capacity \in Nat \ {0} /\ Budget \in Nat \ {0} /\ MaxRetained \in Nat \ {0}
ASSUME ReusableAssumption == Reusable \subseteq Descriptors

VARIABLES
    status,     \* status of a descriptor; "refused" if none came to be
    cancel,     \* cancel_requested
    known,      \* _jobs
    ended,      \* jobs with a finished_at, the earliest first
    active,     \* _active_jobs
    queue,      \* the bucket's queue
    mutex,      \* the caller that holds _lock
    caller,     \* a caller's place in submit_job
    worker,     \* a worker's place in _worker_loop
    stop        \* the place of shutdown

executorVars == <<status, cancel, known, ended, active, queue, mutex, caller, worker, stop>>

LiveStatus == {"queued", "running"}
Final == {"completed", "failed", "cancelled"}

(* One descriptor, thread or queue per index, each in one of its places. *)
ExecutorTypeOK ==
    /\ status \in [Descriptors -> {"new", "refused"} \cup LiveStatus \cup Final]
    /\ cancel \in [Descriptors -> BOOLEAN]
    /\ known \subseteq Descriptors
    /\ ended \in Seq(Descriptors)
    /\ active \subseteq Descriptors
    /\ queue \in [Buckets -> Seq(Descriptors)]
    /\ mutex \in Callers \cup {Nobody}
    /\ caller \in [Callers -> [pc : {"idle", "put", "register"}, job : Descriptors \cup {NoJob}]]
    /\ worker \in [Workers -> [pc : {"poll", "get", "hold", "run", "exit"},
                               job : Descriptors \cup {NoJob}]]
    /\ stop \in [pc : {"no", "drain", "mark", "join", "done"}, job : Descriptors \cup {NoJob},
                 left : SUBSET Buckets]

ExecutorInit ==
    /\ status = [j \in Descriptors |-> "new"]
    /\ cancel = [j \in Descriptors |-> FALSE]
    /\ known = {} /\ ended = <<>> /\ active = {}
    /\ queue = [b \in Buckets |-> <<>>]
    /\ mutex = Nobody
    /\ caller = [c \in Callers |-> [pc |-> "idle", job |-> NoJob]]
    /\ worker = [w \in Workers |-> [pc |-> "poll", job |-> NoJob]]
    /\ stop = [pc |-> "no", job |-> NoJob, left |-> Buckets]

Stopping == stop.pc # "no"

-----------------------------------------------------------------------------
(* submit_job *)

(* Mutant: only a running job is reused. *)
ReusesRunning(j, i) == WorkKey[i] = WorkKey[j] /\ status[i] = "running"

(* An existing job answers for a new one of the same type and project. *)
Reuses(j, i) == WorkKey[i] = WorkKey[j] /\ status[i] \in LiveStatus

(* The checks, under the lock: the executor accepts, and nothing is reused. *)
SubmitCheck(c, j) ==
    /\ caller[c].pc = "idle"
    /\ mutex = Nobody
    /\ status[j] = "new"
    /\ IF Stopping \/ (j \in Reusable /\ \E i \in known : Reuses(j, i))
       THEN /\ status' = [status EXCEPT ![j] = "refused"]
            /\ UNCHANGED <<mutex, caller>>
       ELSE /\ mutex' = c
            /\ caller' = [caller EXCEPT ![c] = [pc |-> "put", job |-> j]]
            /\ UNCHANGED status
    /\ UNCHANGED <<cancel, known, ended, active, queue, worker, stop>>

(* put_nowait: a full queue raises and the job is not accepted. *)
SubmitPut(c) ==
    LET j == caller[c].job
        b == BucketOf[j] IN
    /\ caller[c].pc = "put"
    /\ IF Len(queue[b]) < Capacity
       THEN /\ queue' = [queue EXCEPT ![b] = Append(@, j)]
            /\ status' = [status EXCEPT ![j] = "queued"]
            /\ caller' = [caller EXCEPT ![c].pc = "register"]
            /\ UNCHANGED mutex
       ELSE /\ status' = [status EXCEPT ![j] = "refused"]
            /\ caller' = [caller EXCEPT ![c] = [pc |-> "idle", job |-> NoJob]]
            /\ mutex' = Nobody
            /\ UNCHANGED queue
    /\ UNCHANGED <<cancel, known, ended, active, worker, stop>>

SubmitRegister(c) ==
    /\ caller[c].pc = "register"
    /\ known' = known \cup {caller[c].job}
    /\ caller' = [caller EXCEPT ![c] = [pc |-> "idle", job |-> NoJob]]
    /\ mutex' = Nobody
    /\ UNCHANGED <<status, cancel, ended, active, queue, worker, stop>>

(* finished_at of job j is now: it moves to the end. *)
Without(s, j) ==
    IF \E n \in DOMAIN s : s[n] = j
    THEN LET n == CHOOSE n \in DOMAIN s : s[n] = j
         IN  SubSeq(s, 1, n - 1) \o SubSeq(s, n + 1, Len(s))
    ELSE s

Ends(j) == ended' = Append(Without(ended, j), j)

(* cancel_job *)
CancelJob(j) ==
    /\ mutex = Nobody
    /\ j \in known
    /\ status[j] \in LiveStatus
    /\ cancel' = [cancel EXCEPT ![j] = TRUE]
    /\ IF status[j] = "queued"
       THEN status' = [status EXCEPT ![j] = "cancelled"] /\ Ends(j)
       ELSE UNCHANGED <<status, ended>>
    /\ UNCHANGED <<known, active, queue, mutex, caller, worker, stop>>

-----------------------------------------------------------------------------
(* _worker_loop *)

Becomes(w, pc, j) == worker' = [worker EXCEPT ![w] = [pc |-> pc, job |-> j]]

(* Mutant: the thread serves its queue for ever. *)
LoopsForever == FALSE

(* The loop's condition: the thread ends once shutdown has begun. *)
LoopEnds == Stopping

Poll(w) ==
    /\ worker[w].pc = "poll"
    /\ Becomes(w, IF LoopEnds THEN "exit" ELSE "get", NoJob)
    /\ UNCHANGED <<status, cancel, known, ended, active, queue, mutex, caller, stop>>

(* queue.get with a timeout of half a second *)
Get(w) ==
    LET b == BucketOf[w] IN
    /\ worker[w].pc = "get"
    /\ IF queue[b] = <<>>
       THEN Becomes(w, "poll", NoJob) /\ UNCHANGED queue
       ELSE Becomes(w, "hold", Head(queue[b])) /\ queue' = [queue EXCEPT ![b] = Tail(@)]
    /\ UNCHANGED <<status, cancel, known, ended, active, mutex, caller, stop>>

(* Mutant: one job too many. *)
HasRoomForOneMore == Cardinality(active) <= Budget

HasRoom == Cardinality(active) < Budget

Drops(j) == cancel[j] \/ Stopping

(* The section before the job runs: wait for room in the budget, then drop  *)
(* the job or start it.                                                     *)
Begin(w) ==
    LET j == worker[w].job IN
    /\ worker[w].pc = "hold"
    /\ mutex = Nobody
    /\ HasRoom \/ Drops(j)
    /\ IF Drops(j)
       THEN /\ status' = [status EXCEPT ![j] = "cancelled"]
            /\ Ends(j)
            /\ Becomes(w, "poll", NoJob)
            /\ UNCHANGED active
       ELSE /\ status' = [status EXCEPT ![j] = "running"]
            /\ active' = active \cup {j}
            /\ Becomes(w, "run", j)
            /\ UNCHANGED ended
    /\ UNCHANGED <<cancel, known, queue, mutex, caller, stop>>

(* _prune_jobs_locked: an ended job goes when MaxRetained ended after it.   *)
Prune(k, st, act, fin) ==
    LET terminal == {n \in DOMAIN fin : fin[n] \in k /\ st[fin[n]] \in Final /\ fin[n] \notin act}
    IN  {fin[n] : n \in {m \in terminal : Cardinality({i \in terminal : i > m}) >= MaxRetained}}

(* Mutant: a job that raised keeps its place in the budget. *)
DiscardReturned(j, raised) == IF raised THEN active ELSE active \ {j}

Discard(j, raised) == active \ {j}

(* The job has returned or raised. *)
Finish(w, raised) ==
    LET j == worker[w].job
        result == IF raised THEN "failed" ELSE IF cancel[j] THEN "cancelled" ELSE "completed"
    IN
    /\ worker[w].pc = "run"
    /\ mutex = Nobody
    /\ status' = [status EXCEPT ![j] = result]
    /\ Ends(j)
    /\ active' = Discard(j, raised)
    /\ known' = known \ Prune(known, status', active', ended')
    /\ Becomes(w, "poll", NoJob)
    /\ UNCHANGED <<cancel, queue, mutex, caller, stop>>

-----------------------------------------------------------------------------
(* shutdown *)

(* _accepting and _shutdown_event, without the lock *)
StopBegins ==
    /\ MayStop
    /\ stop.pc = "no"
    /\ stop' = [stop EXCEPT !.pc = "drain"]
    /\ UNCHANGED <<status, cancel, known, ended, active, queue, mutex, caller, worker>>

(* get_nowait on one bucket after the other *)
DrainQueue ==
    /\ stop.pc = "drain"
    /\ \E b \in stop.left :
         IF queue[b] = <<>>
         THEN stop' = [stop EXCEPT !.left = @ \ {b}] /\ UNCHANGED queue
         ELSE /\ stop' = [stop EXCEPT !.pc = "mark", !.job = Head(queue[b])]
              /\ queue' = [queue EXCEPT ![b] = Tail(@)]
    /\ UNCHANGED <<status, cancel, known, ended, active, mutex, caller, worker>>

DrainMark ==
    /\ stop.pc = "mark"
    /\ mutex = Nobody
    /\ cancel' = [cancel EXCEPT ![stop.job] = TRUE]
    /\ status' = [status EXCEPT ![stop.job] = "cancelled"]
    /\ Ends(stop.job)
    /\ known' = known \ Prune(known, status', active, ended')
    /\ stop' = [stop EXCEPT !.pc = "drain", !.job = NoJob]
    /\ UNCHANGED <<active, queue, mutex, caller, worker>>

Drained ==
    /\ stop.pc = "drain"
    /\ stop.left = {}
    /\ stop' = [stop EXCEPT !.pc = "join"]
    /\ UNCHANGED <<status, cancel, known, ended, active, queue, mutex, caller, worker>>

(* join of every worker *)
Join ==
    /\ stop.pc = "join"
    /\ \A w \in Workers : worker[w].pc = "exit"
    /\ stop' = [stop EXCEPT !.pc = "done"]
    /\ UNCHANGED <<status, cancel, known, ended, active, queue, mutex, caller, worker>>

-----------------------------------------------------------------------------
CallerStep(c) == SubmitPut(c) \/ SubmitRegister(c)
WorkerStep(w) == Poll(w) \/ Get(w) \/ Begin(w) \/ \E raised \in BOOLEAN : Finish(w, raised)
StopStep == DrainQueue \/ DrainMark \/ Drained \/ Join

ExecutorNext ==
    \/ \E c \in Callers, j \in Descriptors : SubmitCheck(c, j)
    \/ \E c \in Callers : CallerStep(c)
    \/ \E j \in Descriptors : CancelJob(j)
    \/ \E w \in Workers : WorkerStep(w)
    \/ StopBegins \/ StopStep

ExecutorSpec == ExecutorInit /\ [][ExecutorNext]_executorVars

(* A thread that can go on goes on, and what a job does ends. *)
ExecutorFairSpec ==
    /\ ExecutorSpec
    /\ \A c \in Callers : WF_executorVars(CallerStep(c))
    /\ \A w \in Workers : WF_executorVars(WorkerStep(w))
    /\ WF_executorVars(StopStep)

-----------------------------------------------------------------------------
(* However threads of all buckets start and finish, no more jobs run at a   *)
(* time than the global budget allows (_worker_loop).                       *)
BudgetHolds == Cardinality({w \in Workers : worker[w].pc = "run"}) <= Budget

(* A job that was reported as ended stays so: one that was cancelled in its *)
(* queue is never run when its turn comes, and shutdown and a worker never  *)
(* disagree on the same job (cancel_job, _worker_loop, shutdown).           *)
EndedStaysEnded ==
    [][\A j \in Descriptors : status[j] \in Final => status'[j] = status[j]]_executorVars

(* Two requests for the same work are never both under way, although the    *)
(* second may come at any moment of the first (submit_job).                 *)
OneJobPerKey ==
    \A i, j \in Reusable :
        i # j /\ WorkKey[i] = WorkKey[j] => ~(status[i] \in LiveStatus /\ status[j] \in LiveStatus)

(* A job that still waits or runs can be asked for and cancelled: neither a *)
(* fast worker nor the pruning of old jobs hides it (get_job, cancel_job).  *)
LiveIsKnown ==
    \A j \in Descriptors : status[j] \in LiveStatus =>
        j \in known \/ \E c \in Callers : caller[c] = [pc |-> "register", job |-> j]

(* Both: what is under way is there once, and can be found.                 *)
LiveOnce == OneJobPerKey /\ LiveIsKnown

(* Every accepted job ends, unless the executor is shut down.               *)
AcceptedEnds == \A j \in Descriptors : status[j] \in LiveStatus ~> status[j] \in Final \/ Stopping

(* Both: an accepted job ends, and only once.                               *)
EndsOnce == EndedStaysEnded /\ AcceptedEnds

(* shutdown returns: the queues drain, running jobs end, threads leave.     *)
ShutdownReturns == Stopping ~> stop.pc = "done"

-----------------------------------------------------------------------------
(* What a comment says and the code does not do (README, Disagreements)     *)

(* After shutdown no queued job claims to be runnable.                      *)
StoppedLeavesNothing ==
    stop.pc = "done" => \A j \in known : status[j] # "queued"
=============================================================================
