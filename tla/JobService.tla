------------------------------ MODULE JobService ------------------------------
(***************************************************************************)
(* VNextBackgroundJobService of app/jobs/service.py over the rows of       *)
(* coverage_background_jobs (job_repository.py): processes that submit     *)
(* durable jobs, run their callbacks under a lease, and recover at start   *)
(* what an earlier process left (bootstrap.py).                            *)
(*                                                                         *)
(* A process has a fresh lease identity, so a restart is a process of its  *)
(* own.  Each of its transactions is one action.  The executor is the one  *)
(* of BoundedExecutor: here it takes a callback or refuses it.             *)
(***************************************************************************)
EXTENDS Naturals

CONSTANTS
    Jobs,         \* ids of the jobs ever submitted
    KeyOf,        \* (project, scan, kind, data version) of a job
    Imports,      \* the jobs of kind scan_import
    Handled,      \* the jobs whose kind has a recovery handler
    Procs,        \* processes, in any order of their start
    ImportToken,  \* the lease owner ScanImportCoordinator.create gives a job
    NoOwner,
    Overlap,      \* whether a process may start while another one runs
    DbMayFail,    \* whether a statement of a running process may raise
    MaxClock      \* bound on the seconds a heartbeat can carry

ASSUME JobsAssumption == Imports \subseteq Jobs /\ Handled \subseteq Jobs \ Imports
ASSUME OwnersAssumption ==
    ImportToken \notin Procs /\ NoOwner \notin Procs \cup {ImportToken}
ASSUME BoundAssumption == MaxClock \in Nat \ {0}
ASSUME FlagsAssumption == Overlap \in BOOLEAN /\ DbMayFail \in BOOLEAN

VARIABLES
    row,       \* the row of a job
    proc,      \* where a process is between its start and its end
    at,        \* the place of a job in a process, from request to callback
    seen,      \* the rows list_recoverable has read, as they were
    ran,       \* history: the callbacks that ran, and how they ended
    clock      \* the time, in seconds, that heartbeat_at is taken from

vars == <<row, proc, at, seen, ran, clock>>

Live == {"queued", "running"}
Outcomes == {"completed", "superseded", "failed"}
Submitting == {"create", "enqueue", "fail"}
Places == {"none", "import", "listed", "claimed", "reject", "queued", "running", "done",
           "lost"}
              \cup Submitting \cup Outcomes
Row == [state : {"none", "interrupted"} \cup Live \cup Outcomes,
        owner : Procs \cup {ImportToken, NoOwner}, beat : 0 .. MaxClock]

(* A row, a place and a phase for every job and process, within the bounds. *)
TypeOK ==
    /\ row \in [Jobs -> Row]
    /\ proc \in [Procs -> {"off", "list", "claim", "enqueue", "resume", "up", "closing", "dead"}]
    /\ at \in [Procs -> [Jobs -> Places]]
    /\ seen \in [Procs -> SUBSET (Jobs \X Row)]
    /\ ran \subseteq Procs \X Jobs \X Outcomes
    /\ clock \in 1 .. MaxClock

Init ==
    /\ row = [j \in Jobs |-> [state |-> "none", owner |-> NoOwner, beat |-> 0]]
    /\ proc = [p \in Procs |-> "off"]
    /\ at = [p \in Procs |-> [j \in Jobs |-> "none"]]
    /\ seen = [p \in Procs |-> {}]
    /\ ran = {}
    /\ clock = 1

Alive(p) == proc[p] \notin {"off", "dead"}

Goes(p, j, place) == at' = [at EXCEPT ![p][j] = place]

(* heartbeat_at = now *)
Stamp == clock

-----------------------------------------------------------------------------
(* The transitions of job_repository.py *)

(* create: a queued row without a heartbeat *)
Created(owner) == [state |-> "queued", owner |-> owner, beat |-> 0]

(* Mutant: a terminal state is written whoever holds the lease. *)
MayEndAnyOwner(j, owner) == row[j].state \in Live \cup {"interrupted"}

(* The predicate of transition_terminal *)
MayEnd(j, owner) ==
    /\ row[j].state \in Live \cup {"interrupted"}
    /\ row[j].owner = owner

TransitionTerminal(j, owner, state) ==
    row' = IF MayEnd(j, owner)
           THEN [row EXCEPT ![j].state = state, ![j].beat = Stamp]
           ELSE row

(* Mutant: recovery looks for running jobs only. *)
RecoverableRunning(p, j) == j \notin Imports /\ row[j].state = "running" /\ row[j].owner # p

(* list_recoverable: queued and running jobs of another lease owner.  The   *)
(* age of a heartbeat only matters for jobs of p itself, which has none yet.*)
Recoverable(p, j) == j \notin Imports /\ row[j].state \in Live /\ row[j].owner # p

(* Mutant: the row that was listed is claimed as it is now. *)
UnchangedOrNot(p, j) == \E old \in Row : <<j, old>> \in seen[p]

(* The compare-and-set of claim_for_recovery and mark_interrupted; a        *)
(* heartbeat that was NULL is not compared.                                 *)
Unchanged(p, j) ==
    \E old \in Row :
        /\ <<j, old>> \in seen[p]
        /\ row[j].state = old.state
        /\ row[j].owner = old.owner
        /\ old.beat # 0 => row[j].beat = old.beat

-----------------------------------------------------------------------------
(* A process starts, recovers what others left, and ends *)

Start(p) ==
    /\ proc[p] = "off"
    /\ Overlap \/ \A q \in Procs : ~Alive(q)
    /\ proc' = [proc EXCEPT ![p] = "list"]
    /\ UNCHANGED <<row, at, seen, ran, clock>>

(* The rows are read in a snapshot of the transaction that claims them. *)
List(p) ==
    /\ proc[p] = "list"
    /\ seen' = [seen EXCEPT ![p] = {<<j, row[j]>> : j \in {i \in Jobs : Recoverable(p, i)}}]
    /\ proc' = [proc EXCEPT ![p] = "claim"]
    /\ UNCHANGED <<row, at, ran, clock>>

(* Jobs that are still as they were listed are queued again under p's lease,*)
(* or interrupted when no handler can rebuild their callback.               *)
Claim(p) ==
    LET taken == {j \in Jobs : Unchanged(p, j)} IN
    /\ proc[p] = "claim"
    /\ row' = [j \in Jobs |->
                 CASE j \in taken \cap Handled ->
                        [state |-> "queued", owner |-> p, beat |-> Stamp]
                   [] j \in taken \ Handled -> [row[j] EXCEPT !.state = "interrupted"]
                   [] OTHER -> row[j]]
    /\ at' = [at EXCEPT ![p] = [j \in Jobs |-> IF j \in taken \cap Handled
                                               THEN "claimed" ELSE @[j]]]
    /\ seen' = [seen EXCEPT ![p] = {}]
    /\ proc' = [proc EXCEPT ![p] = "enqueue"]
    /\ UNCHANGED <<ran, clock>>

(* The callback is rebuilt and enqueued; either may raise. *)
EnqueueRecovered(p, j) ==
    /\ at[p][j] = "claimed"
    /\ \E place \in {"queued", "fail"} : Goes(p, j, place)
    /\ UNCHANGED <<row, proc, seen, ran, clock>>

(* Then the imports that are not over are listed. *)
ListImports(p) ==
    /\ proc[p] = "enqueue"
    /\ \A j \in Jobs : at[p][j] \notin {"claimed", "fail"}
    /\ at' = [at EXCEPT ![p] = [j \in Jobs |->
                IF j \in Imports /\ row[j].state \in Live \cup {"interrupted"}
                THEN "listed" ELSE @[j]]]
    /\ proc' = [proc EXCEPT ![p] = "resume"]
    /\ UNCHANGED <<row, seen, ran, clock>>

(* Every listed import was submitted; the process serves requests. *)
Resumed(p) ==
    /\ proc[p] = "resume"
    /\ \A j \in Jobs : at[p][j] \notin {"listed", "reject"} \cup Submitting
    /\ proc' = [proc EXCEPT ![p] = "up"]
    /\ UNCHANGED <<row, at, seen, ran, clock>>

(* shutdown of the executor: it refuses, and drops what waits. *)
Close(p) ==
    /\ proc[p] = "up"
    /\ proc' = [proc EXCEPT ![p] = "closing"]
    /\ UNCHANGED <<row, at, seen, ran, clock>>

Drain(p, j) ==
    /\ proc[p] = "closing"
    /\ at[p][j] = "queued"
    /\ Goes(p, j, "none")
    /\ UNCHANGED <<row, proc, seen, ran, clock>>

Dies(p) ==
    /\ proc' = [proc EXCEPT ![p] = "dead"]
    /\ at' = [at EXCEPT ![p] = [j \in Jobs |-> "none"]]
    /\ seen' = [seen EXCEPT ![p] = {}]
    /\ UNCHANGED <<row, ran, clock>>

Exit(p) ==
    /\ proc[p] = "closing"
    /\ \A j \in Jobs : at[p][j] \in {"none", "done", "lost"}
    /\ Dies(p)

Crash(p) == Alive(p) /\ Dies(p)

-----------------------------------------------------------------------------
(* submit *)

(* find_active *)
ActiveFor(j, i) == KeyOf[i] = KeyOf[j] /\ row[i].state \in Live

LockFree(p) == \A i \in Jobs : at[p][i] \notin Submitting

(* A request for which no active job answers.  The lock is held from here   *)
(* until the job is enqueued or failed.                                     *)
Submit(p, j) ==
    /\ proc[p] = "up"
    /\ j \notin Imports
    /\ row[j].state = "none" /\ \A q \in Procs : at[q][j] = "none"
    /\ LockFree(p)
    /\ \A i \in Jobs : ~ActiveFor(j, i)
    /\ Goes(p, j, "create")
    /\ UNCHANGED <<row, proc, seen, ran, clock>>

(* ScanImportCoordinator.create commits the row of an import before the     *)
(* request submits it.                                                      *)
CreateImport(p, j) ==
    /\ proc[p] = "up"
    /\ j \in Imports
    /\ row[j].state = "none"
    /\ row' = [row EXCEPT ![j] = Created(ImportToken)]
    /\ Goes(p, j, "import")
    /\ UNCHANGED <<proc, seen, ran, clock>>

(* submit with a job id, by a request or by _resume_scan_import: whatever   *)
(* is active does not answer for it.                                        *)
SubmitImport(p, j) ==
    /\ at[p][j] \in {"import", "listed"}
    /\ LockFree(p)
    /\ Goes(p, j, "create")
    /\ UNCHANGED <<row, proc, seen, ran, clock>>

(* create raises JOB_ID_ALREADY_EXISTS. *)
Exists(j) == row[j].state # "none"

SubmitCreate(p, j) ==
    /\ at[p][j] = "create"
    /\ IF Exists(j)
       THEN Goes(p, j, IF j \in Imports THEN "reject" ELSE "none") /\ UNCHANGED row
       ELSE \/ Goes(p, j, "enqueue") /\ row' = [row EXCEPT ![j] = Created(p)]
            \/ DbMayFail /\ Goes(p, j, "done") /\ UNCHANGED row
    /\ UNCHANGED <<proc, seen, ran, clock>>

(* The executor takes the callback, or its queue is full or closed. *)
SubmitEnqueue(p, j) ==
    /\ at[p][j] = "enqueue"
    /\ \E place \in {"queued", "fail"} : Goes(p, j, place)
    /\ UNCHANGED <<row, proc, seen, ran, clock>>

(* Mutant: the job is not failed when the executor refuses it. *)
FailsNothing(p, j) == UNCHANGED row

FailsRow(p, j) == TransitionTerminal(j, p, "failed")

(* The durable row of a job that could not be enqueued fails; when the      *)
(* database refuses that too, the row has lost its callback.                *)
FailEnqueue(p, j) ==
    /\ at[p][j] = "fail"
    /\ \/ FailsRow(p, j) /\ Goes(p, j, "none")
       \/ DbMayFail /\ proc[p] \in {"up", "closing"} /\ UNCHANGED row /\ Goes(p, j, "lost")
    /\ UNCHANGED <<proc, seen, ran, clock>>

(* record_failure for an import that could not be submitted *)
RejectImport(p, j) ==
    /\ at[p][j] = "reject"
    /\ TransitionTerminal(j, ImportToken, "failed")
    /\ Goes(p, j, "none")
    /\ UNCHANGED <<proc, seen, ran, clock>>

-----------------------------------------------------------------------------
(* _runner, on a worker thread of the executor *)

(* start: a callback whose row another process has claimed does not run. *)
RunStart(p, j) ==
    /\ at[p][j] = "queued"
    /\ \/ IF row[j].state = "queued" /\ row[j].owner = p
          THEN /\ row' = [row EXCEPT ![j].state = "running", ![j].beat = Stamp]
               /\ Goes(p, j, "running")
          ELSE Goes(p, j, "none") /\ UNCHANGED row
       \/ DbMayFail /\ Goes(p, j, "lost") /\ UNCHANGED row
    /\ UNCHANGED <<proc, seen, ran, clock>>

(* The execution guard supersedes the job, or its callback returns or raises.*)
Callback(p, j, outcome) ==
    /\ at[p][j] = "running"
    /\ Goes(p, j, outcome)
    /\ ran' = ran \cup {<<p, j, outcome>>}
    /\ UNCHANGED <<row, proc, seen, clock>>

(* The heartbeat thread is joined with a timeout, so one may come late. *)
Heartbeat(p, j) ==
    /\ at[p][j] \in {"running", "done", "lost"} \cup Outcomes
    /\ row[j].state = "running" /\ row[j].owner = p
    /\ row[j].beat # Stamp
    /\ row' = [row EXCEPT ![j].beat = Stamp]
    /\ UNCHANGED <<proc, at, seen, ran, clock>>

RunEnd(p, j) ==
    /\ at[p][j] \in Outcomes
    /\ \/ TransitionTerminal(j, p, at[p][j]) /\ Goes(p, j, "done")
       \/ DbMayFail /\ UNCHANGED row /\ Goes(p, j, "lost")
    /\ UNCHANGED <<proc, seen, ran, clock>>

Tick ==
    /\ clock < MaxClock
    /\ clock' = clock + 1
    /\ UNCHANGED <<row, proc, at, seen, ran>>

-----------------------------------------------------------------------------
RecoveryStep(p) == List(p) \/ Claim(p) \/ ListImports(p) \/ Resumed(p)
JobStep(p, j) ==
    \/ EnqueueRecovered(p, j) \/ SubmitImport(p, j) \/ SubmitCreate(p, j)
    \/ SubmitEnqueue(p, j) \/ FailEnqueue(p, j) \/ RejectImport(p, j)
    \/ RunStart(p, j) \/ (\E o \in Outcomes : Callback(p, j, o)) \/ RunEnd(p, j)
    \/ Drain(p, j)

Next ==
    \/ \E p \in Procs : Start(p) \/ RecoveryStep(p) \/ Close(p) \/ Exit(p) \/ Crash(p)
    \/ \E p \in Procs, j \in Jobs :
          Submit(p, j) \/ CreateImport(p, j) \/ JobStep(p, j) \/ Heartbeat(p, j)
    \/ Tick

Spec == Init /\ [][Next]_vars

(* The threads of a live process go on, and a callback ends.  Nothing says  *)
(* that a process is started, or that anything is submitted.                *)
FairSpec ==
    /\ Spec
    /\ \A p \in Procs : WF_vars(RecoveryStep(p)) /\ WF_vars(Exit(p))
    /\ \A p \in Procs, j \in Jobs : WF_vars(JobStep(p, j))

-----------------------------------------------------------------------------
(* A job that is completed, failed or superseded stays so, although late    *)
(* callbacks, heartbeats and a recovery that listed it before go on         *)
(* (the fences of job_repository.py).                                       *)
EndedIsFinal ==
    [][\A j \in Jobs : row[j].state \in Outcomes => row'[j].state = row[j].state]_vars

(* A job is only completed on behalf of the process whose callback returned:*)
(* the result of a process that lost the lease is never taken for the       *)
(* owner's (_runner, transition_terminal).                                  *)
CompletedByOwner ==
    \A j \in Jobs : row[j].state = "completed" => <<row[j].owner, j, "completed">> \in ran

(* In a process that serves requests, a row that says queued or running     *)
(* under its lease has a callback behind it, unless a statement of its own  *)
(* transition failed: nothing else is queued for ever (submit, recover).    *)
LiveRowHasCallback ==
    \A p \in Procs, j \in Jobs :
        proc[p] = "up" /\ row[j].owner = p =>
            /\ row[j].state = "queued" => at[p][j] \in {"queued", "enqueue", "fail", "lost"}
            /\ row[j].state = "running" => at[p][j] \in {"running", "lost"} \cup Outcomes

(* One job at a time is active for the same project, scan, kind and data    *)
(* version, across crashes and recovery, as long as processes do not        *)
(* overlap (find_active, submit).                                           *)
OneActivePerKey ==
    \A i, j \in Jobs \ Imports :
        i # j /\ KeyOf[i] = KeyOf[j] => ~(row[i].state \in Live /\ row[j].state \in Live)

(* Both: the active jobs are served, and served once.                       *)
ActiveIsServedOnce == LiveRowHasCallback /\ OneActivePerKey

(* Whatever an earlier process left, wherever it died and whichever         *)
(* statement failed in it, every job is settled by a process that stays,    *)
(* unless the database fails it there too (recover, _resume_scan_import).   *)
LostBy(p, j) == Alive(p) /\ at[p][j] = "lost"
EveryJobSettles ==
    \A j \in Jobs :
        row[j].state \in Live ~>
            \/ row[j].state \notin Live
            \/ \E p \in Procs : LostBy(p, j)
            \/ \A p \in Procs : ~Alive(p)

-----------------------------------------------------------------------------
(* What a docstring says and the code does not do (README, Disagreements)   *)

(* An import that fails has had its callback run: restart recovery resumes  *)
(* it, and a request's import is executed (_resume_scan_import, create_scan).*)
ImportFailsOnlyAfterRunning ==
    \A j \in Imports :
        row[j].state = "failed" =>
            \E p \in Procs : <<p, j, "failed">> \in ran
=============================================================================
