----------------------------- MODULE UpgradeHost -----------------------------
(***************************************************************************)
(* The host an upgrade works on: the databases, the process that serves    *)
(* users, the process that validates a candidate, systemd and nginx, and   *)
(* the users whose writes go on while the upgrade runs.  The components of *)
(* the upgrade (publisher, disposable target, production bindings,         *)
(* lifecycle) extend this module and change the host.                      *)
(*                                                                         *)
(* Attempt n of an upgrade publishes release n and prepares database n;    *)
(* release 0 and database 0 are what was there before.                     *)
(***************************************************************************)
EXTENDS Naturals, FiniteSets

CONSTANTS
    MaxAttempts,  \* runs of execute_upgrade
    Writes,       \* the writes users may make
    MaxFaults,    \* operations that fail, in all
    Fallible,     \* the operations that may fail
    None

ASSUME AttemptsAssumption == MaxAttempts \in Nat \ {0}
ASSUME FaultsAssumption == MaxFaults \in Nat

Ids == 0 .. MaxAttempts
Attempts == 1 .. MaxAttempts

ASSUME NoneAssumption == None \notin Ids

VARIABLES
    exists,       \* the databases that exist
    grants,       \* the targets the candidate account has been granted
    rows,         \* the writes a database holds
    acked,        \* the writes acknowledged to users
    serving,      \* the process behind CURRENT: [up, release, db]
    validation,   \* the validation process: [up, db]
    inflight,     \* a write request has passed writes_are_frozen
    job,          \* a background job is queued or running
    marker,       \* the freeze marker is there
    faults        \* operations that have failed

dataVars == <<exists, grants, rows, acked>>
procVars == <<serving, validation>>
userVars == <<inflight, job>>
hostVars == <<dataVars, procVars, userVars, marker, faults>>

HostTypeOK ==
    /\ exists \subseteq Ids
    /\ grants \subseteq Attempts
    /\ rows \in [Ids -> SUBSET Writes]
    /\ acked \subseteq Writes
    /\ serving \in [up : BOOLEAN, release : Ids, db : Ids]
    /\ validation \in [up : BOOLEAN, db : Ids]
    /\ inflight \in BOOLEAN /\ job \in BOOLEAN /\ marker \in BOOLEAN
    /\ faults \in 0 .. MaxFaults

HostInit ==
    /\ exists = {0} /\ grants = {}
    /\ rows = [d \in Ids |-> {}] /\ acked = {}
    /\ serving = [up |-> TRUE, release |-> 0, db |-> 0]
    /\ validation = [up |-> FALSE, db |-> 0]
    /\ inflight = FALSE /\ job = FALSE /\ marker = FALSE /\ faults = 0

(***************************************************************************)
(* Faults.  An operation in Fallible ends badly at most MaxFaults times.   *)
(***************************************************************************)
Outcomes(op) == {TRUE} \cup {ok \in {FALSE} : op \in Fallible /\ faults < MaxFaults}
Charge(ok) == faults' = IF ok THEN faults ELSE faults + 1

(***************************************************************************)
(* Processes.  A start that fails may have left the process running or     *)
(* not; so may a stop that fails.  Requests and jobs die with the process. *)
(***************************************************************************)
StartServing(ok, release, db) ==
    /\ \E up \in {ok, TRUE} : serving' = [up |-> up, release |-> release, db |-> db]
    /\ inflight' = FALSE /\ job' = FALSE

StopServing(ok) ==
    \E up \in {FALSE, ~ok /\ serving.up} :
        /\ serving' = [serving EXCEPT !.up = up]
        /\ inflight' = (inflight /\ up)
        /\ job' = (job /\ up)

StartValidation(ok, db) == \E up \in {ok, TRUE} : validation' = [up |-> up, db |-> db]
StopValidation(ok) ==
    \E up \in {FALSE, ~ok /\ validation.up} : validation' = [validation EXCEPT !.up = up]

(***************************************************************************)
(* Users.  A write request is admitted by AuthPolicy, which refuses it     *)
(* while the marker is there.  It commits later, or starts a background    *)
(* job that does.  There are as many requests as there are Writes.         *)
(***************************************************************************)
Reachable == serving.up /\ serving.db \in exists
Pending == Writes \ acked

AdmitWrite ==
    /\ Reachable /\ Pending # {}
    /\ ~marker /\ ~inflight
    /\ inflight' = TRUE
    /\ UNCHANGED <<dataVars, procVars, job, marker, faults>>

Commit ==
    \E w \in Pending :
        /\ \A v \in Pending : w <= v
        /\ acked' = acked \cup {w}
        /\ rows' = [rows EXCEPT ![serving.db] = @ \cup {w}]

CommitWrite ==
    /\ inflight /\ Reachable
    /\ \/ Commit /\ UNCHANGED job
       \/ ~job /\ job' = TRUE /\ UNCHANGED <<acked, rows>>
    /\ inflight' = FALSE
    /\ UNCHANGED <<exists, grants, procVars, marker, faults>>

FinishJob ==
    /\ job /\ Reachable
    /\ \/ Commit
       \/ UNCHANGED <<acked, rows>>
    /\ job' = FALSE
    /\ UNCHANGED <<exists, grants, procVars, inflight, marker, faults>>

Users == AdmitWrite \/ CommitWrite \/ FinishJob

(* A process takes writes: it is up and no marker stops its users. *)
Accepting == serving.up /\ ~marker
=============================================================================
