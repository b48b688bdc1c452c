--------------------------- MODULE TargetProvision ---------------------------
(***************************************************************************)
(* The backup of the live database (scripts/maintenance/mysql_backup.py)    *)
(* and the database a migration writes to                                   *)
(* (scripts/upgrade/disposable_target.py), one client command at a time:    *)
(* another administrator may act, a command may fail and the process may    *)
(* die between any two of them.  The source stays in service throughout.    *)
(***************************************************************************)
EXTENDS VNextFacts

CONSTANTS MaxWrites, MaxAttempts

VARIABLES
    live,      \* the source database
    owner,     \* who created each database of the target server, Nil if absent
    data,      \* what each of them holds
    account,   \* the databases the application account has grants on
    conf,      \* the operator's configuration
    lane,      \* the migrating process: its place and what it holds in memory
    writes,    \* how often the live database or the server changed under it
    attempts   \* how often the process was started

laneVars == <<live, owner, data, account, conf, lane, writes, attempts>>

Names == {"target", "scratch"}

(* What the process has in memory.  `view` is the read view of its source   *)
(* connection (autocommit off, REPEATABLE READ), opened by the backup's     *)
(* witness and not ended before the cutover stage.  `lost` marks a target   *)
(* whose preparation evidence never reached the orchestrator.               *)
Fresh ==
    [place |-> "idle", view |-> Nil, dump |-> Nil, before |-> {}, created |-> FALSE,
     granted |-> FALSE, evidence |-> FALSE, lost |-> FALSE, ddl |-> "reviewed"]

Stopped == {"PASSED", "FAILED", "HELD"}

Is(place) == lane.place = place

Go(place) == lane' = [lane EXCEPT !.place = place]

Elsewhere == UNCHANGED <<live, conf, writes, attempts>>

(* A command that only looks: it answers, or the step fails. *)
Probe(place, next, failed) ==
    /\ Is(place)
    /\ Go(next) \/ Go(failed)
    /\ UNCHANGED <<owner, data, account>> /\ Elsewhere

------------------------------------------------------------------------------
(* mysql_backup.py *)

(* A read through the source connection. *)
SourceRead == IF lane.view = Nil THEN live ELSE lane.view

(* _capture_generation_aware_snapshot: the reads open the view. *)
CaptureWitness ==
    /\ Is("witness")
    /\ lane' = [lane EXCEPT !.view = live, !.place = IF Whole(live) THEN "dump" ELSE "FAILED"]
    /\ UNCHANGED <<owner, data, account>> /\ Elsewhere

(* mysqldump --single-transaction, through a connection of its own. *)
Dump ==
    /\ Is("dump")
    /\ \/ lane' = [lane EXCEPT !.dump = live, !.place = "smoke"]
       \/ Go("FAILED")
    /\ UNCHANGED <<owner, data, account>> /\ Elsewhere

(* _restore_into_empty_database: the scratch database must not exist. *)
SmokeCreate ==
    /\ Is("smoke")
    /\ \/ /\ owner["scratch"] = Nil
          /\ owner' = [owner EXCEPT !["scratch"] = "run"]
          /\ data' = [data EXCEPT !["scratch"] = lane.dump]
          /\ Go("smoke_drop")
       \/ Go("FAILED") /\ UNCHANGED <<owner, data>>
    /\ UNCHANGED account /\ Elsewhere

(* It is dropped again whatever the restore gave; a failed drop is told. *)
SmokeDrop ==
    /\ Is("smoke_drop")
    /\ \/ /\ owner' = [owner EXCEPT !["scratch"] = Nil]
          /\ data' = [data EXCEPT !["scratch"] = Nil]
          /\ \/ Go(IF conf.mode = "supplied" THEN "upgrade" ELSE "exists")
             \/ Go("FAILED")
       \/ Go("HELD") /\ UNCHANGED <<owner, data>>
    /\ UNCHANGED account /\ Elsewhere

Backup == CaptureWitness \/ Dump \/ SmokeCreate \/ SmokeDrop

------------------------------------------------------------------------------
(* disposable_target.py *)

(* _candidate_account: the approved principal is named by the target's      *)
(* section or, when a caller passes it, by the source's.                    *)
AccountApproved(withSource) == conf.approved = "target" \/ withSource

CheckAbsent ==
    /\ Is("exists")
    /\ Go(IF owner["target"] = Nil THEN "preflight" ELSE "FAILED")
    /\ UNCHANGED <<owner, data, account>> /\ Elsewhere

(* _candidate_grant_preflight: a grant on the name is never reused. *)
GrantPreflight ==
    /\ Is("preflight")
    /\ Go(IF "target" \notin account /\ AccountApproved(TRUE) THEN "create" ELSE "FAILED")
    /\ UNCHANGED <<owner, data, account>> /\ Elsewhere

(* Mutant: the flag is raised before the answer is known. *)
CreateDatabaseAnyway ==
    /\ Is("create")
    /\ IF owner["target"] = Nil
       THEN /\ owner' = [owner EXCEPT !["target"] = "run"]
            /\ lane' = [lane EXCEPT !.created = TRUE,
                           !.place = IF conf.mode = "restore" THEN "restore" ELSE "grant"]
       ELSE lane' = [lane EXCEPT !.created = TRUE, !.place = "drop"] /\ UNCHANGED owner
    /\ UNCHANGED <<data, account>> /\ Elsewhere

(* CREATE DATABASE fails when somebody took the name meanwhile. *)
CreateDatabase ==
    /\ Is("create")
    /\ \/ /\ owner["target"] = Nil
          /\ owner' = [owner EXCEPT !["target"] = "run"]
          /\ lane' = [lane EXCEPT !.created = TRUE,
                         !.place = IF conf.mode = "restore" THEN "restore" ELSE "grant"]
       \/ Go("FAILED") /\ UNCHANGED owner
    /\ UNCHANGED <<data, account>> /\ Elsewhere

(* _restore_process, the table inventory and the identity query. *)
RestoreDump ==
    /\ Is("restore")
    /\ data' = [data EXCEPT !["target"] = lane.dump]
    /\ Go("grant") \/ Go("drop")
    /\ UNCHANGED <<owner, account>> /\ Elsewhere

(* _grant_and_probe_candidate_access, first half: the account's grants are  *)
(* taken again, then the GRANT is issued.                                   *)
Grant ==
    /\ Is("grant")
    /\ \/ /\ "target" \notin account
          /\ account' = account \cup {"target"}
          /\ lane' = [lane EXCEPT !.before = account, !.granted = TRUE, !.place = "probe"]
       \/ Go("drop") /\ UNCHANGED account
    /\ UNCHANGED <<owner, data>> /\ Elsewhere

(* Second half: the account itself shows its grants and uses them. *)
ProbeAccess ==
    /\ Is("probe")
    /\ \/ lane' = [lane EXCEPT !.evidence = TRUE, !.place = "connect"]
       \/ Go("revoke")
    /\ UNCHANGED <<owner, data, account>> /\ Elsewhere

(* _revoke_candidate_database_grant: takes back this run's privileges and   *)
(* demands that the account's grants are those before the run.              *)
Revoked(next, failed) ==
    \/ /\ account' = account \ {"target"}
       /\ Go(IF account' = lane.before THEN next ELSE failed)
    \/ Go(failed) /\ UNCHANGED account

(* Mutant: a failed probe only drops the database. *)
RevokeNothing ==
    /\ Is("revoke")
    /\ Go("drop")
    /\ UNCHANGED <<account, owner, data>> /\ Elsewhere

RevokeAfterProbe ==
    /\ Is("revoke")
    /\ Revoked("drop", "drop_told")
    /\ UNCHANGED <<owner, data>> /\ Elsewhere

(* The handler of create_disposable_target_*: only a database this call     *)
(* created is dropped; what could not be undone is part of the error.       *)
DropCreated ==
    /\ Is("drop") \/ Is("drop_told")
    /\ \/ /\ owner' = [owner EXCEPT !["target"] = IF lane.created THEN Nil ELSE @]
          /\ data' = [data EXCEPT !["target"] = IF lane.created THEN Nil ELSE @]
          /\ Go(IF Is("drop") THEN "FAILED" ELSE "HELD")
       \/ Go("HELD") /\ UNCHANGED <<owner, data>>
    /\ UNCHANGED account /\ Elsewhere

(* connect_live_database and the generation gate come before the evidence   *)
(* is kept: when one fails, nothing knows of the target any more.           *)
KeepEvidence ==
    /\ Is("connect")
    /\ \/ Go(IF conf.mode = "empty" THEN "empty" ELSE "upgrade")
       \/ lane' = [lane EXCEPT !.lost = TRUE, !.place = "FAILED"]
    /\ UNCHANGED <<owner, data, account>> /\ Elsewhere

CreateTarget ==
    \/ CheckAbsent
    \/ GrantPreflight
    \/ CreateDatabase
    \/ RestoreDump
    \/ Grant
    \/ ProbeAccess
    \/ RevokeAfterProbe
    \/ DropCreated
    \/ KeepEvidence

(* cleanup_disposable_target, after a later failure.  It is given the       *)
(* target's section only: an account approved in the source's section, like *)
(* administrator credentials found there, is not known to it.               *)
CleanupRevoke ==
    /\ Is("cleanup")
    /\ IF AccountApproved(FALSE) /\ lane.evidence
       THEN Revoked("cleanup_drop", "HELD")
       ELSE Go("HELD") /\ UNCHANGED account
    /\ UNCHANGED <<owner, data>> /\ Elsewhere

CleanupDrop ==
    /\ Is("cleanup_drop")
    /\ \/ /\ owner' = [owner EXCEPT !["target"] = Nil]
          /\ data' = [data EXCEPT !["target"] = Nil]
          /\ Go("FAILED")
       \/ Go("HELD") /\ UNCHANGED <<owner, data>>
    /\ UNCHANGED account /\ Elsewhere

(* The legacy lane, which is given the empty target, fails in its turn. *)
EmptyLaneFails == Probe("empty", "cleanup", "cleanup")

CleanupTarget == CleanupRevoke \/ CleanupDrop \/ EmptyLaneFails

------------------------------------------------------------------------------
(* The server's other users. *)

OperatorTakesName(n) ==
    /\ writes < MaxWrites
    /\ owner[n] = Nil
    /\ owner' = [owner EXCEPT ![n] = "operator"]
    /\ data' = [data EXCEPT ![n] = live]
    /\ writes' = writes + 1
    /\ UNCHANGED <<live, account, conf, lane, attempts>>

OperatorChangesGrants ==
    /\ writes < MaxWrites
    /\ account' = IF "other" \in account THEN account \ {"other"} ELSE account \cup {"other"}
    /\ writes' = writes + 1
    /\ UNCHANGED <<live, owner, data, conf, lane, attempts>>
==============================================================================
