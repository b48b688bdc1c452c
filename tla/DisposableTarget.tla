--------------------------- MODULE DisposableTarget ---------------------------
(***************************************************************************)
(* The backup of the source database (scripts/maintenance/mysql_backup.py) *)
(* and the disposable target a candidate runs on                           *)
(* (scripts/upgrade/disposable_target.py).  Dumps and database contents    *)
(* are the sets of writes they hold.                                       *)
(***************************************************************************)
EXTENDS UpgradeHost

VARIABLES
    backup    \* what full.sql.gz of this attempt holds, None before

targetVars == <<exists, grants, rows>>

BackupTypeOK == backup \in (SUBSET Writes) \cup {None}

(* perform_database_backup: a single-transaction dump of the source, then   *)
(* restored into a scratch database that is dropped again.                  *)
PerformBackup(ok) ==
    backup' = IF ok THEN rows[0] ELSE None

(***************************************************************************)
(* create_disposable_target_from_backup and create_empty_disposable_target.*)
(* The target must not exist; the account must have no grant on it.  What  *)
(* fails after CREATE DATABASE drops it again, and a failed probe has      *)
(* revoked the grant by then; that DROP may fail too, which leaves the     *)
(* database behind.                                                        *)
(***************************************************************************)
MayCreate(t) == t \notin exists /\ t \notin grants

CreateTarget(t, contents, ok) ==
    /\ ok => MayCreate(t)
    /\ \/ /\ ok
          /\ exists' = exists \cup {t}
          /\ grants' = grants \cup {t}
          /\ rows' = [rows EXCEPT ![t] = contents]
       \/ ~ok /\ UNCHANGED targetVars
       \/ /\ ~ok /\ MayCreate(t)
          /\ exists' = exists \cup {t}
          /\ rows' = [rows EXCEPT ![t] = contents]
          /\ UNCHANGED grants

(* cleanup_disposable_target: revokes the grant of this run, drops the      *)
(* target and checks that it is gone; it stops at the first that fails.     *)
CleanupTarget(t, ok) ==
    \/ /\ ok
       /\ exists' = exists \ {t} /\ grants' = grants \ {t}
       /\ rows' = [rows EXCEPT ![t] = {}]
    \/ ~ok /\ UNCHANGED targetVars
    \/ ~ok /\ grants' = grants \ {t} /\ UNCHANGED <<exists, rows>>
=============================================================================
