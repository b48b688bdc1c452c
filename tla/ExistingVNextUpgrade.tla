------------------------- MODULE ExistingVNextUpgrade -------------------------
(***************************************************************************)
(* scripts/upgrade/existing_vnext_upgrade.py and the runtime-v3 schema of   *)
(* migration_runner.py: a VNext database is backed up, restored into a      *)
(* target of its own and migrated there, while the source stays a witness   *)
(* the migration only reads.                                                *)
(***************************************************************************)
EXTENDS TargetProvision

------------------------------------------------------------------------------
(* The serving release: a line of the source is edited or an inherited line *)
(* is rejected; the data version moves and the file state follows.          *)

PendingLines(db) ==
    SourceLines \ {db.link[k].line : k \in DOMAIN db.link \
                       {db.rejection[j] : j \in DOMAIN db.rejection}}

Written(db) == [db EXCEPT !.version = @ + 1, !.fsVersion = @ + 1, !.pending = PendingLines(db)]

EditRecord(r) ==
    /\ writes < MaxWrites
    /\ r \in DOMAIN live.record
    /\ live' = Written([live EXCEPT !.record[r] = <<"edited", writes>>])
    /\ writes' = writes + 1
    /\ UNCHANGED <<owner, data, account, conf, lane, attempts>>

RejectLine(k) ==
    /\ writes < MaxWrites
    /\ k \in DOMAIN live.link /\ live.link[k].origin # 0 /\ live.rejection = <<>>
    /\ live' = Written([live EXCEPT !.rejection = [j \in {1} |-> k]])
    /\ writes' = writes + 1
    /\ UNCHANGED <<owner, data, account, conf, lane, attempts>>

------------------------------------------------------------------------------
(* A restored copy has the source's facts; what the new runtime adds        *)
(* (the report_mode column, the runtime-v3 ledger row) it has not.          *)

SourceDatabase ==
    [scan |-> [i \in {1} |-> "s"],
     record |-> [i \in {1} |-> <<"first", 0>>],
     block |-> [i \in {1} |-> [lines |-> SourceLines, record |-> 1]],
     link |-> [i \in {1, 2} |->
                 [scan |-> 1, line |-> CHOOSE l \in SourceLines :
                                           (l = CHOOSE x \in SourceLines : TRUE) = (i = 1),
                  block |-> 1, record |-> 1, origin |-> i - 1]],
     rejection |-> <<>>,
     report |-> [i \in {1} |-> [scan |-> 1, mode |-> Nil]],
     current |-> 1, version |-> 0, fsVersion |-> 0, pending |-> {},
     column |-> "absent", hashed |-> FALSE, shape |-> "v2", ledger |-> Nil, ddl |-> Nil]

(* There are ids for its rows, and Nil is not the key of a link. *)
ASSUME SourceAssumption == {1, 2} \subseteq Ids /\ Nil # LinkKey(SourceDatabase, 1)

(* What an operator may supply as a pre-restored target: the copy with      *)
(* other ids, or one that lost a link, the origin of a link or its current  *)
(* scan; with the column absent, left over by an earlier release, or of     *)
(* another type.                                                            *)
Without(f, x) == [i \in DOMAIN f \ {x} |-> f[i]]

Copies(db) ==
    {Renamed(p, db) : p \in Renamings}
        \cup {[db EXCEPT !.link = Without(@, 2)], [db EXCEPT !.link[2].origin = 0],
              [db EXCEPT !.current = 0]}

SuppliedTargets ==
    {[d EXCEPT !.column = c] : d \in Copies(SourceDatabase), c \in {"absent", "nullable", "other"}}

------------------------------------------------------------------------------
(* One connection for each side; with an alias both may reach one database. *)

TargetDatabase == IF conf.same THEN live ELSE data["target"]

WriteTarget(db) ==
    /\ live' = IF conf.same THEN db ELSE live
    /\ data' = IF conf.same THEN data ELSE [data EXCEPT !["target"] = db]
    /\ UNCHANGED <<owner, account, conf, writes, attempts>>

Failing == IF lane.evidence THEN "cleanup" ELSE "FAILED"

Raise == Go(Failing) /\ UNCHANGED <<live, owner, data, account, conf, writes, attempts>>

Continue(next) == Go(next) /\ UNCHANGED <<live, owner, data, account, conf, writes, attempts>>

(* execute_upgrade, step 1: a supplied target is probed as the application  *)
(* account and must be another database than the source; it is not done     *)
(* for a target that is still to be created.                                *)
BeginUpgrade ==
    /\ lane.place \in {"idle"} \cup Stopped
    /\ attempts < MaxAttempts
    /\ attempts' = attempts + 1
    /\ \E d \in {"reviewed", "reworded", "widened"} :
           lane' = [Fresh EXCEPT !.ddl = d,
                       !.place = IF conf.mode = "supplied" THEN "separate" ELSE "witness"]
    /\ UNCHANGED <<live, owner, data, account, conf, writes>>

(* validate_migration_database_separation: the fingerprints of the servers. *)
Separated == ~conf.same

(* probe_candidate_connection_access, the separation and the generation. *)
ProbeSupplied ==
    /\ Is("separate")
    /\ \/ /\ AccountApproved(FALSE) /\ "target" \in account /\ Separated
          /\ Continue("witness")
       \/ Continue("FAILED")

(* The first gate: the target is a consistent copy of the source. *)
CompareBefore ==
    /\ Is("upgrade")
    /\ IF Whole(TargetDatabase) /\ SameFacts(SourceRead, TargetDatabase)
       THEN Continue("schema") ELSE Raise

------------------------------------------------------------------------------
(* apply_vnext_schema_v3 *)

(* _v3_parse_ddl and the reviewed operations, whatever the file's wording. *)
ContractHolds == lane.ddl # "widened"

(* _v3_assert_column_shape on MariaDB: the type and the default decide;     *)
(* nullability is read under a key the observation does not have, so a      *)
(* nullable column passes for NOT NULL.                                     *)
ColumnShapeHolds(db) == db.column \in {"present", "nullable"}

(* _v3_ensure_ledger: an older runner's ledger gets the columns the new     *)
(* one reads; each statement commits by itself.                             *)
EnsureLedger ==
    /\ Is("schema")
    /\ IF ContractHolds
       THEN WriteTarget([TargetDatabase EXCEPT !.shape = "v3"]) /\ Go("ledger")
       ELSE Raise

(* The APPLIED state binds the file's checksum. *)
CheckLedger ==
    /\ Is("ledger")
    /\ LET t == TargetDatabase
       IN  IF t.ledger = "APPLIED" => t.ddl = lane.ddl /\ t.column # "other"
           THEN Continue(IF t.ledger = "APPLIED" THEN "filestate" ELSE "start")
           ELSE Raise

StartV3 ==
    /\ Is("start")
    /\ WriteTarget([TargetDatabase EXCEPT !.ledger = "STARTED", !.ddl = lane.ddl])
    /\ Go("column")

(* MariaDB commits an ALTER by itself; rows get the column's default. *)
WithColumn(db) ==
    [db EXCEPT !.column = "present",
               !.report = [r \in DOMAIN @ |-> [@[r] EXCEPT !.mode = "LEGACY_STATIC"]]]

V3Fails == WriteTarget([TargetDatabase EXCEPT !.ledger = "FAILED"]) /\ Go(Failing)

AddColumn ==
    /\ Is("column")
    /\ \/ /\ TargetDatabase.column = "absent"
          /\ WriteTarget(WithColumn(TargetDatabase))
          /\ Go("repair")
       \/ ColumnShapeHolds(TargetDatabase) /\ Continue("repair")
       \/ V3Fails

(* Blank modes and key hashes; adding a unique key commits them. *)
Repair ==
    /\ Is("repair")
    /\ \/ /\ WriteTarget([TargetDatabase EXCEPT
                !.hashed = TRUE,
                !.report = [r \in DOMAIN @ |-> [@[r] EXCEPT !.mode = "LEGACY_STATIC"]]])
          /\ Go("applied")
       \/ V3Fails

Applied ==
    /\ Is("applied")
    /\ WriteTarget([TargetDatabase EXCEPT !.ledger = "APPLIED"])
    /\ Go("filestate")

ApplyV3 == EnsureLedger \/ CheckLedger \/ StartV3 \/ AddColumn \/ Repair \/ Applied

------------------------------------------------------------------------------
(* _file_state_ready_gate: a project that has scans has a current one; its  *)
(* projection is rebuilt and validated in a transaction.                    *)
ReadyGateHolds(db) == db.current # 0 \/ db.scan = <<>>

FileStateGate ==
    /\ Is("filestate")
    /\ IF ReadyGateHolds(TargetDatabase)
       THEN /\ WriteTarget([TargetDatabase EXCEPT
                   !.pending = PendingLines(TargetDatabase), !.fsVersion = TargetDatabase.version])
            /\ Go("recheck")
       ELSE Raise

(* The last gate.  The source is read through the same view as before, so   *)
(* its half can only find the two equal.                                    *)
CompareAfter ==
    /\ Is("recheck")
    /\ IF /\ SameFacts(lane.view, TargetDatabase)
          /\ SameFacts(lane.view, SourceRead)
       THEN Continue("PASSED") ELSE Raise

(* The process dies. *)
Dies ==
    /\ lane.place \notin {"idle"} \cup Stopped
    /\ attempts < MaxAttempts
    /\ lane' = Fresh
    /\ UNCHANGED <<live, owner, data, account, conf, writes, attempts>>

UpgradeStep ==
    \/ BeginUpgrade
    \/ ProbeSupplied
    \/ Backup
    \/ CreateTarget
    \/ CompareBefore
    \/ ApplyV3
    \/ FileStateGate
    \/ CompareAfter
    \/ CleanupTarget
    \/ Dies

OthersStep ==
    \/ \E r \in Ids : EditRecord(r)
    \/ \E k \in Ids : RejectLine(k)
    \/ \E n \in Names : OperatorTakesName(n)
    \/ OperatorChangesGrants

ExistingNext == UpgradeStep \/ OthersStep

Configurations ==
    {c \in [mode : {"restore", "empty", "supplied"}, approved : {"target", "source"},
            same : BOOLEAN] : c.same => c.mode = "supplied"}

ExistingInit ==
    /\ live = SourceDatabase
    /\ conf \in Configurations
    /\ lane = Fresh
    /\ writes = 0 /\ attempts = 0
    /\ owner = [n \in Names |-> IF n = "target" /\ conf.mode = "supplied" THEN "operator" ELSE Nil]
    /\ account = {"source"} \cup (IF conf.mode = "supplied" THEN {"target"} ELSE {})
    /\ IF conf.mode = "supplied"
       THEN \E d \in SuppliedTargets : data = [n \in Names |-> IF n = "target" THEN d ELSE Nil]
       ELSE data = [n \in Names |-> Nil]

------------------------------------------------------------------------------
(* A migration that ends PASSED has carried over exactly the facts of the   *)
(* source it read, row by row up to the numbering of ids, although it only  *)
(* compared snapshots: whatever copy it was given, whoever wrote meanwhile  *)
(* and wherever an earlier attempt died.  The schema is complete, no report *)
(* is without a mode and the file state is that of the migrated facts.      *)
MigratedIsWitness ==
    lane.place = "PASSED" =>
        LET t == TargetDatabase
        IN  /\ Isomorphic(t, lane.view)
            /\ t.ledger = "APPLIED" /\ t.hashed /\ t.shape = "v3"
            /\ \A r \in DOMAIN t.report : t.report[r].mode = "LEGACY_STATIC"
            /\ t.pending = PendingLines(t) /\ t.fsVersion = t.version

(* No step of the migration writes to the source or to a database that      *)
(* somebody else created, also when the name was free a moment ago, when a  *)
(* command failed half way or when an alias makes both sides one database.  *)
OthersDatabasesKept ==
    [][UpgradeStep =>
          /\ live' = live
          /\ conf.mode # "supplied" =>
                \A n \in Names : owner[n] = "operator"
                    => owner'[n] = "operator" /\ data'[n] = data[n]]_laneVars

(* A run that failed without saying so left nothing behind: the database it *)
(* created is gone and its grant is taken back.  What could not be undone   *)
(* ends as HELD, with the error in the evidence.  A target whose evidence   *)
(* was lost between creation and hand-over is the exception the code makes  *)
(* (run_upgrade.py:3237-3297 keeps the evidence only at the end).           *)
NoSilentResidue ==
    (lane.place = "FAILED" /\ ~lane.lost) =>
        /\ ~(lane.created /\ owner["target"] = "run")
        /\ ~(lane.granted /\ "target" \in account)
==============================================================================
