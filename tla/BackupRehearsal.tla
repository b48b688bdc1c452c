--------------------------- MODULE BackupRehearsal ---------------------------
(***************************************************************************)
(* scripts/upgrade/run_verified_backup_rehearsal.py: a verified backup of   *)
(* production is restored into a database of its own and migrated into a    *)
(* second one, twice, to show that the migration is exact and repeatable.   *)
(* Both databases are disposable.  The command writes its result to a file  *)
(* and, when asked to, to the evidence manifest of Gate A.                  *)
(*                                                                         *)
(* migrate_legacy, which LegacyMigration models commit by commit, is one    *)
(* step here: on a source nobody writes to it leaves the target with the    *)
(* source's facts or with others.  The contents of a dump and of a database *)
(* are one value.                                                           *)
(***************************************************************************)
EXTENDS VNextFacts

CONSTANT MaxRehearsals

VARIABLES
    backup,     \* the operator's dump and its provenance manifest
    schema,     \* the two database names on the server: who made them, what they hold
    rehearsal,  \* the process
    verdict,    \* the output file and the manifest, as they are on disk
    rehearsals  \* how often the command was started

rehearsalVars == <<backup, schema, rehearsal, verdict, rehearsals>>

Disposable == {"source", "target"}

Absent == [owner |-> Nil, holds |-> Nil]

(* run's local variables.  `status` is result["status"]. *)
NotStarted ==
    [place |-> "idle", created |-> {}, restored |-> Nil, first |-> Nil, second |-> Nil,
     ready |-> TRUE, status |-> "INCOMPLETE"]

During(place) == rehearsal.place = place

Turn(place) == rehearsal' = [rehearsal EXCEPT !.place = place]

(* An exception of the try block: the finally clause is next. *)
GiveUp == Turn("drop_target") /\ UNCHANGED schema

Keeps == UNCHANGED <<backup, verdict, rehearsals>>

StartRehearsal ==
    /\ rehearsal.place \in {"idle", "done"}
    /\ rehearsals < MaxRehearsals
    /\ rehearsals' = rehearsals + 1
    /\ rehearsal' = [NotStarted EXCEPT !.place = "validate"]
    /\ UNCHANGED <<backup, schema, verdict>>

(* _validate_dump: its hash is the one the operator named. *)
DumpIsValid == backup.named = backup.holds

(* _load_backup_provenance_manifest: a verified, external, not synthetic    *)
(* production backup of exactly this dump.                                  *)
ProvenanceHolds == backup.class = "production_backup" /\ backup.attested = backup.holds

(* The arguments, the dump, the manifest, the client and the server. *)
ValidateInputs ==
    /\ During("validate")
    /\ \/ DumpIsValid /\ ProvenanceHolds /\ Turn("exists")
       \/ Turn("drop_target")
    /\ UNCHANGED schema /\ Keeps

(* _database_exists for both names. *)
CheckBothAbsent ==
    /\ During("exists")
    /\ \/ (\A n \in Disposable : schema[n] = Absent) /\ Turn("create_source")
       \/ Turn("drop_target")
    /\ UNCHANGED schema /\ Keeps

(* _create_database fails when somebody took the name meanwhile. *)
Create(n, place, next) ==
    /\ During(place)
    /\ \/ /\ schema[n] = Absent
          /\ schema' = [schema EXCEPT ![n].owner = "rehearsal"]
          /\ rehearsal' = [rehearsal EXCEPT !.created = @ \cup {n}, !.place = next]
       \/ GiveUp
    /\ Keeps

CreateSource == Create("source", "create_source", "create_target")

CreateEmptyTarget == Create("target", "create_target", "restore")

(* _restore_dump reads the file again; a failed client may have restored a  *)
(* part of it.  The collations and identities are compared after it.        *)
RestoreSource ==
    /\ During("restore")
    /\ \/ /\ schema' = [schema EXCEPT !["source"].holds = backup.holds]
          /\ \/ rehearsal' = [rehearsal EXCEPT !.restored = backup.holds, !.place = "migrate"]
             \/ Turn("drop_target")
       \/ /\ schema' = [schema EXCEPT !["source"].holds = "part"]
          /\ Turn("drop_target")
    /\ Keeps

(* apply_schema, migrate_legacy and apply_analysis_domain, then the Ready   *)
(* gate of every project and the semantic snapshot of the target.           *)
MigrateOnce ==
    /\ During("migrate")
    /\ \/ \E facts \in {schema["source"].holds, "part"}, ready \in BOOLEAN :
              /\ schema' = [schema EXCEPT !["target"].holds = facts]
              /\ rehearsal' = [rehearsal EXCEPT !.first = facts, !.ready = ready, !.place = "again"]
       \/ schema' = [schema EXCEPT !["target"].holds = "part"] /\ Turn("drop_target")
    /\ Keeps

(* The same again on what the first run left. *)
MigrateAgain ==
    /\ During("again")
    /\ \/ \E facts \in {schema["target"].holds, schema["source"].holds, "part"}, ready \in BOOLEAN :
              /\ schema' = [schema EXCEPT !["target"].holds = facts]
              /\ rehearsal' = [rehearsal EXCEPT
                                 !.second = facts, !.ready = @ /\ ready, !.place = "decide"]
       \/ GiveUp
    /\ Keeps

(* semantic_match, idempotent and the Ready gates of both runs. *)
Decide ==
    /\ During("decide")
    /\ rehearsal' = [rehearsal EXCEPT
                       !.place = "drop_target",
                       !.status = IF /\ rehearsal.first = schema["source"].holds
                                     /\ rehearsal.second = rehearsal.first
                                     /\ rehearsal.ready
                                  THEN "PASSED" ELSE @]
    /\ UNCHANGED schema /\ Keeps

(* The finally clause: only what this run created is dropped, the target    *)
(* first; a drop that fails takes PASSED back and does not stop the other.  *)
DropOwn(n, place, next) ==
    /\ During(place)
    /\ IF n \in rehearsal.created
       THEN \/ schema' = [schema EXCEPT ![n] = Absent] /\ Turn(next)
            \/ /\ rehearsal' = [rehearsal EXCEPT !.status = "INCOMPLETE", !.place = next]
               /\ UNCHANGED schema
       ELSE Turn(next) /\ UNCHANGED schema
    /\ Keeps

DropTarget == DropOwn("target", "drop_target", "drop_source")

DropSource == DropOwn("source", "drop_source", "output")

(* main writes the result, then the manifest, then the result again. *)
WriteOutput ==
    /\ During("output")
    /\ verdict' = [verdict EXCEPT !.output = rehearsal.status]
    /\ Turn("manifest") \/ Turn("done")
    /\ UNCHANGED <<backup, schema, rehearsals>>

RecordManifest ==
    /\ During("manifest")
    /\ \/ /\ verdict' = [verdict EXCEPT !.manifest = rehearsal.status]
          /\ Turn("rewrite")
       \/ /\ verdict' \in {verdict, [verdict EXCEPT !.manifest = rehearsal.status]}
          /\ rehearsal' = [rehearsal EXCEPT !.status = "INCOMPLETE", !.place = "rewrite"]
    /\ UNCHANGED <<backup, schema, rehearsals>>

RewriteOutput ==
    /\ During("rewrite")
    /\ verdict' = [verdict EXCEPT !.output = rehearsal.status]
    /\ Turn("done")
    /\ UNCHANGED <<backup, schema, rehearsals>>

RehearsalDies ==
    /\ rehearsal.place \notin {"idle", "done"}
    /\ rehearsal' = NotStarted
    /\ UNCHANGED <<backup, schema, verdict, rehearsals>>

RehearsalStep ==
    \/ StartRehearsal
    \/ ValidateInputs
    \/ CheckBothAbsent
    \/ CreateSource
    \/ CreateEmptyTarget
    \/ RestoreSource
    \/ MigrateOnce
    \/ MigrateAgain
    \/ Decide
    \/ DropTarget
    \/ DropSource
    \/ WriteOutput
    \/ RecordManifest
    \/ RewriteOutput
    \/ RehearsalDies

(* Others may take a name that is free and, as nothing locks the dump,      *)
(* write a newer one over it.                                               *)
SomebodyTakes(n) ==
    /\ schema[n] = Absent
    /\ schema' = [schema EXCEPT ![n] = [owner |-> "operator", holds |-> "theirs"]]
    /\ UNCHANGED <<backup, rehearsal, verdict, rehearsals>>

SomebodyReplacesDump ==
    /\ ~backup.replaced
    /\ backup' = [backup EXCEPT !.holds = "newer", !.replaced = TRUE]
    /\ UNCHANGED <<schema, rehearsal, verdict, rehearsals>>

RehearsalNext ==
    \/ RehearsalStep
    \/ \E n \in Disposable : SomebodyTakes(n)
    \/ SomebodyReplacesDump

RehearsalInit ==
    /\ backup \in [holds : {"production", "fixture"}, named : {"production", "fixture"},
                   attested : {"production", "fixture"}, replaced : {FALSE},
                   class : {"production_backup", "synthetic"}]
    /\ schema = [n \in Disposable |-> Absent]
    /\ rehearsal = NotStarted
    /\ verdict = [output |-> Nil, manifest |-> Nil]
    /\ rehearsals = 0

------------------------------------------------------------------------------
(* A rehearsal that ended with PASSED in its output file has migrated what  *)
(* it restored, twice alike.  That this is the attested backup holds only   *)
(* while nobody writes over the dump: it is hashed and restored in two      *)
(* reads (run_verified_backup_rehearsal.py:291-311 and 229-258).            *)
PassedIsRehearsed ==
    (During("done") /\ verdict.output = "PASSED") =>
        /\ rehearsal.restored # Nil
        /\ rehearsal.first = rehearsal.restored /\ rehearsal.second = rehearsal.restored
        /\ ~backup.replaced => rehearsal.restored = backup.attested

(* It has also dropped both of its databases: a drop that failed is never   *)
(* behind a PASSED output.                                                  *)
PassedIsClean ==
    (During("done") /\ verdict.output = "PASSED") =>
        \A n \in rehearsal.created : schema[n].owner # "rehearsal"

(* No step of the rehearsal touches a database somebody else made under one *)
(* of its names, also when the name was free when it looked.                *)
RehearsalKeepsOthers ==
    [][RehearsalStep => \A n \in Disposable :
          schema[n].owner = "operator" => schema'[n] = schema[n]]_rehearsalVars
==============================================================================
