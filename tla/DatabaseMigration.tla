-------------------------- MODULE DatabaseMigration --------------------------
(***************************************************************************)
(* Step 4 of scripts/upgrade/run_upgrade.py: the source's generation        *)
(* decides which migration runs, and a database that is neither, or both,   *)
(* is migrated by none.  The other command that migrates a database is the  *)
(* rehearsal, on databases of its own.                                      *)
(***************************************************************************)
EXTENDS LegacyMigration, ExistingVNextUpgrade, BackupRehearsal

VARIABLES
    signature, \* the generations whose tables the source holds
    command    \* what the operator runs: "upgrade" or "rehearsal"

migrationVars == <<source, target, run, edits, runs, live, owner, data, account, conf,
                   lane, writes, attempts, backup, schema, rehearsal, verdict,
                   rehearsals, signature, command>>

Generation ==
    CASE signature = {"LEGACY"} -> "LEGACY"
      [] signature = {"VNEXT"} -> "VNEXT"
      [] OTHER -> "UNKNOWN"

LegacyIdle == Init /\ target = EmptyTarget

ExistingIdle ==
    /\ ExistingInit
    /\ conf = [mode |-> "restore", approved |-> "target", same |-> FALSE]

(* Only the command that is run starts in all of its initial states. *)
UpgradeInit ==
    /\ command = "upgrade"
    /\ \/ signature = {"LEGACY"} /\ Init /\ ExistingIdle
       \/ signature = {"VNEXT"} /\ LegacyIdle /\ ExistingInit
       \/ signature \in {{}, {"LEGACY", "VNEXT"}} /\ LegacyIdle /\ ExistingIdle
    /\ RehearsalInit
    /\ backup = [holds |-> "production", named |-> "production", attested |-> "production",
                 replaced |-> FALSE, class |-> "production_backup"]

MigrationInit ==
    \/ UpgradeInit
    \/ /\ command = "rehearsal" /\ signature = {"LEGACY"}
       /\ LegacyIdle /\ ExistingIdle /\ RehearsalInit

LegacyStep ==
    /\ command = "upgrade" /\ Generation = "LEGACY"
    /\ Next
    /\ UNCHANGED laneVars /\ UNCHANGED rehearsalVars

VNextStep ==
    /\ command = "upgrade" /\ Generation = "VNEXT"
    /\ ExistingNext
    /\ UNCHANGED vars /\ UNCHANGED rehearsalVars

RehearsalRuns ==
    /\ command = "rehearsal"
    /\ RehearsalNext
    /\ UNCHANGED vars /\ UNCHANGED laneVars

MigrationNext == (LegacyStep \/ VNextStep \/ RehearsalRuns) /\ UNCHANGED <<signature, command>>

MigrationSpec == MigrationInit /\ [][MigrationNext]_migrationVars

(* No command writes to a database it did not create or was not given. *)
OthersKept == ForeignTargetUntouched /\ OthersDatabasesKept /\ RehearsalKeepsOthers

(* What is reported as migrated is exactly what was read, and what was read *)
(* is what the command was given: the witness, or the backup it restored.   *)
MigratedIsExact == MigratedIsWitness /\ PassedIsRehearsed

(* A command that says nothing of residue has left none. *)
LeavesNothing == NoSilentResidue /\ PassedIsClean
==============================================================================
