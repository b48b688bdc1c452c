--------------------------- MODULE ValidationSession ---------------------------
(***************************************************************************)
(* The validation process and who owns it: ValidationSession of            *)
(* scripts/upgrade/validation_session.py, the control script of a staging  *)
(* host (scripts/upgrade/local_staging_control.py) and the scan for what   *)
(* an earlier attempt left (scripts/upgrade/validation_residue.py).        *)
(*                                                                         *)
(* The session manifest of attempt n is a file; the orchestrator keeps a   *)
(* copy of it in memory and writes that copy back.  Of a manifest only     *)
(* this is kept: whether it owns the process that is running.              *)
(***************************************************************************)
EXTENDS UpgradeHost

VARIABLES
    owners,   \* the attempts whose manifest file owns the running process
    mine      \* the orchestrator's copy owns it

sessionVars == <<owners, mine>>

SessionTypeOK == owners \subseteq Attempts /\ mine \in BOOLEAN
SessionInit == owners = {} /\ mine = FALSE

(* ValidationSession.create: no process yet. *)
CreateSession == mine' = FALSE /\ UNCHANGED owners

(* save: the copy replaces the file. *)
Save(n, copy) == owners' = IF copy THEN owners \cup {n} ELSE owners \ {n}

(* start_validation_api.  local_staging_control starts the process and adds *)
(* it to the manifest file, and tears down what does not become ready; a     *)
(* systemd unit is started without the manifest.                             *)
StartLocal(n, db, ok) ==
    /\ validation' = [up |-> ok, db |-> db]
    /\ owners' = IF ok THEN owners \cup {n} ELSE owners
    /\ UNCHANGED mine

StartUnit(db, ok) == StartValidation(ok, db) /\ UNCHANGED sessionVars

(* _wait_candidate_validation_ready: marks the session STARTING, which saves *)
(* the copy; in production adds the unit's MainPID; marks it PASSED.         *)
MarkStarting(n) == Save(n, mine) /\ UNCHANGED mine
AddProcess(n) == mine' = TRUE /\ Save(n, TRUE)

(* stop_owned_processes and verify_teardown: the owned process is stopped,  *)
(* and no one listens on the port.                                          *)
TeardownStops(owned) == validation' = [validation EXCEPT !.up = @ /\ ~owned]
TeardownPassed(owned) == validation.up => owned

(* stop_validation_api: local_staging_control loads the manifest and tears  *)
(* it down; systemctl stops the unit.                                       *)
StopLocal(n) == TeardownStops(n \in owners)
StopUnit(ok) == StopValidation(ok)

(* teardown by the orchestrator's copy, which is saved. *)
Teardown(n) == TeardownStops(mine) /\ Save(n, mine) /\ UNCHANGED mine

(***************************************************************************)
(* scan_validation_residue: a process on a validation port blocks, unless  *)
(* the attempt is configured with the session of a manifest that owns it;  *)
(* teardown_validation_residue then signals it.                            *)
(***************************************************************************)
ResidueBlocked == validation.up
ResidueIsOwned == validation.up /\ owners # {}
TeardownResidue == validation' = [validation EXCEPT !.up = FALSE] /\ UNCHANGED sessionVars
=============================================================================
