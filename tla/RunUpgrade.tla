------------------------------ MODULE RunUpgrade ------------------------------
(***************************************************************************)
(* UpgradeOrchestrator.execute_upgrade of scripts/upgrade/run_upgrade.py:  *)
(* an upgrade prepares a candidate beside the running release (Phase B),   *)
(* validates it, and cuts over in a short window in which writes are       *)
(* frozen (Phase D).  Whatever fails goes through _fail, which puts the    *)
(* previous release back.  The orchestrator may die at any step; another   *)
(* attempt may follow a failed one.                                        *)
(*                                                                         *)
(* Each action is one call with side effects of execute_upgrade or _fail,  *)
(* so that users act between any two of them.  pc names the next one.      *)
(***************************************************************************)
EXTENDS UpgradeLifecycle, DisposableTarget, ValidationSession, EvidenceManifest

CONSTANTS
    Setups    \* how an upgrade may be configured

ASSUME TeardownAssumption == None \notin {"PASSED", "FAILED"}

VARIABLES
    attempt,  \* the number of the current attempt
    pc,       \* its next call
    o,        \* the orchestrator's own flags
    hold      \* DATA_SAFETY_HOLD has been logged, or an orchestrator has died

controlVars == <<attempt, pc, o, hold>>
vars == <<hostVars, publisherVars, vfoswindVars, lifecycleVars, backup, sessionVars,
          manifestVars, controlVars>>

(* What most steps leave alone. *)
usersAndData == <<dataVars, userVars>>
releaseVars == <<publisherVars, bindingVars>>
preparationVars == <<backup, sessionVars>>

NewFlags == [layout |-> FLAT, phase_d_entered |-> FALSE, switch_attempted |-> FALSE,
             release_bindings_changed |-> FALSE, runtime_binding_attempted |-> FALSE,
             runtime_bound |-> FALSE, traffic_open_attempted |-> FALSE,
             prepared |-> FALSE, teardown |-> None, failed |-> FALSE]

Ended == {"refused", "failed", "crashed", "READY"}
PhaseB == {"preflight", "preflight_schema", "preflight_controls", "preflight_host", "residue",
           "backup", "target", "migrate", "prepare", "gateway", "bind_validation",
           "reload_validation", "start_validation", "wait_ready", "confirm", "gate"}
          \cup CheckSections \cup ProductionCheckSections
TeardownSteps == {"t_stop", "t_session", "t_binding", "t_reload", "t_gateway"}
PhaseD == {"freeze", "freeze_command", "freeze_abort", "drain", "reconfirm", "stop",
           "adopt", "switch", "bind_release", "bind_database", "reload", "activate",
           "nginx", "verify", "final_gate", "open", "post_open", "open_gate", "finalize",
           "record_open"}
FailSteps == {"fail", "f_stop", "f_pointer", "f_bindings", "f_bindings_reload",
              "f_database", "f_database_reload", "f_abort", "f_nginx", "f_teardown",
              "f_cleanup"}
AbortSteps == {"a_refreeze", "a_current", "a_stop", "a_start", "a_lift"}

TypeOK ==
    /\ HostTypeOK /\ PublisherTypeOK /\ VfoswindTypeOK /\ LifecycleTypeOK /\ BackupTypeOK
    /\ SessionTypeOK /\ ManifestTypeOK
    /\ attempt \in Attempts
    /\ pc \in UNION {PhaseB, TeardownSteps, PhaseD, FailSteps, AbortSteps, Ended}
    /\ o \in [layout : {FLAT, IMMUTABLE_CURRENT}, phase_d_entered : BOOLEAN,
              switch_attempted : BOOLEAN, release_bindings_changed : BOOLEAN,
              runtime_binding_attempted : BOOLEAN, runtime_bound : BOOLEAN,
              traffic_open_attempted : BOOLEAN, prepared : BOOLEAN,
              teardown : {None, "PASSED", "FAILED"}, failed : BOOLEAN]
    /\ hold \in BOOLEAN

Init ==
    /\ HostInit
    /\ setup \in Setups
    /\ PublisherInit(setup.layout) /\ VfoswindInit
    /\ lc = NewLifecycle /\ backup = None /\ SessionInit /\ ManifestInit
    /\ attempt = 1 /\ pc = "preflight" /\ o = NewFlags /\ hold = FALSE

(* ok leads on; anything else leads to _fail. *)
Continue(ok, next) == pc' = IF ok THEN next ELSE "fail"

(***************************************************************************)
(* Phase A: nothing is changed but the ledger, and an early return leaves  *)
(* without _fail.  What an earlier part of it has recorded stays recorded. *)
(***************************************************************************)
Refuse(ok, next) == pc' = IF ok THEN next ELSE "refused"

PhaseAFrame ==
    UNCHANGED <<usersAndData, procVars, marker, releaseVars, validationBindingVars, adapter,
                lifecycleVars, backup, attempt, hold>>

(* A new orchestrator; the release, and the two databases, are the right ones. *)
ValidateIdentityAndTarget ==
    /\ pc = "preflight"
    /\ \E ok \in Outcomes("preflight") :
        /\ Charge(ok)
        /\ IF ok THEN Record(attempt, SeparationSections) ELSE UNCHANGED evidence
        /\ Refuse(ok, "preflight_schema")
    /\ Decide(FALSE)
    /\ PhaseAFrame /\ UNCHANGED <<sessionVars, o>>

(* _refresh_release_gate_classification: in production the source is         *)
(* classified again and must agree with the reviewed class and with what     *)
(* this attempt saw before.  The gates accept only the stage before the      *)
(* audit of the path mapping.                                                *)
ReleaseGateClassification(stage) ==
    IF ~Production THEN evidence["release_gate_classification"]
    ELSE IF stage = "before_path_mapping" THEN attempt ELSE 0

(* The class of the release gate, before the attempt changes anything, and   *)
(* the DDL that will be applied.                                             *)
PreflightSchema ==
    /\ pc = "preflight_schema"
    /\ RecordEach([s \in SchemaSections \cup ClassificationSections |->
                      IF s \in SchemaSections THEN attempt
                      ELSE ReleaseGateClassification("before_mutation")])
    /\ pc' = "preflight_controls"
    /\ PhaseAFrame /\ UNCHANGED <<faults, sessionVars, decision, o>>

(* CURRENT must be the previous release and match its manifest; a Flat root  *)
(* must be bound to the candidate, to be adopted at the cutover.             *)
CurrentIsPrevious == CurrentIsValid /\ current = 0
FlatIsAdoptable == Layout = FLAT
ReleaseControlsPass == CurrentIsPrevious \/ FlatIsAdoptable

(* validate_candidate_publication_preflight: the manifest, the content and   *)
(* the provenance of the candidate and the trust in it are verified; an      *)
(* artifact that does not verify is one of the faults.                       *)
CandidatePublicationPreflight(ok) == Charge(ok)

ConfigureReleaseControls ==
    /\ pc = "preflight_controls"
    /\ \E ok \in Outcomes("preflight") :
        /\ CandidatePublicationPreflight(ok)
        /\ Refuse(ok /\ ReleaseControlsPass, IF Production THEN "preflight_host" ELSE "residue")
    /\ o' = [o EXCEPT !.layout = Layout]
    /\ CreateSession
    /\ PhaseAFrame /\ UNCHANGED manifestVars

PreflightIntegration ==
    /\ pc = "preflight_host"
    /\ \E ok \in Outcomes("preflight") :
        /\ Charge(ok)
        /\ LET closed == ok /\ IntegrationIsClosed IN
           /\ IF closed THEN Record(attempt, IntegrationSections) ELSE UNCHANGED evidence
           /\ Refuse(closed, "residue")
    /\ PhaseAFrame /\ UNCHANGED <<sessionVars, decision, o>>

ScanResidue ==
    /\ pc = "residue"
    /\ \/ ~ResidueBlocked /\ pc' = "backup" /\ UNCHANGED <<validation, sessionVars>>
       \/ ResidueBlocked /\ pc' = "refused" /\ UNCHANGED <<validation, sessionVars>>
       \/ ResidueIsOwned /\ pc' = "backup" /\ TeardownResidue
    /\ UNCHANGED <<usersAndData, serving, marker, faults, releaseVars, validationBindingVars,
                   adapter, lifecycleVars, backup, manifestVars, attempt, o, hold>>

(***************************************************************************)
(* Phase B.  The backup and the target are made while users go on writing  *)
(* to the source.                                                          *)
(***************************************************************************)
Backup ==
    /\ pc = "backup"
    /\ \E ok \in Outcomes("backup") :
        /\ Charge(ok)
        /\ PerformBackup(ok)
        /\ IF ok THEN Record(attempt, {"backup_evidence"}) ELSE UNCHANGED evidence
        /\ Continue(ok, "target")
    /\ UNCHANGED <<usersAndData, procVars, marker, releaseVars, validationBindingVars, adapter,
                   lifecycleVars, sessionVars, decision, attempt, o, hold>>

(* target_connection_factory and the checks of the new target; the target is *)
(* on record (_target_preparation) only when all of them have passed.        *)
PrepareTarget ==
    /\ pc = "target"
    /\ \E ok \in Outcomes("target") :
        /\ Charge(ok)
        /\ LET contents == IF setup.plan = "empty" THEN {} ELSE backup IN
           \/ /\ setup.plan = "supplied"
              /\ exists' = exists \cup {attempt}
              /\ rows' = [rows EXCEPT ![attempt] = contents]
              /\ UNCHANGED <<grants, o>>
           \/ /\ setup.plan # "supplied"
              /\ CreateTarget(attempt, contents, ok)
              /\ o' = [o EXCEPT !.prepared = ok]
           \/ /\ setup.plan # "supplied" /\ ~ok
              /\ CreateTarget(attempt, contents, TRUE)
              /\ UNCHANGED o
        /\ IF ok THEN Record(attempt, {"disposable_target"}) ELSE UNCHANGED evidence
        /\ Continue(ok, "migrate")
    /\ UNCHANGED <<acked, userVars, procVars, marker, releaseVars, validationBindingVars,
                   adapter, lifecycleVars, backup, sessionVars, decision, attempt, hold>>

(* upgrade_existing_vnext compares the target with the source, which users  *)
(* may have changed since the backup; migrate_legacy copies the source as   *)
(* it is now.  A comparison that fails ends the attempt.                    *)
Migrate ==
    /\ pc = "migrate"
    /\ \E ok \in Outcomes("migrate") :
        /\ Charge(ok)
        /\ LET copied == IF setup.plan = "empty" THEN rows[0] ELSE rows[attempt]
               equal == ok /\ copied = rows[0]
           IN  /\ rows' = [rows EXCEPT ![attempt] = IF ok THEN copied ELSE @]
               /\ IF equal THEN Record(attempt, {"data_hash_verification", "file_state_gate"})
                           ELSE UNCHANGED evidence
               /\ Continue(equal, "prepare")
    /\ UNCHANGED <<exists, grants, acked, userVars, procVars, marker, releaseVars,
                   validationBindingVars, adapter, lifecycleVars, backup, sessionVars,
                   decision, attempt, o, hold>>

PrepareRelease ==
    /\ pc = "prepare"
    /\ \E ok \in Outcomes("prepare") :
        /\ Charge(ok)
        /\ Prepare(attempt, ok)
        /\ IF ok THEN Record(attempt, {"candidate_release_prepared"}) ELSE UNCHANGED evidence
        /\ Continue(ok, IF Production THEN "gateway" ELSE "start_validation")
    /\ UNCHANGED <<usersAndData, procVars, marker, vfoswindVars, lifecycleVars, backup,
                   sessionVars, decision, attempt, o, hold>>

BindGateway ==
    /\ pc = "gateway"
    /\ \E ok \in Outcomes("gateway") :
        /\ Charge(ok)
        /\ LET bound == ok /\ pointer \in {None, attempt} IN
           /\ BindValidationGateway(attempt, bound)
           /\ Continue(bound, "bind_validation")
    /\ UNCHANGED <<usersAndData, procVars, marker, publisherVars, lifecycleVars,
                   preparationVars, manifestVars, attempt, o, hold>>

BindValidation ==
    /\ pc = "bind_validation"
    /\ \E ok \in Outcomes("bind_validation") :
        /\ Charge(ok)
        /\ BindValidationCandidate(attempt, ok)
        /\ Continue(ok, "reload_validation")
    /\ UNCHANGED <<usersAndData, procVars, marker, publisherVars, lifecycleVars,
                   preparationVars, manifestVars, attempt, o, hold>>

ReloadValidation ==
    /\ pc = "reload_validation"
    /\ \E ok \in Outcomes("daemon_reload") :
        /\ Charge(ok)
        /\ DaemonReload(ok)
        /\ IF ok THEN Record(attempt, BindingSections) ELSE UNCHANGED evidence
        /\ Continue(ok, "start_validation")
    /\ UNCHANGED <<usersAndData, procVars, marker, publisherVars, lifecycleVars,
                   preparationVars, decision, attempt, o, hold>>

StartValidationApi ==
    /\ pc = "start_validation"
    /\ Production => ValidationRuntimeIsBound(attempt)
    /\ \E ok \in Outcomes("start_validation") :
        /\ Charge(ok)
        /\ IF setup.control = "local" THEN StartLocal(attempt, attempt, ok)
                                      ELSE StartUnit(attempt, ok)
        /\ Continue(ok, "wait_ready")
    /\ lc' = [lc EXCEPT !.api_started = TRUE]
    /\ UNCHANGED <<usersAndData, serving, marker, releaseVars, validationBindingVars, adapter,
                   setup, backup, manifestVars, attempt, o, hold>>

(* In production the interpreter of the unit first loads the candidate and   *)
(* its configuration; a failure of that ends the attempt with nothing        *)
(* started.                                                                  *)
ValidationRuntimePreflightFails ==
    /\ pc = "start_validation"
    /\ Production
    /\ \E ok \in Outcomes("start_validation") :
        /\ ~(ok /\ ValidationRuntimeIsBound(attempt))
        /\ Charge(ok)
    /\ pc' = "fail"
    /\ UNCHANGED <<usersAndData, procVars, marker, releaseVars, validationBindingVars, adapter,
                   lifecycleVars, preparationVars, manifestVars, attempt, o, hold>>

WaitCandidateValidationReady ==
    /\ pc = "wait_ready"
    /\ \E ok \in Outcomes("wait_ready") :
        /\ Charge(ok)
        /\ IF Production THEN AddProcess(attempt) ELSE MarkStarting(attempt)
        /\ IF ok THEN Record(attempt, RuntimeSections) ELSE UNCHANGED evidence
        /\ Continue(ok, "targeted_tests")
    /\ UNCHANGED <<usersAndData, procVars, marker, releaseVars, validationBindingVars, adapter,
                   lifecycleVars, backup, decision, attempt, o, hold>>

(***************************************************************************)
(* The checks of the candidate, each recorded with its outcome.  Some run  *)
(* here; others read an artifact that was collected outside, for this      *)
(* attempt or for an earlier one of the same revision.                     *)
(***************************************************************************)
ArtifactsOnDisk == 1 .. attempt

(* What the validator of each artifact compares: session id, candidate hash  *)
(* and served root, all of which are this attempt's alone.  Local evidence   *)
(* carries the revision only, which every attempt shares.                    *)
LocalReleaseIsExact(n) == n \in ArtifactsOnDisk

BrowserIsExact(n) == n = attempt

MutationIsExact(n) == n = attempt

PerformanceIsExact(n) == n = attempt

RollbackIsExact(n) == n = attempt

CheckFrame ==
    UNCHANGED <<usersAndData, procVars, marker, releaseVars, validationBindingVars, adapter,
                lifecycleVars, preparationVars, decision, attempt, o, hold>>

(* A test that fails ends the attempt unrecorded; one that cannot be run is  *)
(* recorded.                                                                 *)
TargetedTests ==
    /\ pc = "targeted_tests"
    /\ \E ok \in Outcomes("checks") :
        /\ Charge(ok)
        /\ \/ Record(IF ok THEN attempt ELSE 0, {"targeted_tests"})
           \/ ~ok /\ UNCHANGED evidence
        /\ Continue(ok, "browser_fixture_regression")
    /\ CheckFrame

(* An accepted artifact is recorded as what it is, a rejected one as FAILED. *)
ReadArtifact(section, ok, n, next) ==
    /\ Charge(ok)
    /\ Record(IF ok THEN n ELSE 0, {section})
    /\ Continue(ok, next)

(* Production reads evidence that is bound to the revision alone; staging    *)
(* runs the browser fixture.                                                 *)
BrowserFixtureRegression ==
    /\ pc = "browser_fixture_regression"
    /\ \E ok \in Outcomes("checks"), n \in ArtifactsOnDisk :
        /\ IF Production THEN LocalReleaseIsExact(n) ELSE n = attempt
        /\ ReadArtifact("browser_fixture_regression", ok, n, "candidate_browser_evidence")
    /\ CheckFrame

(* An artifact of another session is rejected, which is no fault. *)
ReadSessionArtifact(section, IsExact(_), next) ==
    \/ \E ok \in Outcomes("checks"), n \in ArtifactsOnDisk :
         IsExact(n) /\ ReadArtifact(section, ok, n, next)
    \/ \E n \in ArtifactsOnDisk :
         /\ ~IsExact(n)
         /\ Record(0, {section}) /\ pc' = "fail" /\ UNCHANGED faults

CandidateBrowserEvidence ==
    /\ pc = "candidate_browser_evidence"
    /\ ReadSessionArtifact("candidate_browser_evidence", BrowserIsExact,
            IF Production THEN "candidate_authenticated_mutation" ELSE "performance_benchmark")
    /\ CheckFrame

CandidateAuthenticatedMutation ==
    /\ pc = "candidate_authenticated_mutation"
    /\ ReadSessionArtifact("candidate_authenticated_mutation", MutationIsExact,
                           "performance_benchmark")
    /\ CheckFrame

ReleasePerformance ==
    /\ pc = "performance_benchmark"
    /\ ReadSessionArtifact("performance_benchmark", PerformanceIsExact, "path_mapping_audit")
    /\ CheckFrame

(* In production the gate is classified again first.  An audit that fails is *)
(* recorded and left to the gate.                                            *)
PathMappingAudit ==
    /\ pc = "path_mapping_audit"
    /\ \E ok \in Outcomes("checks") :
        /\ Charge(ok)
        /\ \/ /\ RecordEach([s \in {"path_mapping_audit"} \cup ClassificationSections |->
                              IF s = "path_mapping_audit" THEN IF ok THEN attempt ELSE 0
                              ELSE ReleaseGateClassification("before_path_mapping")])
              /\ pc' = "sidecar_audit"
           \/ ~ok /\ Production /\ pc' = "fail" /\ UNCHANGED evidence
    /\ CheckFrame

SidecarAudit ==
    /\ pc = "sidecar_audit"
    /\ \E ok \in Outcomes("checks") : ReadArtifact("sidecar_audit", ok, attempt, "security_audit")
    /\ CheckFrame

SecurityAudit ==
    /\ pc = "security_audit"
    /\ \E ok \in Outcomes("checks") :
        ReadArtifact("security_audit", ok, attempt, "rollback_evidence")
    /\ CheckFrame

(* The rehearsal of the rollback must be of this session; one that is        *)
(* missing or of another is recorded as FAILED and left to the gate.         *)
RollbackEvidence ==
    /\ pc = "rollback_evidence"
    /\ \E ok \in Outcomes("checks"), n \in ArtifactsOnDisk :
        /\ Charge(ok)
        /\ Record(IF ok /\ RollbackIsExact(n) THEN n ELSE 0, {"rollback_evidence"})
    /\ pc' = "t_stop"
    /\ CheckFrame

(***************************************************************************)
(* _teardown_validation_session, on the way to the gate or out of _fail.   *)
(* The process is stopped, the session torn down, the validation unit      *)
(* unbound if both have passed, and the gateway pointer in any case.       *)
(***************************************************************************)
Teardowns(ok) == o' = [o EXCEPT !.teardown = IF ok THEN @ ELSE "FAILED"]

StopValidationApi ==
    /\ pc = "t_stop"
    /\ \E ok \in IF lc.api_started THEN Outcomes("stop_validation") ELSE {TRUE} :
        /\ Charge(ok)
        /\ LET stopped == ok /\ (setup.control = "local" => TeardownPassed(attempt \in owners))
           IN  /\ IF ~lc.api_started THEN UNCHANGED validation
                  ELSE IF setup.control = "local" THEN StopLocal(attempt) ELSE StopUnit(ok)
               /\ lc' = [lc EXCEPT !.api_started = @ /\ ~stopped]
               /\ o' = [o EXCEPT !.teardown = IF ~lc.api_started \/ stopped
                                              THEN "PASSED" ELSE "FAILED"]
    /\ pc' = "t_session"
    /\ UNCHANGED <<usersAndData, serving, marker, releaseVars, validationBindingVars, adapter,
                   setup, preparationVars, manifestVars, attempt, hold>>

TeardownSession ==
    /\ pc = "t_session"
    /\ Teardowns(TeardownPassed(mine))
    /\ Teardown(attempt)
    /\ pc' = "t_binding"
    /\ UNCHANGED <<usersAndData, serving, marker, faults, releaseVars, validationBindingVars,
                   adapter, lifecycleVars, backup, manifestVars, attempt, hold>>

RestoreValidation ==
    /\ pc = "t_binding"
    /\ IF o.teardown = "PASSED" /\ adapter.validation_binding_changed
       THEN \E ok \in Outcomes("restore_validation") :
                /\ Charge(ok)
                /\ RestoreValidationBinding(ok)
                /\ Teardowns(ok)
                /\ pc' = IF ok THEN "t_reload" ELSE "t_gateway"
       ELSE pc' = "t_gateway" /\ UNCHANGED <<faults, vfoswindVars, o>>
    /\ UNCHANGED <<usersAndData, procVars, marker, publisherVars, lifecycleVars,
                   preparationVars, manifestVars, attempt, hold>>

ReloadAfterValidation ==
    /\ pc = "t_reload"
    /\ \E ok \in Outcomes("daemon_reload") :
        /\ Charge(ok)
        /\ DaemonReload(ok)
        /\ Teardowns(ok)
    /\ pc' = "t_gateway"
    /\ UNCHANGED <<usersAndData, procVars, marker, publisherVars, lifecycleVars,
                   preparationVars, manifestVars, attempt, hold>>

RestoreGateway ==
    /\ pc = "t_gateway"
    /\ \E ok \in IF adapter.validation_gateway_bound THEN Outcomes("restore_gateway")
                                                     ELSE {TRUE} :
        /\ Charge(ok)
        /\ IF adapter.validation_gateway_bound THEN RestoreValidationGateway(ok)
                                               ELSE UNCHANGED vfoswindVars
        /\ LET passed == ok /\ o.teardown = "PASSED" IN
           /\ Teardowns(ok)
           /\ Record(IF passed THEN attempt ELSE 0, SessionSections)
           /\ IF o.failed THEN pc' = "f_cleanup" ELSE Continue(passed, "gate")
    /\ UNCHANGED <<usersAndData, procVars, marker, publisherVars, lifecycleVars,
                   preparationVars, decision, attempt, hold>>

(***************************************************************************)
(* _validate_pre_cutover_ready, then the operator's confirmation.          *)
(***************************************************************************)
ValidatePreCutoverReady ==
    /\ pc = "gate"
    /\ Continue(PreCutoverGate(Production), "confirm")
    /\ lc' = [lc EXCEPT !.api_started = @ /\ ~PreCutoverGate(Production)]
    /\ UNCHANGED <<hostVars, publisherVars, vfoswindVars, setup, preparationVars,
                   manifestVars, attempt, o, hold>>

Confirm ==
    /\ pc = "confirm"
    /\ \E ok \in IF Production THEN Outcomes("confirm") ELSE {TRUE} :
        /\ Charge(ok)
        /\ o' = [o EXCEPT !.phase_d_entered = ok]
        /\ Continue(ok, "freeze")
    /\ UNCHANGED <<usersAndData, procVars, marker, publisherVars, vfoswindVars, lifecycleVars,
                   preparationVars, manifestVars, attempt, hold>>

(***************************************************************************)
(* Phase D: freeze, drain, reconfirm, stop.                                *)
(***************************************************************************)
FreezeWrites ==
    /\ pc = "freeze"
    /\ Freeze
    /\ pc' = "freeze_command"
    /\ UNCHANGED <<usersAndData, procVars, faults, publisherVars, vfoswindVars, setup,
                   preparationVars, manifestVars, attempt, o, hold>>

FreezeTraffic ==
    /\ pc = "freeze_command"
    /\ \E ok \in Outcomes("freeze") :
        /\ Charge(ok)
        /\ IF ok THEN Record(attempt, {"traffic_freeze"}) ELSE UNCHANGED evidence
        /\ pc' = IF ok THEN "drain" ELSE "freeze_abort"
    /\ UNCHANGED <<usersAndData, procVars, marker, publisherVars, vfoswindVars, lifecycleVars,
                   preparationVars, decision, attempt, o, hold>>

(* freeze itself aborts when its command fails. *)
FreezeAborts ==
    /\ pc = "freeze_abort"
    /\ \E ok \in Outcomes("reopen") :
        /\ Charge(ok)
        /\ AbortPreserve(ok)
    /\ pc' = "fail"
    /\ UNCHANGED <<usersAndData, procVars, publisherVars, vfoswindVars, setup,
                   preparationVars, manifestVars, attempt, o, hold>>

Drain ==
    /\ pc = "drain"
    /\ \E ok \in Outcomes("drain") :
        /\ Charge(ok)
        /\ IF ok /\ Drained THEN Record(attempt, {"job_drain"}) ELSE UNCHANGED evidence
        /\ Continue(ok /\ Drained, "reconfirm")
    /\ UNCHANGED <<usersAndData, procVars, marker, publisherVars, vfoswindVars, lifecycleVars,
                   preparationVars, decision, attempt, o, hold>>

ReconfirmCutoverIdentity ==
    /\ pc = "reconfirm"
    /\ \E ok \in Outcomes("reconfirm") :
        /\ Charge(ok)
        /\ Continue(/\ ok
                    /\ attempt \in exists
                    /\ current = IF o.layout = FLAT THEN None ELSE 0, "stop")
    /\ UNCHANGED <<usersAndData, procVars, marker, publisherVars, vfoswindVars, lifecycleVars,
                   preparationVars, manifestVars, attempt, o, hold>>

StopCurrent ==
    /\ pc = "stop"
    /\ \E ok \in Outcomes("stop_current") :
        /\ Charge(ok)
        /\ StopCurrentApi(ok)
        /\ IF ok THEN Record(attempt, {"api_stop"}) ELSE UNCHANGED evidence
        /\ Continue(ok, IF o.layout = FLAT THEN "adopt" ELSE "switch")
    /\ UNCHANGED <<dataVars, validation, marker, publisherVars, vfoswindVars, setup,
                   preparationVars, decision, attempt, o, hold>>

(***************************************************************************)
(* CURRENT and, in production, the units, nginx and the EnvironmentFile.   *)
(***************************************************************************)
EnsureFlatCurrentBaseline ==
    /\ pc = "adopt"
    /\ \E ok \in Outcomes("adopt") :
        /\ Charge(ok)
        /\ AdoptFlat(ok)
        /\ o' = [o EXCEPT !.layout = IF ok THEN IMMUTABLE_CURRENT ELSE FLAT]
        /\ Continue(ok, "switch")
    /\ UNCHANGED <<usersAndData, procVars, marker, vfoswindVars, lifecycleVars,
                   preparationVars, manifestVars, attempt, hold>>

Switch ==
    /\ pc = "switch"
    /\ \E ok \in Outcomes("switch") :
        /\ Charge(ok)
        /\ SwitchCurrent(attempt, ok)
        /\ IF ok /\ ~Production THEN Record(attempt, {"file_cutover"}) ELSE UNCHANGED evidence
        /\ Continue(ok, IF Production THEN "bind_release" ELSE "activate")
    /\ o' = [o EXCEPT !.switch_attempted = TRUE]
    /\ UNCHANGED <<usersAndData, procVars, marker, vfoswindVars, lifecycleVars,
                   preparationVars, decision, attempt, hold>>

BindRelease ==
    /\ pc = "bind_release"
    /\ \E ok \in Outcomes("bind_release") :
        /\ Charge(ok)
        /\ BindCurrentRelease(ok)
        /\ o' = [o EXCEPT !.release_bindings_changed =
                              IF ok THEN adapter'.release_bindings_changed ELSE @]
        /\ Continue(ok, "bind_database")
    /\ UNCHANGED <<usersAndData, procVars, marker, publisherVars, lifecycleVars,
                   preparationVars, manifestVars, attempt, hold>>

BindDatabase ==
    /\ pc = "bind_database"
    /\ \E ok \in Outcomes("bind_database") :
        /\ Charge(ok)
        /\ BindCandidateDatabase(attempt, ok)
        /\ o' = [o EXCEPT !.runtime_binding_attempted = TRUE, !.runtime_bound = ok]
        /\ Continue(ok, "reload")
    /\ UNCHANGED <<usersAndData, procVars, marker, publisherVars, lifecycleVars,
                   preparationVars, manifestVars, attempt, hold>>

ReloadUnits ==
    /\ pc = "reload"
    /\ \E ok \in Outcomes("daemon_reload") :
        /\ Charge(ok)
        /\ DaemonReload(ok)
        /\ IF ok THEN Record(attempt, {"production_runtime_binding", "file_cutover"})
                 ELSE UNCHANGED evidence
        /\ Continue(ok, "activate")
    /\ UNCHANGED <<usersAndData, procVars, marker, publisherVars, lifecycleVars,
                   preparationVars, decision, attempt, o, hold>>

(***************************************************************************)
(* The serving process, its endpoint and the final gate.                   *)
(***************************************************************************)
ActivateServing ==
    /\ pc = "activate"
    /\ \E ok \in Outcomes("start_serving") :
        /\ Charge(ok)
        /\ StartServingApi(ok, attempt, attempt)
        /\ Continue(ok, IF Production THEN "nginx" ELSE "verify")
    /\ UNCHANGED <<dataVars, validation, marker, publisherVars, vfoswindVars, setup,
                   preparationVars, manifestVars, attempt, o, hold>>

ReloadGateway ==
    /\ pc = "nginx"
    /\ \E ok \in Outcomes("nginx") :
        /\ Charge(ok)
        /\ ReloadNginx(ok)
        /\ IF ok THEN Record(attempt, {"production_nginx_reload"}) ELSE UNCHANGED evidence
        /\ Continue(ok, "verify")
    /\ UNCHANGED <<usersAndData, procVars, marker, publisherVars, lifecycleVars,
                   preparationVars, decision, attempt, o, hold>>

EndpointIsCandidate == serving.up /\ serving.release = attempt

VerifyReleaseEndpoint ==
    /\ pc = "verify"
    /\ \E ok \in Outcomes("verify") :
        /\ Charge(ok)
        /\ LET verified == ok /\ EndpointIsCandidate IN
           /\ IF verified THEN Record(attempt, {"api_start", "release_endpoint"})
                          ELSE UNCHANGED evidence
           /\ Continue(verified, "final_gate")
    /\ UNCHANGED <<usersAndData, procVars, marker, publisherVars, vfoswindVars, lifecycleVars,
                   preparationVars, decision, attempt, o, hold>>

(* validate_final_gate is asked before the traffic is opened and after it. *)
ValidateFinalGate ==
    /\ pc \in {"final_gate", "open_gate"}
    /\ LET passed == FinalGate(Production, pc = "open_gate") IN
       /\ Decide(passed)
       /\ Continue(passed, IF pc = "open_gate" THEN "finalize" ELSE "open")
    /\ UNCHANGED <<hostVars, publisherVars, vfoswindVars, lifecycleVars, preparationVars,
                   evidence, attempt, o, hold>>

Open ==
    /\ pc = "open"
    /\ \E ok \in Outcomes("open") :
        /\ Charge(ok)
        /\ OpenTraffic(ok)
        /\ IF ok THEN Record(attempt, {"traffic_open"}) ELSE UNCHANGED evidence
        /\ Continue(ok, "post_open")
    /\ o' = [o EXCEPT !.traffic_open_attempted = TRUE]
    /\ UNCHANGED <<usersAndData, procVars, marker, publisherVars, vfoswindVars, setup,
                   preparationVars, decision, attempt, hold>>

VerifyPostOpenServing ==
    /\ pc = "post_open"
    /\ \E ok \in Outcomes("post_open") :
        /\ Charge(ok)
        /\ LET verified == ok /\ EndpointIsCandidate /\ CurrentIsValid /\ current = attempt
           IN  /\ Record(IF verified THEN attempt ELSE 0, {"post_open_serving"})
               /\ Continue(verified, "open_gate")
    /\ UNCHANGED <<usersAndData, procVars, marker, publisherVars, vfoswindVars, lifecycleVars,
                   preparationVars, decision, attempt, o, hold>>

Finalize ==
    /\ pc = "finalize"
    /\ FinalizeTrafficOpen
    /\ pc' = "record_open"
    /\ UNCHANGED <<usersAndData, procVars, faults, publisherVars, vfoswindVars, setup,
                   preparationVars, manifestVars, attempt, o, hold>>

(* The last record: from here the candidate has users. *)
RecordOpen ==
    /\ pc = "record_open"
    /\ \E ok \in Outcomes("record_open") :
        /\ Charge(ok)
        /\ Continue(ok, "READY")
    /\ UNCHANGED <<usersAndData, procVars, marker, publisherVars, vfoswindVars, lifecycleVars,
                   preparationVars, manifestVars, attempt, o, hold>>

(***************************************************************************)
(* _fail.  Each of its steps is tried whatever became of the one before; a *)
(* step that fails is logged as DATA_SAFETY_HOLD.                          *)
(***************************************************************************)
Logged(ok) == hold' = (hold \/ ~ok)

Fail ==
    /\ pc = "fail"
    /\ Decide(FALSE)
    /\ o' = [o EXCEPT !.failed = TRUE]
    /\ pc' = "f_stop"
    /\ UNCHANGED <<hostVars, publisherVars, vfoswindVars, lifecycleVars, preparationVars,
                   evidence, attempt, hold>>

FailStopServing ==
    /\ pc = "f_stop"
    /\ IF o.runtime_bound /\ lc.serving_api_started
       THEN \E ok \in Outcomes("stop_serving") :
                Charge(ok) /\ StopServingApi(ok) /\ Logged(ok)
       ELSE UNCHANGED <<faults, serving, userVars, lc, hold>>
    /\ pc' = "f_pointer"
    /\ UNCHANGED <<dataVars, validation, marker, publisherVars, vfoswindVars, setup,
                   preparationVars, manifestVars, attempt, o>>

FailRollback ==
    /\ pc = "f_pointer"
    /\ IF o.switch_attempted
       THEN \E ok \in Outcomes("rollback") : Charge(ok) /\ Rollback(0, ok) /\ Logged(ok)
       ELSE UNCHANGED <<faults, publisherVars, hold>>
    /\ pc' = "f_bindings"
    /\ UNCHANGED <<usersAndData, procVars, marker, vfoswindVars, lifecycleVars,
                   preparationVars, manifestVars, attempt, o>>

FailRestoreBindings ==
    /\ pc = "f_bindings"
    /\ IF o.release_bindings_changed
       THEN \E ok \in Outcomes("restore_bindings") :
                /\ Charge(ok) /\ RestoreReleaseBindings(ok) /\ Logged(ok)
                /\ pc' = IF ok THEN "f_bindings_reload" ELSE "f_database"
       ELSE pc' = "f_database" /\ UNCHANGED <<faults, vfoswindVars, hold>>
    /\ UNCHANGED <<usersAndData, procVars, marker, publisherVars, lifecycleVars,
                   preparationVars, manifestVars, attempt, o>>

FailReloadBindings ==
    /\ pc = "f_bindings_reload"
    /\ \E ok \in Outcomes("daemon_reload") :
        /\ Charge(ok) /\ DaemonReload(ok) /\ Logged(ok)
        /\ o' = [o EXCEPT !.release_bindings_changed = ~ok]
    /\ pc' = "f_database"
    /\ UNCHANGED <<usersAndData, procVars, marker, publisherVars, lifecycleVars,
                   preparationVars, manifestVars, attempt>>

FailRestoreDatabase ==
    /\ pc = "f_database"
    /\ IF o.runtime_bound
       THEN \E ok \in Outcomes("restore_database") :
                /\ Charge(ok) /\ RestoreDatabaseBinding(ok) /\ Logged(ok)
                /\ pc' = IF ok THEN "f_database_reload" ELSE "f_abort"
       ELSE pc' = "f_abort" /\ UNCHANGED <<faults, vfoswindVars, hold>>
    /\ UNCHANGED <<usersAndData, procVars, marker, publisherVars, lifecycleVars,
                   preparationVars, manifestVars, attempt, o>>

FailReloadDatabase ==
    /\ pc = "f_database_reload"
    /\ \E ok \in Outcomes("daemon_reload") :
        /\ Charge(ok) /\ DaemonReload(ok) /\ Logged(ok)
        /\ o' = [o EXCEPT !.runtime_bound = ~ok]
    /\ pc' = "f_abort"
    /\ UNCHANGED <<usersAndData, procVars, marker, publisherVars, lifecycleVars,
                   preparationVars, manifestVars, attempt>>

(* Mutant: the freeze is left to the operator. *)
FailWithoutAbort ==
    /\ pc = "f_abort"
    /\ pc' = "f_teardown"
    /\ UNCHANGED <<hostVars, publisherVars, vfoswindVars, lifecycleVars, preparationVars,
                   manifestVars, attempt, o, hold>>

(***************************************************************************)
(* _fail calls lifecycle.abort when the freeze is still on.  What abort    *)
(* raises is logged, and the marker stays.                                 *)
(***************************************************************************)
FailAbort ==
    /\ pc = "f_abort"
    /\ pc' = IF ~lc.active THEN "f_teardown"
             ELSE IF lc.traffic_opened THEN "a_refreeze" ELSE "a_current"
    /\ UNCHANGED <<hostVars, publisherVars, vfoswindVars, lifecycleVars, preparationVars,
                   manifestVars, attempt, o, hold>>

(* A step of abort leads on, or raises. *)
AbortTo(ok, next) == Logged(ok) /\ pc' = IF ok THEN next ELSE "f_teardown"

Refreeze ==
    /\ pc = "a_refreeze"
    /\ \E ok \in Outcomes("freeze") :
        Charge(ok) /\ AbortRefreeze(ok) /\ AbortTo(ok, "a_current")
    /\ UNCHANGED <<usersAndData, procVars, marker, publisherVars, vfoswindVars, setup,
                   preparationVars, manifestVars, attempt, o>>

PreserveCurrent ==
    /\ pc = "a_current"
    /\ IF CurrentUntouched
       THEN \E ok \in Outcomes("reopen") :
                LET lifted == ok /\ ~StopOutcomeUnknown
                IN  Charge(ok) /\ AbortPreserve(lifted) /\ AbortTo(lifted, "f_nginx")
       ELSE pc' = "a_stop" /\ UNCHANGED <<faults, marker, lc, hold>>
    /\ UNCHANGED <<usersAndData, procVars, publisherVars, vfoswindVars, setup,
                   preparationVars, manifestVars, attempt, o>>

StopCandidate ==
    /\ pc = "a_stop"
    /\ IF lc.serving_api_started
       THEN \E ok \in Outcomes("stop_serving") :
                Charge(ok) /\ AbortStopServing(ok) /\ AbortTo(ok, "a_start")
       ELSE pc' = "a_start" /\ UNCHANGED <<faults, serving, userVars, lc, hold>>
    /\ UNCHANGED <<dataVars, validation, marker, publisherVars, vfoswindVars, setup,
                   preparationVars, manifestVars, attempt, o>>

StartPrevious ==
    /\ pc = "a_start"
    /\ \E ok \in Outcomes("start_previous") :
        Charge(ok) /\ AbortStartPrevious(ok) /\ AbortTo(ok, "a_lift")
    /\ UNCHANGED <<dataVars, validation, marker, publisherVars, vfoswindVars, lifecycleVars,
                   preparationVars, manifestVars, attempt, o>>

LiftFreeze ==
    /\ pc = "a_lift"
    /\ AbortLift
    /\ AbortTo(PreviousVerified, "f_nginx")
    /\ UNCHANGED <<usersAndData, procVars, faults, publisherVars, vfoswindVars, setup,
                   preparationVars, manifestVars, attempt, o>>

FailReloadNginx ==
    /\ pc = "f_nginx"
    /\ IF Production
       THEN \E ok \in Outcomes("nginx") : Charge(ok) /\ ReloadNginx(ok) /\ Logged(ok)
       ELSE UNCHANGED <<faults, vfoswindVars, hold>>
    /\ pc' = "f_teardown"
    /\ UNCHANGED <<usersAndData, procVars, marker, publisherVars, lifecycleVars,
                   preparationVars, manifestVars, attempt, o>>

(* The result of an earlier teardown is kept. *)
FailTeardown ==
    /\ pc = "f_teardown"
    /\ pc' = IF o.teardown = None THEN "t_stop" ELSE "f_cleanup"
    /\ UNCHANGED <<hostVars, publisherVars, vfoswindVars, lifecycleVars, preparationVars,
                   manifestVars, attempt, o, hold>>

(***************************************************************************)
(* _target_cleanup_safety: the target goes only if it has stayed out of    *)
(* Phase D and nothing that could use it is left.                          *)
(***************************************************************************)
TargetCleanupSafety ==
    /\ ~o.phase_d_entered /\ ~o.switch_attempted
    /\ ~o.runtime_binding_attempted /\ ~o.runtime_bound /\ ~o.traffic_open_attempted
    /\ ~lc.traffic_opened /\ ~lc.serving_api_started /\ ~lc.api_started
    /\ ~lc.current_api_stop_attempted /\ ~lc.current_api_stopped /\ ~lc.active
    /\ ~adapter.runtime_bound /\ ~adapter.validation_gateway_bound
    /\ o.teardown \in {None, "PASSED"}

FailCleanup ==
    /\ pc = "f_cleanup"
    /\ IF o.prepared /\ TargetCleanupSafety
       THEN \E ok \in Outcomes("cleanup") :
                Charge(ok) /\ CleanupTarget(attempt, ok) /\ Logged(ok)
       ELSE UNCHANGED <<faults, targetVars, hold>>
    /\ pc' = "failed"
    /\ UNCHANGED <<acked, userVars, procVars, marker, publisherVars, vfoswindVars,
                   lifecycleVars, preparationVars, manifestVars, attempt, o>>

(***************************************************************************)
(* The orchestrator's process dies: what it had in memory is lost, what it *)
(* did to the host stays.                                                  *)
(***************************************************************************)
Crash ==
    /\ pc \notin Ended
    /\ FALSE \in Outcomes("crash")
    /\ Charge(FALSE)
    /\ pc' = "crashed" /\ hold' = TRUE
    /\ UNCHANGED <<usersAndData, procVars, marker, publisherVars, vfoswindVars, lifecycleVars,
                   preparationVars, manifestVars, attempt, o>>

(* Another run of the program, with a new session and a new target. *)
NextAttempt ==
    /\ pc \in Ended \ {"READY"} /\ attempt < MaxAttempts
    /\ attempt' = attempt + 1 /\ pc' = "preflight"
    /\ o' = NewFlags /\ lc' = NewLifecycle /\ adapter' = NewAdapter /\ backup' = None
    /\ UNCHANGED <<hostVars, publisherVars, bindingVars, validationBindingVars, setup,
                   sessionVars, manifestVars, hold>>

PhaseAB ==
    \/ ValidateIdentityAndTarget \/ PreflightSchema \/ ConfigureReleaseControls
    \/ PreflightIntegration \/ ScanResidue \/ Backup \/ PrepareTarget \/ Migrate \/ PrepareRelease
    \/ BindGateway \/ BindValidation \/ ReloadValidation
    \/ StartValidationApi \/ ValidationRuntimePreflightFails \/ WaitCandidateValidationReady
    \/ TargetedTests \/ BrowserFixtureRegression \/ CandidateBrowserEvidence
    \/ CandidateAuthenticatedMutation \/ ReleasePerformance \/ PathMappingAudit
    \/ SidecarAudit \/ SecurityAudit \/ RollbackEvidence
Tearing ==
    \/ StopValidationApi \/ TeardownSession \/ RestoreValidation \/ ReloadAfterValidation
    \/ RestoreGateway
CuttingOver ==
    \/ ValidatePreCutoverReady \/ Confirm \/ FreezeWrites \/ FreezeTraffic \/ FreezeAborts
    \/ Drain \/ ReconfirmCutoverIdentity \/ StopCurrent
    \/ EnsureFlatCurrentBaseline \/ Switch \/ BindRelease \/ BindDatabase \/ ReloadUnits
    \/ ActivateServing \/ ReloadGateway \/ VerifyReleaseEndpoint \/ ValidateFinalGate
    \/ Open \/ VerifyPostOpenServing \/ Finalize \/ RecordOpen
Failing ==
    \/ Fail \/ FailStopServing \/ FailRollback \/ FailRestoreBindings \/ FailReloadBindings
    \/ FailRestoreDatabase \/ FailReloadDatabase \/ FailAbort
    \/ Refreeze \/ PreserveCurrent \/ StopCandidate \/ StartPrevious \/ LiftFreeze
    \/ FailReloadNginx \/ FailTeardown \/ FailCleanup

Orchestrate == PhaseAB \/ Tearing \/ CuttingOver \/ Failing

UsersAct ==
    /\ Users
    /\ UNCHANGED <<publisherVars, vfoswindVars, lifecycleVars, preparationVars, manifestVars,
                   controlVars>>

Next == Orchestrate \/ Crash \/ NextAttempt \/ UsersAct

(* Fairness: execute_upgrade is a sequential program whose calls all have a  *)
(* timeout, so its next step is eventually taken.                            *)
Spec == Init /\ [][Next]_vars /\ WF_vars(Orchestrate)
-----------------------------------------------------------------------------
(***************************************************************************)
(* Properties.                                                             *)
(***************************************************************************)

(* Who may write: users reach the previous release on the source database,   *)
(* or a candidate on its own target; never one release on the other's data.  *)
(* Unless a hold was logged, nginx serves the files of the same release.     *)
NeverMixed ==
    Accepting => /\ serving.release = serving.db
                 /\ (Production /\ ~hold) => ReleaseAt(alias.loaded) = serving.release

(* READY is whole: CURRENT, what systemd and nginx loaded, the process and   *)
(* its database all belong to the candidate; the freeze is over and nothing  *)
(* of the validation is left.                                                *)
ReadyIsWhole ==
    pc = "READY" =>
        /\ current = attempt /\ serving = [up |-> TRUE, release |-> attempt, db |-> attempt]
        /\ ~marker /\ ~validation.up /\ decision = "READY"
        /\ Production => /\ ReleaseAt(unit.loaded) = attempt /\ env = attempt
                         /\ valEnv = None /\ pointer = None

(* An attempt that fails without a DATA_SAFETY_HOLD has put everything back: *)
(* the previous release takes writes, on the source, and has all of them.    *)
FailureRestores ==
    (pc = "failed" /\ ~hold) =>
        /\ current \in {None, 0} /\ env = 0 /\ ReleaseAt(unit.loaded) = 0
        /\ serving = [up |-> TRUE, release |-> 0, db |-> 0] /\ ~marker
        /\ acked \subseteq rows[0]

(* Automatic cleanup never takes data away: a database that is dropped is    *)
(* used by no process and no binding, and every write it holds is elsewhere. *)
CleanupIsSafe ==
    \A d \in exists \ exists' :
        /\ serving.db # d /\ env # d
        /\ validation.up => validation.db # d
        /\ rows[d] \subseteq UNION {rows[e] : e \in exists'}

(* The cutover is entered on this attempt's evidence alone, although the     *)
(* ledger still holds what earlier attempts of the revision recorded, and    *)
(* their artifacts are still on disk; only the browser fixture evidence of   *)
(* a production upgrade may be of an earlier attempt.                        *)
CutoverEvidenceIsFresh ==
    o.phase_d_entered =>
        \A s \in PreCutoverSections(Production)
                \ (RuntimeSections \cup {"browser_fixture_regression"}) :
            evidence[s] = attempt

(* release_decision READY is never seen of a release that is not the one     *)
(* behind CURRENT and running, not even after the orchestrator has died.     *)
ReadyIsTrue ==
    decision = "READY" =>
        current \in Attempts /\ (serving.up => serving.release = current) /\ ~validation.up

(* Whatever users reach, and whatever READY says, is one release.            *)
OneRelease == NeverMixed /\ ReadyIsWhole /\ ReadyIsTrue

(* A failed attempt and its cleanup leave users and their writes as they     *)
(* were.                                                                     *)
RollbackIsSafe == [][FailureRestores' /\ CleanupIsSafe]_vars

(* A freeze ends, unless a step of the rollback failed or the orchestrator   *)
(* died, both of which leave writes refused on purpose.                      *)
FreezeEnds == marker ~> (~marker \/ hold)

(* execute_upgrade, its rollback and its crashes implement the cutover that  *)
(* users are promised.                                                       *)
Promise == INSTANCE Cutover WITH open <- Accepting, release <- serving.release, db <- serving.db,
                                 held <- hold
ImplementsCutover == Promise!Spec

-----------------------------------------------------------------------------
(* What the runbook says and the code does not do (README, Disagreements)    *)

(* "PRE_CUTOVER_READY may be judged and the final cutover executed" once     *)
(* every check has passed (gate-a-f-external-evidence-runbook.md 390-393):   *)
(* an upgrade in which nothing fails ends READY.                             *)
FaultFreeUpgradeIsReady == <>(pc = "READY")
=============================================================================
