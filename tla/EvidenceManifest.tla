--------------------------- MODULE EvidenceManifest ---------------------------
(***************************************************************************)
(* ProductionEvidenceManifest of scripts/upgrade/evidence_manifest.py: the *)
(* ledger of an upgrade and its two gates.                                 *)
(*                                                                         *)
(* The ledger is loaded by the next attempt and is not emptied.  All       *)
(* attempts here publish the same revision, so an earlier attempt's record *)
(* passes the comparison of revisions; what tells attempts apart is the    *)
(* validation session, for the sections that carry it.  A section holds    *)
(* the attempt that recorded it as PASSED, or 0.                           *)
(***************************************************************************)
EXTENDS UpgradeHost

CONSTANTS
    Misrecorded   \* sections whose records do not meet the pre-cutover gate

VARIABLES
    evidence,     \* section -> the attempt whose PASSED record it holds
    decision      \* release_decision

manifestVars == <<evidence, decision>>

(* Recorded before anything is changed. *)
SeparationSections == {"database_generation", "database_separation"}
SchemaSections == {"schema_migration"}
IntegrationSections ==
    {"production_integration_preflight", "production_bootstrap",
     "candidate_gateway_preflight"}
ClassificationSections == {"release_gate_classification"}

(* What prepares the candidate, and what checks it. *)
PreparationSections ==
    {"backup_evidence", "disposable_target", "data_hash_verification", "file_state_gate",
     "candidate_release_prepared"}
BindingSections ==
    {"production_application_bundle", "production_validation_runtime_binding",
     "validation_runtime_preflight"}
RuntimeSections == {"api_start", "candidate_release_endpoint"}
FixtureSections == {"targeted_tests", "browser_fixture_regression"}
CandidateSections == {"candidate_browser_evidence", "performance_benchmark"}
AuditSections == {"path_mapping_audit", "sidecar_audit", "security_audit"}
RollbackSections == {"rollback_evidence"}
CheckSections == UNION {FixtureSections, CandidateSections, AuditSections, RollbackSections}
ProductionCheckSections == {"candidate_authenticated_mutation"}
SessionSections == {"validation_session_manifest", "validation_teardown"}

(* What the cutover records. *)
CutoverSections ==
    {"traffic_freeze", "job_drain", "api_stop", "api_start", "release_endpoint",
     "file_cutover"}
ProductionCutoverSections == {"production_runtime_binding", "production_nginx_reload"}
OpenSections == {"traffic_open", "post_open_serving"}

Sections ==
    UNION {SeparationSections, SchemaSections, IntegrationSections, ClassificationSections,
           PreparationSections, BindingSections,
           RuntimeSections, CheckSections, ProductionCheckSections, SessionSections,
           CutoverSections, ProductionCutoverSections, OpenSections}

ManifestTypeOK ==
    /\ evidence \in [Sections -> Ids]
    /\ decision \in {"READY", "NOT_READY"}
ManifestInit == evidence = [s \in Sections |-> 0] /\ decision = "NOT_READY"

(* record: the section is replaced and the ledger saved. *)
Record(n, sections) ==
    evidence' = [s \in Sections |-> IF s \in sections THEN n ELSE evidence[s]]
RecordEach(records) ==
    evidence' = [s \in Sections |-> IF s \in DOMAIN records THEN records[s] ELSE evidence[s]]

(* The sections that carry the validation session, and so the attempt. *)
SessionBound ==
    {"candidate_release_prepared"} \cup CandidateSections \cup RollbackSections
    \cup ProductionCheckSections \cup SessionSections

(***************************************************************************)
(* validate_pre_cutover_gate.  record: PASSED, bound to the revision, exit *)
(* code 0.  A section that carries the session must carry that of the      *)
(* prepared release.                                                       *)
(***************************************************************************)
Passed(sections) == \A s \in sections : evidence[s] # 0 /\ s \notin Misrecorded
Exact(sections, reference) ==
    \A s \in sections \cap SessionBound : evidence[s] = evidence[reference]

PreparationGate == Passed(UNION {SeparationSections, SchemaSections, PreparationSections
                                                                     \ {"file_state_gate"}})
FileStateGate == Passed({"file_state_gate"})
CandidateGate ==
    LET sections == FixtureSections \cup CandidateSections
    IN  Passed(sections) /\ Exact(sections, "candidate_release_prepared")
ProductionCandidateGate ==
    LET sections == {"validation_runtime_preflight", "candidate_gateway_preflight"}
                    \cup ProductionCheckSections
    IN  Passed(sections) /\ Exact(sections, "candidate_release_prepared")
AuditGate(production) ==
    Passed(AuditSections \cup IF production THEN ClassificationSections ELSE {})
SessionGate ==
    LET sections == UNION {RuntimeSections, SessionSections, RollbackSections}
    IN  Passed(sections) /\ Exact(sections, "candidate_release_prepared")
HostGate == Passed(IntegrationSections \cup BindingSections)

(* Mutant: the audits are left to the final gate. *)
GateWithoutAudits(production) ==
    /\ PreparationGate /\ FileStateGate /\ CandidateGate /\ SessionGate
    /\ production => ProductionCandidateGate /\ HostGate

PreCutoverGate(production) ==
    /\ PreparationGate /\ FileStateGate /\ CandidateGate /\ AuditGate(production) /\ SessionGate
    /\ production => ProductionCandidateGate /\ HostGate

(* What the gate has looked at when it passes. *)
PreCutoverSections(production) ==
    (UNION {SeparationSections, SchemaSections, PreparationSections, RuntimeSections,
            CheckSections, SessionSections})
    \cup IF production THEN UNION {IntegrationSections, ClassificationSections, BindingSections,
                                   ProductionCheckSections}
                       ELSE {}

(***************************************************************************)
(* validate_final_gate, before the traffic is opened and after it: here    *)
(* the reference is the session manifest.                                  *)
(***************************************************************************)
Attributed(sections) == \A s \in sections : evidence[s] # 0
FinalExact(sections) == Exact(sections, "validation_session_manifest")

FinalCandidateGate ==
    LET sections == FixtureSections \cup CandidateSections
    IN  Attributed(sections) /\ FinalExact(sections)
FinalDataGate ==
    Attributed({"data_hash_verification", "backup_evidence"} \cup SchemaSections \cup AuditSections)
FinalLifecycleGate == Attributed(CutoverSections)
FinalProductionGate ==
    LET sections == UNION {IntegrationSections \ {"production_bootstrap"}, ClassificationSections,
                           BindingSections \ {"validation_runtime_preflight"},
                           ProductionCutoverSections, ProductionCheckSections}
    IN  Attributed(sections) /\ FinalExact(sections)
FinalOpenGate == Attributed(OpenSections)
FinalSessionGate ==
    LET sections == SessionSections \cup RollbackSections
    IN  Attributed(sections) /\ FinalExact(sections)

FinalGate(production, opened) ==
    /\ FinalCandidateGate /\ FinalDataGate /\ FinalLifecycleGate /\ FinalSessionGate
    /\ production => FinalProductionGate
    /\ opened => FinalOpenGate

(* The gate writes its verdict; _mark_not_ready takes it back. *)
Decide(ready) == decision' = IF ready THEN "READY" ELSE "NOT_READY"
=============================================================================
