--------------------------- MODULE UpgradeProofs ---------------------------
(***************************************************************************)
(* An upgrade keeps its promise to the users (Cutover) for any number of   *)
(* attempts, writes, failing operations and crashes of the orchestrator.   *)
(***************************************************************************)
EXTENDS RunUpgrade, TLAPS

-----------------------------------------------------------------------------
(* The inductive invariant *)

Lifecycles == [active : BOOLEAN, api_started : BOOLEAN, serving_api_started : BOOLEAN,
               current_api_stopped : BOOLEAN, current_api_stop_attempted : BOOLEAN,
               traffic_opened : BOOLEAN]
Flags == [layout : {FLAT, IMMUTABLE_CURRENT}, phase_d_entered : BOOLEAN,
          switch_attempted : BOOLEAN, release_bindings_changed : BOOLEAN,
          runtime_binding_attempted : BOOLEAN, runtime_bound : BOOLEAN,
          traffic_open_attempted : BOOLEAN, prepared : BOOLEAN,
          teardown : {None, "PASSED", "FAILED"}, failed : BOOLEAN]
Adapters == [release_bindings_changed : BOOLEAN, runtime_bound : BOOLEAN,
             validation_binding_changed : BOOLEAN, validation_gateway_bound : BOOLEAN,
             previous_environment : Ids \cup {None}]

HostTypes ==
    /\ serving \in [up : BOOLEAN, release : Ids, db : Ids] /\ marker \in BOOLEAN /\ hold \in BOOLEAN
    /\ current \in Ids \cup {None} /\ env \in Ids /\ attempt \in Attempts
    /\ unit \in [file : Roots, loaded : Roots]
OwnTypes == lc \in Lifecycles /\ o \in Flags /\ adapter \in Adapters

PreControls == {"preflight", "preflight_schema", "preflight_controls"}
Freezing == {"freeze_command", "freeze_abort", "drain", "reconfirm", "stop"}
Stopped == {"adopt", "switch", "bind_release", "bind_database", "reload", "activate"}
Started == {"nginx", "verify", "final_gate", "open", "post_open", "open_gate", "finalize"}
Window == Freezing \cup Stopped \cup Started
Restoring == {"fail", "f_stop", "f_pointer", "f_bindings", "f_bindings_reload", "f_database"}
Over == {"f_teardown", "f_cleanup"} \cup TeardownSteps
Gone == {"refused", "failed", "crashed"}

(* The window lies inside the freeze, and nothing starts before the old     *)
(* process was stopped.                                                     *)
FreezeInv ==
    /\ lc.active => marker
    /\ pc \in Window \cup AbortSteps => lc.active
    /\ pc \in Stopped \cup {"a_stop", "a_start", "a_lift"} => lc.current_api_stopped
    /\ pc \in {"f_stop", "f_pointer", "f_bindings", "f_bindings_reload", "f_database",
               "f_database_reload", "f_abort", "f_nginx", "f_teardown", "f_cleanup"} \cup AbortSteps
         => o.failed

(* A process that this attempt started runs inside the freeze, or after it. *)
StartedInv ==
    /\ pc \in PhaseB \cup {"freeze"} \cup Freezing \cup Stopped \cup {"a_start", "a_lift"}
         => ~lc.serving_api_started
    /\ pc \in TeardownSteps /\ ~o.failed => ~lc.serving_api_started
    /\ lc.serving_api_started => lc.current_api_stopped
    /\ lc.serving_api_started => lc.active \/ pc \in Ended \cup {"record_open"}

(* A release on the database of the other is stuck behind the marker: it    *)
(* comes from a CURRENT that was not rolled back, which every later attempt *)
(* refuses.                                                                 *)
MixedInv ==
    serving.release # serving.db =>
        /\ marker /\ serving.db = 0 /\ current \notin {0, None}
        /\ pc \in {"a_lift"} \cup Over \cup Gone \cup PreControls
        /\ pc \in TeardownSteps => o.failed

(* A candidate serves after the cutover, or behind the freeze until it is   *)
(* stopped; or the upgrade has been left on hold.                           *)
CandidateInv ==
    serving.release # 0 /\ ~hold =>
        \/ pc \in {"record_open", "READY"}
        \/ /\ pc \in Started \cup Restoring \cup {"f_database_reload", "f_abort"} \cup AbortSteps
           /\ lc.active /\ lc.current_api_stopped

(* The EnvironmentFile names a candidate's database only while the attempt  *)
(* knows how to restore it, or before the preflight that refuses it.        *)
EnvInv ==
    env # 0 =>
        /\ Production
        /\ \/ pc \in Ended \cup PreControls \cup {"preflight_host"}
           \/ /\ o.runtime_bound /\ adapter.previous_environment = 0
              /\ pc \in {"reload", "activate", "record_open"} \cup Started \cup Restoring

(* What the serving process is started from, and can be put back to. *)
BoundInv ==
    /\ adapter.previous_environment \in {0, None}
    /\ pc \in {"bind_release", "bind_database", "reload"} => Production
    /\ pc \in {"bind_release", "bind_database", "reload", "activate"} => current = attempt
    /\ pc \in {"bind_database", "reload"} => unit.file = "current"
    /\ pc = "reload" => env = attempt
    /\ (pc = "activate" /\ Production) => unit.loaded = "current" /\ env = attempt

CutInv ==
    /\ HostTypes /\ OwnTypes
    /\ FreezeInv /\ StartedInv /\ MixedInv /\ CandidateInv /\ EnvInv /\ BoundInv

LEMMA IdFacts == /\ 0 \in Ids /\ None \notin Ids
                 /\ \A a \in Attempts : a \in Ids /\ a # 0 /\ a # None
  BY AttemptsAssumption, NoneAssumption DEF Ids, Attempts

LEMMA CutBegins == Init => CutInv
  <1> SUFFICES ASSUME Init PROVE CutInv
    OBVIOUS
  <1>1. /\ serving = [up |-> TRUE, release |-> 0, db |-> 0] /\ marker = FALSE /\ hold = FALSE
        /\ env = 0 /\ attempt = 1 /\ pc = "preflight" /\ o = NewFlags /\ lc = NewLifecycle
        /\ adapter = NewAdapter /\ current \in {None, 0}
        /\ unit = [file |-> LayoutRoot, loaded |-> LayoutRoot]
    BY DEF Init, HostInit, PublisherInit, VfoswindInit
  <1>2. 1 \in Attempts /\ LayoutRoot \in Roots
    BY AttemptsAssumption DEF Attempts, LayoutRoot, Roots
  <1>3. HostTypes
    BY <1>1, <1>2, IdFacts DEF HostTypes
  <1>4. OwnTypes
    BY <1>1 DEF OwnTypes, NewFlags, NewLifecycle, NewAdapter, Lifecycles, Flags, Adapters
  <1>5. ~lc.active /\ ~lc.serving_api_started /\ adapter.previous_environment = None
    BY <1>1 DEF NewLifecycle, NewAdapter
  <1>6. FreezeInv /\ StartedInv
    BY <1>1, <1>5 DEF FreezeInv, StartedInv, Window, AbortSteps, Stopped, Freezing, Started
  <1> QED
    BY <1>1, <1>3, <1>4, <1>5, <1>6 DEF CutInv, MixedInv, CandidateInv, EnvInv, BoundInv

(* Most steps change neither the host nor what an attempt knows of it. *)
SameHost == UNCHANGED <<serving, marker, hold, current, env, attempt, setup>>
SameOwn ==
    /\ lc'.active <=> lc.active
    /\ lc'.serving_api_started <=> lc.serving_api_started
    /\ lc'.current_api_stopped <=> lc.current_api_stopped
    /\ o'.failed <=> o.failed
    /\ o'.runtime_bound <=> o.runtime_bound
    /\ adapter'.previous_environment = adapter.previous_environment
Steady == SameHost /\ SameOwn /\ unit' \in [file : Roots, loaded : Roots] /\ OwnTypes'

LEMMA SteadyTypes ==
  ASSUME CutInv, Steady
  PROVE  HostTypes' /\ OwnTypes'
  BY DEF CutInv, HostTypes, Steady, SameHost

LEMMA OwnAlone ==
  ASSUME CutInv, SameHost, UNCHANGED <<unit, lc, o, adapter>>
  PROVE  Steady
  BY DEF CutInv, Steady, SameOwn, HostTypes, OwnTypes

(* Nothing of a candidate serves, and nothing is left of an earlier one. *)
Calm ==
    /\ serving.release = serving.db /\ (serving.release = 0 \/ hold)
    /\ env = 0 /\ ~lc.serving_api_started

Preparing == (PhaseB \ (PreControls \cup {"preflight_host"})) \cup {"freeze"}

LEMMA PlaceFacts ==
  /\ Preparing \cap (Window \cup AbortSteps \cup Over \cup Gone \cup PreControls \cup Restoring
                     \cup Ended \cup {"record_open", "f_database_reload", "f_abort", "f_nginx",
                                      "preflight_host"}) = {}
  /\ Preparing \subseteq PhaseB \cup {"freeze"}
  <1> QED
    BY DEF Preparing, PhaseB, Window, Freezing, Stopped, Started, AbortSteps, Over, Gone, Restoring,
           PreControls, Ended, TeardownSteps, CheckSections, ProductionCheckSections,
           FixtureSections, CandidateSections, AuditSections, RollbackSections

LEMMA CalmPlaces ==
  ASSUME CutInv, pc \in Preparing \cup Freezing \/ (pc \in TeardownSteps /\ ~o.failed)
  PROVE  Calm
  <1>1. CASE pc \in Preparing
    <2>1. /\ pc \in PhaseB \cup {"freeze"} /\ pc \notin AbortSteps \cup Over \cup Gone \cup PreControls
          /\ pc \notin Started \cup Stopped \cup Restoring \cup Ended
          /\ pc \notin {"record_open", "f_database_reload", "f_abort", "preflight_host"}
      BY <1>1, PlaceFacts DEF Window
    <2>2. ~lc.serving_api_started
      BY <2>1 DEF CutInv, StartedInv
    <2>3. serving.release = serving.db
      BY <2>1 DEF CutInv, MixedInv, AbortSteps
    <2>4. serving.release = 0 \/ hold
      BY <2>1 DEF CutInv, CandidateInv, Ended
    <2>5. env = 0
      BY <2>1 DEF CutInv, EnvInv, Stopped
    <2> QED
      BY <2>2, <2>3, <2>4, <2>5 DEF Calm
  <1>2. CASE pc \in Freezing
    BY <1>2 DEF CutInv, StartedInv, MixedInv, CandidateInv, EnvInv, Calm, Freezing, Over, Gone,
                PreControls, TeardownSteps, Started, Restoring, AbortSteps, Ended
  <1>3. CASE pc \in TeardownSteps /\ ~o.failed
    BY <1>3 DEF CutInv, StartedInv, MixedInv, CandidateInv, EnvInv, Calm, TeardownSteps, Started,
                Restoring, AbortSteps, Ended, PreControls
  <1> QED
    BY <1>1, <1>2, <1>3

LEMMA CalmInv ==
  ASSUME Calm', HostTypes', OwnTypes', FreezeInv', BoundInv'
  PROVE  CutInv'
  <1>1. StartedInv' /\ MixedInv' /\ CandidateInv' /\ EnvInv'
    BY DEF Calm, StartedInv, MixedInv, CandidateInv, EnvInv
  <1> QED
    BY <1>1 DEF CutInv

LEMMA CalmStep ==
  ASSUME CutInv, Calm, Steady, pc' \in PhaseB \cup {"freeze", "fail", "refused"} \cup TeardownSteps
  PROVE  CutInv'
  <1>1. Calm'
    BY DEF Calm, Steady, SameHost, SameOwn
  <1>2. /\ pc' \notin Window \cup AbortSteps
        /\ pc' \notin {"f_stop", "f_pointer", "f_bindings", "f_bindings_reload", "f_database",
                       "f_database_reload", "f_abort", "f_nginx", "f_teardown", "f_cleanup"}
    BY DEF PhaseB, Window, Freezing, Stopped, Started, AbortSteps, TeardownSteps,
           CheckSections, ProductionCheckSections, FixtureSections, CandidateSections, AuditSections,
           RollbackSections
  <1>3. FreezeInv'
    BY <1>2 DEF CutInv, FreezeInv, Steady, SameHost, SameOwn, Window, AbortSteps
  <1>4. BoundInv'
    BY <1>2 DEF CutInv, BoundInv, Steady, SameOwn, Window, Stopped
  <1> QED
    BY <1>1, <1>3, <1>4, CalmInv, SteadyTypes

(* Phase A may find what an earlier attempt has left: a candidate that      *)
(* serves, or a binding to its database.                                    *)
LEMMA EarlyStep ==
  ASSUME CutInv, Steady, pc \in PreControls \cup {"preflight_host"},
         pc' \in PreControls \cup {"refused"}
  PROVE  CutInv'
  <1>1. /\ FreezeInv' /\ BoundInv'
    BY DEF CutInv, FreezeInv, BoundInv, Steady, SameHost, SameOwn, PreControls, Window, Freezing,
           Stopped, Started, AbortSteps
  <1>2. pc \in PhaseB
    BY DEF PreControls, PhaseB
  <1>3. ~lc.serving_api_started /\ ~lc'.serving_api_started
    BY <1>2 DEF CutInv, StartedInv, Steady, SameOwn
  <1>4. StartedInv'
    BY <1>3 DEF StartedInv
  <1>5. MixedInv'
    BY DEF CutInv, MixedInv, Steady, SameHost, PreControls, Gone, Over, TeardownSteps
  <1>6. CandidateInv'
    BY DEF CutInv, CandidateInv, Steady, SameHost, PreControls, Started, Restoring, AbortSteps
  <1>7. EnvInv'
    BY DEF CutInv, EnvInv, Steady, SameHost, PreControls, Ended, Stopped, Started, Restoring, Production
  <1> QED
    BY <1>1, <1>4, <1>5, <1>6, <1>7, SteadyTypes DEF CutInv

-----------------------------------------------------------------------------
(* Phases A and B, and the teardown of the validation *)

LEMMA PhaseASteady ==
  ASSUME CutInv,
         ValidateIdentityAndTarget \/ PreflightSchema \/ PreflightIntegration \/ ScanResidue
  PROVE  Steady
  <1>1. SameHost /\ UNCHANGED <<unit, lc, o, adapter>>
    BY DEF ValidateIdentityAndTarget, PreflightSchema, PreflightIntegration, ScanResidue, PhaseAFrame,
           SameHost, usersAndData, procVars, releaseVars, publisherVars, bindingVars, lifecycleVars
  <1> QED
    BY <1>1, OwnAlone

LEMMA ControlsSteady ==
  ASSUME CutInv, ConfigureReleaseControls
  PROVE  Steady
  <1>1. SameHost /\ UNCHANGED <<unit, lc, adapter>> /\ o' = [o EXCEPT !.layout = Layout]
    BY DEF ConfigureReleaseControls, PhaseAFrame, SameHost, usersAndData, procVars, releaseVars,
           publisherVars, bindingVars, lifecycleVars
  <1>2. Layout \in {FLAT, IMMUTABLE_CURRENT} /\ o \in Flags
    BY DEF Layout, CutInv, OwnTypes
  <1>3. o' \in Flags /\ (o'.failed <=> o.failed) /\ (o'.runtime_bound <=> o.runtime_bound)
    BY <1>1, <1>2 DEF Flags
  <1> QED
    BY <1>1, <1>3 DEF CutInv, HostTypes, OwnTypes, Steady, SameOwn

LEMMA PreparationSteady ==
  ASSUME CutInv, \/ Backup \/ Migrate \/ PrepareRelease \/ ValidationRuntimePreflightFails
                 \/ WaitCandidateValidationReady
  PROVE  Steady
  <1>1. SameHost /\ UNCHANGED <<unit, lc, o, adapter>>
    BY DEF Backup, Migrate, PrepareRelease, ValidationRuntimePreflightFails,
           WaitCandidateValidationReady, Prepare, SameHost, usersAndData, dataVars, userVars,
           procVars, releaseVars, publisherVars, bindingVars, lifecycleVars, vfoswindVars
  <1> QED
    BY <1>1, OwnAlone

LEMMA CheckSteady ==
  ASSUME CutInv, CheckFrame
  PROVE  Steady
  <1>1. SameHost /\ UNCHANGED <<unit, lc, o, adapter>>
    BY DEF CheckFrame, SameHost, usersAndData, procVars, releaseVars, publisherVars, bindingVars,
           lifecycleVars
  <1> QED
    BY <1>1, OwnAlone

LEMMA OutcomesAre == \A op : Outcomes(op) \subseteq BOOLEAN
  BY DEF Outcomes

LEMMA BindingSteady ==
  ASSUME CutInv,
         PrepareTarget \/ BindGateway \/ BindValidation \/ ReloadValidation \/ StartValidationApi
  PROVE  Steady
  <1>1. lc \in Lifecycles /\ o \in Flags /\ adapter \in Adapters
    BY DEF CutInv, OwnTypes
  <1>2. CASE PrepareTarget
    <2>1. SameHost /\ UNCHANGED <<unit, lc, adapter>>
      BY <1>2 DEF PrepareTarget, SameHost, userVars, procVars, releaseVars, publisherVars, bindingVars,
                  lifecycleVars
    <2>2. PICK ok \in BOOLEAN : o' = o \/ o' = [o EXCEPT !.prepared = ok]
      BY <1>2, OutcomesAre DEF PrepareTarget
    <2>3. o' \in Flags /\ (o'.failed <=> o.failed) /\ (o'.runtime_bound <=> o.runtime_bound)
      BY <1>1, <2>2 DEF Flags
    <2> QED
      BY <2>1, <2>3 DEF CutInv, HostTypes, OwnTypes, Steady, SameOwn
  <1>3. CASE BindGateway
    <2>1. SameHost /\ UNCHANGED <<unit, lc, o>>
      BY <1>3 DEF BindGateway, BindValidationGateway, SameHost, usersAndData, procVars, publisherVars,
                  bindingVars, lifecycleVars
    <2>2. adapter' = adapter \/ adapter' = [adapter EXCEPT !.validation_gateway_bound = TRUE]
      BY <1>3 DEF BindGateway, BindValidationGateway
    <2>3. adapter' \in Adapters /\ adapter'.previous_environment = adapter.previous_environment
      BY <1>1, <2>2 DEF Adapters
    <2> QED
      BY <2>1, <2>3 DEF CutInv, HostTypes, OwnTypes, Steady, SameOwn
  <1>4. CASE BindValidation
    <2>1. SameHost /\ UNCHANGED <<unit, lc, o>>
      BY <1>4 DEF BindValidation, BindValidationCandidate, SameHost, usersAndData, procVars,
                  publisherVars, bindingVars, lifecycleVars
    <2>2. adapter' = adapter \/ adapter' = [adapter EXCEPT !.validation_binding_changed = TRUE]
      BY <1>4 DEF BindValidation, BindValidationCandidate
    <2>3. adapter' \in Adapters /\ adapter'.previous_environment = adapter.previous_environment
      BY <1>1, <2>2 DEF Adapters
    <2> QED
      BY <2>1, <2>3 DEF CutInv, HostTypes, OwnTypes, Steady, SameOwn
  <1>5. CASE ReloadValidation
    <2>1. SameHost /\ UNCHANGED <<adapter, lc, o>>
      BY <1>5 DEF ReloadValidation, DaemonReload, SameHost, usersAndData, procVars, publisherVars,
                  lifecycleVars
    <2>2. PICK ok : DaemonReload(ok)
      BY <1>5 DEF ReloadValidation
    <2>3. unit' \in [file : Roots, loaded : Roots]
      BY <2>2 DEF DaemonReload, CutInv, HostTypes
    <2> QED
      BY <2>1, <2>3 DEF CutInv, OwnTypes, Steady, SameOwn
  <1>6. CASE StartValidationApi
    <2>1. SameHost /\ UNCHANGED <<unit, adapter, o>> /\ lc' = [lc EXCEPT !.api_started = TRUE]
      BY <1>6 DEF StartValidationApi, SameHost, usersAndData, releaseVars, publisherVars, bindingVars
    <2>2. /\ lc' \in Lifecycles /\ (lc'.active <=> lc.active)
          /\ (lc'.serving_api_started <=> lc.serving_api_started)
          /\ (lc'.current_api_stopped <=> lc.current_api_stopped)
      BY <1>1, <2>1 DEF Lifecycles
    <2> QED
      BY <2>1, <2>2 DEF CutInv, HostTypes, OwnTypes, Steady, SameOwn
  <1> QED
    BY <1>2, <1>3, <1>4, <1>5, <1>6

LEMMA PhaseAStep ==
  ASSUME CutInv, \/ ValidateIdentityAndTarget \/ PreflightSchema \/ ConfigureReleaseControls
                 \/ PreflightIntegration
  PROVE  CutInv'
  <1>1. CASE ValidateIdentityAndTarget \/ PreflightSchema
    <2>1. pc \in PreControls /\ pc' \in PreControls \cup {"refused"}
      BY <1>1 DEF ValidateIdentityAndTarget, PreflightSchema, PreControls, Refuse
    <2> QED
      BY <1>1, <2>1, PhaseASteady, EarlyStep
  <1>2. CASE ConfigureReleaseControls
    <2>1. Steady
      BY <1>2, ControlsSteady
    <2>2. pc = "preflight_controls"
      BY <1>2 DEF ConfigureReleaseControls
    <2>3. \/ pc' = "refused"
          \/ pc' \in {"preflight_host", "residue"} /\ ReleaseControlsPass
             /\ (pc' = "residue" => ~Production)
      BY <1>2 DEF ConfigureReleaseControls, Refuse
    <2>4. CASE pc' = "refused"
      BY <2>1, <2>2, <2>4, EarlyStep DEF PreControls
    <2>5. CASE pc' \in {"preflight_host", "residue"} /\ ReleaseControlsPass
                /\ (pc' = "residue" => ~Production)
      <3>1. current \in {0, None}
        BY <2>5 DEF ReleaseControlsPass, CurrentIsPrevious, FlatIsAdoptable, Layout, FLAT,
                    IMMUTABLE_CURRENT
      <3>2. serving.release = serving.db
        BY <3>1 DEF CutInv, MixedInv
      <3>3. serving.release = 0 \/ hold
        BY <2>2 DEF CutInv, CandidateInv, Started, Restoring, AbortSteps
      <3>4. ~lc.serving_api_started
        BY <2>2 DEF CutInv, StartedInv, PhaseB
      <3>5. CASE pc' = "residue"
        <4>1. Calm
          BY <2>5, <3>2, <3>3, <3>4, <3>5 DEF Calm, CutInv, EnvInv
        <4> QED
          BY <2>1, <3>5, <4>1, CalmStep DEF PhaseB
      <3>6. CASE pc' = "preflight_host"
        <4>1. FreezeInv' /\ BoundInv'
          BY <2>1, <3>6 DEF CutInv, FreezeInv, BoundInv, Steady, SameHost, SameOwn, Window,
                            Freezing, Stopped, Started, AbortSteps
        <4>2. StartedInv' /\ MixedInv' /\ CandidateInv'
          BY <2>1, <3>2, <3>3, <3>4 DEF StartedInv, MixedInv, CandidateInv, Steady, SameHost, SameOwn
        <4>3. EnvInv'
          BY <2>1, <3>6 DEF CutInv, EnvInv, Steady, SameHost, Production
        <4> QED
          BY <2>1, <4>1, <4>2, <4>3, SteadyTypes DEF CutInv
      <3> QED
        BY <2>5, <3>5, <3>6
    <2> QED
      BY <2>3, <2>4, <2>5
  <1>3. CASE PreflightIntegration
    <2>1. Steady
      BY <1>3, PhaseASteady
    <2>2. pc = "preflight_host"
      BY <1>3 DEF PreflightIntegration
    <2>3. pc' = "refused" \/ (pc' = "residue" /\ IntegrationIsClosed)
      BY <1>3 DEF PreflightIntegration, Refuse
    <2>4. CASE pc' = "refused"
      BY <2>1, <2>2, <2>4, EarlyStep
    <2>5. CASE pc' = "residue" /\ IntegrationIsClosed
      <3>1. env = 0
        BY <2>5 DEF IntegrationIsClosed, FlatBootstrapIsClosed, EnvironmentIsClosed
      <3>2. serving.release = serving.db
        BY <2>2 DEF CutInv, MixedInv, Over, Gone, PreControls, TeardownSteps
      <3>3. serving.release = 0 \/ hold
        BY <2>2 DEF CutInv, CandidateInv, Started, Restoring, AbortSteps
      <3>4. ~lc.serving_api_started
        BY <2>2 DEF CutInv, StartedInv, PhaseB
      <3>5. Calm
        BY <3>1, <3>2, <3>3, <3>4 DEF Calm
      <3> QED
        BY <2>1, <2>5, <3>5, CalmStep DEF PhaseB
    <2> QED
      BY <2>3, <2>4, <2>5
  <1> QED
    BY <1>1, <1>2, <1>3

(* The checks of the candidate touch nothing but the ledger. *)
Checking ==
    \/ TargetedTests \/ BrowserFixtureRegression \/ CandidateBrowserEvidence
    \/ CandidateAuthenticatedMutation \/ ReleasePerformance \/ PathMappingAudit
    \/ SidecarAudit \/ SecurityAudit \/ RollbackEvidence

LEMMA CheckPlaces ==
  ASSUME Checking
  PROVE  /\ CheckFrame
         /\ pc \in Preparing
         /\ pc' \in PhaseB \cup {"fail"} \cup TeardownSteps
  <1>1. /\ CheckFrame
        /\ pc \in CheckSections \cup ProductionCheckSections
    BY DEF Checking, TargetedTests, BrowserFixtureRegression, CandidateBrowserEvidence,
           CandidateAuthenticatedMutation, ReleasePerformance, PathMappingAudit, SidecarAudit,
           SecurityAudit, RollbackEvidence, CheckSections, ProductionCheckSections,
           FixtureSections, CandidateSections, AuditSections, RollbackSections
  <1>2. pc' \in CheckSections \cup ProductionCheckSections \cup {"fail", "t_stop"}
    BY DEF Checking, TargetedTests, BrowserFixtureRegression, CandidateBrowserEvidence,
           CandidateAuthenticatedMutation, ReleasePerformance, PathMappingAudit, SidecarAudit,
           SecurityAudit, RollbackEvidence, CheckSections, ProductionCheckSections,
           FixtureSections, CandidateSections, AuditSections, RollbackSections, ReadArtifact,
           ReadSessionArtifact, Continue
  <1>3. CheckSections \cup ProductionCheckSections \subseteq Preparing
    BY DEF CheckSections, ProductionCheckSections, FixtureSections, CandidateSections, AuditSections,
           RollbackSections, Preparing, PhaseB, PreControls
  <1> QED
    BY <1>1, <1>2, <1>3 DEF PhaseB, TeardownSteps

LEMMA PhaseABStep ==
  ASSUME CutInv, PhaseAB
  PROVE  CutInv'
  <1>1. CASE \/ ValidateIdentityAndTarget \/ PreflightSchema \/ ConfigureReleaseControls
             \/ PreflightIntegration
    BY <1>1, PhaseAStep
  <1>2. CASE Checking
    BY <1>2, CheckPlaces, CheckSteady, CalmPlaces, CalmStep
  <1>3. CASE ScanResidue
    <2>1. pc \in Preparing /\ pc' \in PhaseB \cup {"refused"}
      BY <1>3 DEF ScanResidue, Preparing, PhaseB, PreControls
    <2> QED
      BY <1>3, <2>1, PhaseASteady, CalmPlaces, CalmStep
  <1>4. CASE \/ Backup \/ PrepareTarget \/ Migrate \/ PrepareRelease \/ BindGateway \/ BindValidation
             \/ ReloadValidation \/ StartValidationApi \/ ValidationRuntimePreflightFails
             \/ WaitCandidateValidationReady
    <2>1. Steady
      BY <1>4, PreparationSteady, BindingSteady
    <2>2. pc \in Preparing
      BY <1>4 DEF Backup, PrepareTarget, Migrate, PrepareRelease, BindGateway, BindValidation,
                  ReloadValidation, StartValidationApi, ValidationRuntimePreflightFails,
                  WaitCandidateValidationReady, Preparing, PhaseB, PreControls
    <2>3. pc' \in {"target", "migrate", "prepare", "gateway", "bind_validation", "reload_validation",
                   "start_validation", "wait_ready", "targeted_tests", "fail"}
      BY <1>4 DEF Backup, PrepareTarget, Migrate, PrepareRelease, BindGateway, BindValidation,
                  ReloadValidation, StartValidationApi, ValidationRuntimePreflightFails,
                  WaitCandidateValidationReady, Continue
    <2>4. pc' \in PhaseB \cup {"fail"}
      BY <2>3 DEF PhaseB, CheckSections, FixtureSections
    <2> QED
      BY <2>1, <2>2, <2>4, CalmPlaces, CalmStep
  <1> QED
    BY <1>1, <1>2, <1>3, <1>4 DEF PhaseAB, Checking

LEMMA TearingSteady ==
  ASSUME CutInv, Tearing
  PROVE  Steady
  <1>1. lc \in Lifecycles /\ o \in Flags /\ adapter \in Adapters
    BY DEF CutInv, OwnTypes
  <1>2. \A t \in {None, "PASSED", "FAILED"} :
           LET p == [o EXCEPT !.teardown = t] IN
           p \in Flags /\ (p.failed <=> o.failed) /\ (p.runtime_bound <=> o.runtime_bound)
    BY <1>1 DEF Flags
  <1>3. o.teardown \in {None, "PASSED", "FAILED"}
    BY <1>1 DEF Flags
  <1>4. CASE StopValidationApi
    <2>1. SameHost /\ UNCHANGED <<unit, adapter>>
      BY <1>4 DEF StopValidationApi, SameHost, usersAndData, releaseVars, publisherVars, bindingVars
    <2>2. /\ \E t \in {None, "PASSED", "FAILED"} : o' = [o EXCEPT !.teardown = t]
          /\ \E b \in BOOLEAN : lc' = [lc EXCEPT !.api_started = b]
      BY <1>4 DEF StopValidationApi
    <2>3. o' \in Flags /\ (o'.failed <=> o.failed) /\ (o'.runtime_bound <=> o.runtime_bound)
      BY <1>2, <2>2
    <2>4. PICK b \in BOOLEAN : lc' = [lc EXCEPT !.api_started = b]
      BY <2>2
    <2>5. /\ lc' \in Lifecycles /\ (lc'.active <=> lc.active)
          /\ (lc'.serving_api_started <=> lc.serving_api_started)
          /\ (lc'.current_api_stopped <=> lc.current_api_stopped)
      BY <1>1, <2>4 DEF Lifecycles
    <2> QED
      BY <2>1, <2>3, <2>5 DEF CutInv, HostTypes, OwnTypes, Steady, SameOwn
  <1>5. CASE TeardownSession
    <2>1. SameHost /\ UNCHANGED <<unit, adapter, lc>>
      BY <1>5 DEF TeardownSession, SameHost, usersAndData, releaseVars, publisherVars, bindingVars,
                  lifecycleVars
    <2>2. \E t \in {None, "PASSED", "FAILED"} : o' = [o EXCEPT !.teardown = t]
      BY <1>3, <1>5 DEF TeardownSession, Teardowns
    <2>3. o' \in Flags /\ (o'.failed <=> o.failed) /\ (o'.runtime_bound <=> o.runtime_bound)
      BY <1>2, <2>2
    <2> QED
      BY <2>1, <2>3 DEF CutInv, HostTypes, OwnTypes, Steady, SameOwn
  <1>6. CASE RestoreValidation
    <2>1. SameHost /\ UNCHANGED <<unit, lc>>
      BY <1>6 DEF RestoreValidation, RestoreValidationBinding, SameHost, usersAndData, procVars,
                  vfoswindVars, publisherVars, bindingVars, lifecycleVars
    <2>2. o' = o \/ \E t \in {None, "PASSED", "FAILED"} : o' = [o EXCEPT !.teardown = t]
      BY <1>3, <1>6 DEF RestoreValidation, Teardowns
    <2>3. o' \in Flags /\ (o'.failed <=> o.failed) /\ (o'.runtime_bound <=> o.runtime_bound)
      BY <1>1, <1>2, <2>2
    <2>4. adapter' = adapter \/ adapter' = [adapter EXCEPT !.validation_binding_changed = FALSE]
      BY <1>6 DEF RestoreValidation, RestoreValidationBinding, vfoswindVars
    <2>5. adapter' \in Adapters /\ adapter'.previous_environment = adapter.previous_environment
      BY <1>1, <2>4 DEF Adapters
    <2> QED
      BY <2>1, <2>3, <2>5 DEF CutInv, HostTypes, OwnTypes, Steady, SameOwn
  <1>7. CASE ReloadAfterValidation
    <2>1. SameHost /\ UNCHANGED <<adapter, lc>>
      BY <1>7 DEF ReloadAfterValidation, DaemonReload, SameHost, usersAndData, procVars, publisherVars,
                  lifecycleVars
    <2>2. \E t \in {None, "PASSED", "FAILED"} : o' = [o EXCEPT !.teardown = t]
      BY <1>3, <1>7 DEF ReloadAfterValidation, Teardowns
    <2>3. o' \in Flags /\ (o'.failed <=> o.failed) /\ (o'.runtime_bound <=> o.runtime_bound)
      BY <1>2, <2>2
    <2>4. PICK ok : DaemonReload(ok)
      BY <1>7 DEF ReloadAfterValidation
    <2>5. unit' \in [file : Roots, loaded : Roots]
      BY <2>4 DEF DaemonReload, CutInv, HostTypes
    <2> QED
      BY <2>1, <2>3, <2>5 DEF CutInv, OwnTypes, Steady, SameOwn
  <1>8. CASE RestoreGateway
    <2>1. SameHost /\ UNCHANGED <<unit, lc>>
      BY <1>8 DEF RestoreGateway, RestoreValidationGateway, SameHost, usersAndData, procVars,
                  vfoswindVars, publisherVars, bindingVars, lifecycleVars
    <2>2. \E t \in {None, "PASSED", "FAILED"} : o' = [o EXCEPT !.teardown = t]
      BY <1>3, <1>8 DEF RestoreGateway, Teardowns
    <2>3. o' \in Flags /\ (o'.failed <=> o.failed) /\ (o'.runtime_bound <=> o.runtime_bound)
      BY <1>2, <2>2
    <2>4. adapter' = adapter \/ adapter' = [adapter EXCEPT !.validation_gateway_bound = FALSE]
      BY <1>8 DEF RestoreGateway, RestoreValidationGateway, vfoswindVars
    <2>5. adapter' \in Adapters /\ adapter'.previous_environment = adapter.previous_environment
      BY <1>1, <2>4 DEF Adapters
    <2> QED
      BY <2>1, <2>3, <2>5 DEF CutInv, HostTypes, OwnTypes, Steady, SameOwn
  <1> QED
    BY <1>4, <1>5, <1>6, <1>7, <1>8 DEF Tearing

(* A step of the rollback may leave the upgrade to the operator. *)
Holding ==
    /\ UNCHANGED <<serving, marker, current, env, attempt, setup>>
    /\ hold' \in BOOLEAN /\ (hold => hold')
    /\ SameOwn /\ unit' \in [file : Roots, loaded : Roots] /\ OwnTypes'

LEMMA HoldingTypes ==
  ASSUME CutInv, Holding
  PROVE  HostTypes' /\ OwnTypes'
  BY DEF CutInv, HostTypes, Holding

LEMMA SteadyHolds ==
  ASSUME CutInv, Steady
  PROVE  Holding
  BY DEF CutInv, HostTypes, Steady, SameHost, Holding

(* After the rollback only the teardown and the cleanup are left. *)
LEMMA OverStep ==
  ASSUME CutInv, Holding, o.failed, pc \in Over \cup {"f_nginx"}, pc' \in Over \cup {"failed"}
  PROVE  CutInv'
  <1>1. /\ FreezeInv' /\ BoundInv'
    BY DEF CutInv, FreezeInv, BoundInv, Holding, SameOwn, Over, TeardownSteps, Window, Freezing,
           Stopped, Started, AbortSteps
  <1>2. StartedInv'
    BY DEF CutInv, StartedInv, Holding, SameOwn, Over, TeardownSteps, PhaseB, Freezing, Stopped,
           Ended, CheckSections, ProductionCheckSections, FixtureSections, CandidateSections,
           AuditSections, RollbackSections
  <1>3. MixedInv'
    BY DEF CutInv, MixedInv, Holding, SameOwn, Gone
  <1>4. serving.release = 0 \/ hold
    BY DEF CutInv, CandidateInv, Over, TeardownSteps, Started, Restoring, AbortSteps
  <1>5. env = 0
    BY DEF CutInv, EnvInv, Over, TeardownSteps, Started, Restoring, Ended, PreControls
  <1>6. CandidateInv' /\ EnvInv'
    BY <1>4, <1>5 DEF CandidateInv, EnvInv, Holding
  <1> QED
    BY <1>1, <1>2, <1>3, <1>6, HoldingTypes DEF CutInv

LEMMA TearingStep ==
  ASSUME CutInv, Tearing
  PROVE  CutInv'
  <1>1. pc \in TeardownSteps
    BY DEF Tearing, StopValidationApi, TeardownSession, RestoreValidation, ReloadAfterValidation,
           RestoreGateway, TeardownSteps
  <1>2. \/ pc' \in TeardownSteps
        \/ o.failed /\ pc' = "f_cleanup"
        \/ ~o.failed /\ pc' \in {"gate", "fail"}
    BY DEF Tearing, StopValidationApi, TeardownSession, RestoreValidation, ReloadAfterValidation,
           RestoreGateway, TeardownSteps, Continue
  <1>3. CASE o.failed
    BY <1>1, <1>2, <1>3, TearingSteady, SteadyHolds, OverStep DEF Over
  <1>4. CASE ~o.failed
    BY <1>1, <1>2, <1>4, TearingSteady, CalmPlaces, CalmStep DEF PhaseB
  <1> QED
    BY <1>3, <1>4

-----------------------------------------------------------------------------
(* The cutover *)

Exchanging == {"adopt", "switch", "bind_release", "bind_database"}

LEMMA ExchangingCalm ==
  ASSUME CutInv, pc \in Exchanging
  PROVE  Calm /\ lc.active /\ lc.current_api_stopped /\ marker
  <1>1. pc \in Stopped /\ pc \in Window
    BY DEF Exchanging, Stopped, Window
  <1>2. lc.active /\ lc.current_api_stopped /\ marker /\ ~lc.serving_api_started
    BY <1>1 DEF CutInv, FreezeInv, StartedInv
  <1>3. serving.release = serving.db
    BY DEF CutInv, MixedInv, Exchanging, Over, Gone, PreControls, TeardownSteps
  <1>4. serving.release = 0 \/ hold
    BY DEF CutInv, CandidateInv, Exchanging, Started, Restoring, AbortSteps
  <1>5. env = 0
    BY DEF CutInv, EnvInv, Exchanging, Started, Restoring, Ended, PreControls
  <1> QED
    BY <1>2, <1>3, <1>4, <1>5 DEF Calm

LEMMA GateStep ==
  ASSUME CutInv, ValidatePreCutoverReady \/ Confirm
  PROVE  CutInv'
  <1>1. lc \in Lifecycles /\ o \in Flags
    BY DEF CutInv, OwnTypes
  <1>2. pc \in Preparing /\ pc' \in PhaseB \cup {"freeze", "fail"}
    BY DEF ValidatePreCutoverReady, Confirm, Continue, Preparing, PhaseB, PreControls
  <1>3. CASE ValidatePreCutoverReady
    <2>1. SameHost /\ UNCHANGED <<unit, adapter, o>>
      BY <1>3 DEF ValidatePreCutoverReady, SameHost, hostVars, procVars, publisherVars, vfoswindVars,
                  bindingVars
    <2>2. PICK b \in BOOLEAN : lc' = [lc EXCEPT !.api_started = b]
      BY <1>1, <1>3 DEF ValidatePreCutoverReady, Lifecycles
    <2>3. /\ lc' \in Lifecycles /\ (lc'.active <=> lc.active)
          /\ (lc'.serving_api_started <=> lc.serving_api_started)
          /\ (lc'.current_api_stopped <=> lc.current_api_stopped)
      BY <1>1, <2>2 DEF Lifecycles
    <2>4. Steady
      BY <2>1, <2>3 DEF CutInv, HostTypes, OwnTypes, Steady, SameOwn
    <2> QED
      BY <1>2, <2>4, CalmPlaces, CalmStep
  <1>4. CASE Confirm
    <2>1. SameHost /\ UNCHANGED <<unit, adapter, lc>>
      BY <1>4 DEF Confirm, SameHost, usersAndData, procVars, publisherVars, vfoswindVars, bindingVars,
                  lifecycleVars
    <2>2. PICK b \in BOOLEAN : o' = [o EXCEPT !.phase_d_entered = b]
      BY <1>4, OutcomesAre DEF Confirm
    <2>3. o' \in Flags /\ (o'.failed <=> o.failed) /\ (o'.runtime_bound <=> o.runtime_bound)
      BY <1>1, <2>2 DEF Flags
    <2>4. Steady
      BY <2>1, <2>3 DEF CutInv, HostTypes, OwnTypes, Steady, SameOwn
    <2> QED
      BY <1>2, <2>4, CalmPlaces, CalmStep
  <1> QED
    BY <1>3, <1>4

(* What the steps of the freeze keep: the lifecycle's own fields apart. *)
LEMMA FreezingInv ==
  ASSUME CutInv, UNCHANGED <<hold, current, env, attempt, setup, unit, o, adapter>>,
         lc' \in Lifecycles, marker' \in BOOLEAN,
         serving' \in [up : BOOLEAN, release : Ids, db : Ids],
         serving'.release = serving.release, serving'.db = serving.db,
         Calm, ~lc'.serving_api_started, lc'.active => marker',
         \/ pc' = "fail"
         \/ pc' \in Freezing \cup {"adopt", "switch"} /\ lc'.active,
         pc' \in {"adopt", "switch"} => lc'.current_api_stopped
  PROVE  CutInv'
  <1>1. Calm' /\ HostTypes' /\ OwnTypes'
    BY DEF Calm, CutInv, HostTypes, OwnTypes
  <1>2. FreezeInv'
    BY DEF FreezeInv, Window, Freezing, Stopped, Started, AbortSteps
  <1>3. BoundInv'
    BY DEF CutInv, BoundInv, Freezing
  <1> QED
    BY <1>1, <1>2, <1>3, CalmInv

LEMMA FreezeStep ==
  ASSUME CutInv, \/ FreezeWrites \/ FreezeTraffic \/ FreezeAborts \/ Drain \/ ReconfirmCutoverIdentity
                 \/ StopCurrent
  PROVE  CutInv'
  <1>1. /\ UNCHANGED <<hold, current, env, attempt, setup, unit, o, adapter>>
        /\ pc \in Preparing \cup Freezing
    BY DEF FreezeWrites, FreezeTraffic, FreezeAborts, Drain, ReconfirmCutoverIdentity, StopCurrent,
           publisherVars, vfoswindVars, bindingVars, lifecycleVars, Preparing, PhaseB, Freezing
  <1>2. Calm /\ lc \in Lifecycles /\ ~lc.serving_api_started
    BY <1>1, CalmPlaces DEF CutInv, OwnTypes, Calm
  <1>3. /\ serving \in [up : BOOLEAN, release : Ids, db : Ids] /\ marker \in BOOLEAN
        /\ lc.active => marker
        /\ pc \in Freezing => lc.active
    BY DEF CutInv, HostTypes, FreezeInv, Window
  <1>4. CASE FreezeWrites
    <2>1. /\ serving' = serving /\ marker' = TRUE /\ lc' = [lc EXCEPT !.active = TRUE]
          /\ pc' = "freeze_command"
      BY <1>4 DEF FreezeWrites, Freeze, procVars
    <2>2. lc' \in Lifecycles /\ lc'.active /\ ~lc'.serving_api_started
      BY <1>2, <2>1 DEF Lifecycles
    <2> QED
      BY <1>1, <1>2, <1>3, <2>1, <2>2, FreezingInv DEF Freezing
  <1>5. CASE FreezeTraffic \/ Drain \/ ReconfirmCutoverIdentity
    <2>1. UNCHANGED <<serving, marker, lc>> /\ pc' \in Freezing \cup {"fail"} /\ pc \in Freezing
      BY <1>5 DEF FreezeTraffic, Drain, ReconfirmCutoverIdentity, procVars, lifecycleVars, Continue,
                  Freezing
    <2>2. pc' \notin {"adopt", "switch"}
      BY <2>1 DEF Freezing
    <2> QED
      BY <1>1, <1>2, <1>3, <2>1, <2>2, FreezingInv
  <1>6. CASE FreezeAborts
    <2>1. /\ serving' = serving /\ pc' = "fail"
          /\ \/ UNCHANGED <<marker, lc>>
             \/ marker' = FALSE /\ lc' = [lc EXCEPT !.active = FALSE]
      BY <1>6 DEF FreezeAborts, AbortPreserve, procVars
    <2>2. /\ lc' \in Lifecycles /\ ~lc'.serving_api_started /\ marker' \in BOOLEAN
          /\ lc'.active => marker'
      BY <1>2, <1>3, <2>1 DEF Lifecycles
    <2> QED
      BY <1>1, <1>2, <1>3, <2>1, <2>2, FreezingInv
  <1>7. CASE StopCurrent
    <2>1. PICK ok \in BOOLEAN :
             /\ StopCurrentApi(ok) /\ marker' = marker
             /\ pc' \in IF ok THEN {"adopt", "switch"} ELSE {"fail"}
      BY <1>7, OutcomesAre DEF StopCurrent, Continue
    <2>2. lc' = [lc EXCEPT !.current_api_stop_attempted = TRUE, !.current_api_stopped = ok]
      BY <2>1 DEF StopCurrentApi
    <2>3. PICK up \in BOOLEAN : serving' = [serving EXCEPT !.up = up]
      BY <1>3, <2>1 DEF StopCurrentApi, StopServing
    <2>4. /\ lc' \in Lifecycles /\ ~lc'.serving_api_started /\ (lc'.active <=> lc.active)
          /\ lc'.current_api_stopped <=> ok
      BY <1>2, <2>2 DEF Lifecycles
    <2>5. /\ serving' \in [up : BOOLEAN, release : Ids, db : Ids]
          /\ serving'.release = serving.release /\ serving'.db = serving.db
      BY <1>3, <2>3
    <2>6. pc \in Freezing
      BY <1>7 DEF StopCurrent, Freezing
    <2>7. lc.active /\ pc' \in {"adopt", "switch", "fail"} /\ (pc' \in {"adopt", "switch"} => ok)
      BY <1>3, <2>1, <2>6
    <2> QED
      BY <1>1, <1>2, <1>3, <2>1, <2>4, <2>5, <2>7, FreezingInv
  <1> QED
    BY <1>4, <1>5, <1>6, <1>7

(* What the steps between the stop of the old process and the start of the *)
(* new one keep, until the EnvironmentFile is exchanged.                   *)
LEMMA ExchangingInv ==
  ASSUME CutInv, pc \in Exchanging,
         UNCHANGED <<serving, marker, hold, env, attempt, setup, lc>>,
         current' \in Ids \cup {None}, unit' \in [file : Roots, loaded : Roots],
         o' \in Flags, adapter' \in Adapters, BoundInv',
         pc' \in Stopped \cup {"fail"}
  PROVE  CutInv'
  <1>1. Calm /\ lc.active /\ lc.current_api_stopped /\ marker
    BY ExchangingCalm
  <1>2. Calm' /\ HostTypes' /\ OwnTypes'
    BY <1>1 DEF Calm, CutInv, HostTypes, OwnTypes
  <1>3. FreezeInv'
    BY <1>1 DEF FreezeInv, Window, Freezing, Stopped, Started, AbortSteps
  <1> QED
    BY <1>2, <1>3, CalmInv

LEMMA SwitchStep ==
  ASSUME CutInv, EnsureFlatCurrentBaseline \/ Switch \/ BindRelease
  PROVE  CutInv'
  <1>1. /\ UNCHANGED <<serving, marker, hold, env, attempt, setup, lc>>
        /\ pc \in Exchanging
    BY DEF EnsureFlatCurrentBaseline, Switch, BindRelease, BindCurrentRelease, procVars, vfoswindVars,
           bindingVars, lifecycleVars, Exchanging
  <1>2. /\ o \in Flags /\ adapter \in Adapters /\ current \in Ids \cup {None} /\ attempt \in Ids
        /\ unit \in [file : Roots, loaded : Roots]
        /\ adapter.previous_environment \in {0, None}
    BY IdFacts DEF CutInv, OwnTypes, HostTypes, BoundInv
  <1>3. CASE EnsureFlatCurrentBaseline
    <2>1. PICK ok \in BOOLEAN :
             /\ AdoptFlat(ok) /\ o' = [o EXCEPT !.layout = IF ok THEN IMMUTABLE_CURRENT ELSE FLAT]
             /\ Continue(ok, "switch") /\ UNCHANGED vfoswindVars
      BY <1>3, OutcomesAre DEF EnsureFlatCurrentBaseline
    <2>2. current' \in Ids \cup {None} /\ UNCHANGED <<unit, adapter>>
      BY <1>2, <2>1, IdFacts DEF AdoptFlat, publisherVars, vfoswindVars, bindingVars
    <2>3. o' \in Flags /\ (o'.runtime_bound <=> o.runtime_bound)
      BY <1>2, <2>1 DEF Flags
    <2>4. pc' \in {"switch", "fail"}
      BY <2>1 DEF Continue
    <2>5. BoundInv'
      BY <1>2, <2>2, <2>3, <2>4 DEF BoundInv
    <2> QED
      BY <1>1, <1>2, <2>2, <2>3, <2>4, <2>5, ExchangingInv DEF Stopped
  <1>4. CASE Switch
    <2>1. PICK ok \in BOOLEAN :
             /\ SwitchCurrent(attempt, ok) /\ o' = [o EXCEPT !.switch_attempted = TRUE]
             /\ Continue(ok, IF Production THEN "bind_release" ELSE "activate")
             /\ UNCHANGED vfoswindVars
      BY <1>4, OutcomesAre DEF Switch
    <2>2. /\ current' \in Ids \cup {None} /\ UNCHANGED <<unit, adapter>>
          /\ pc' = "fail" \/ current' = attempt
      BY <1>2, <2>1 DEF SwitchCurrent, vfoswindVars, bindingVars, Continue
    <2>3. o' \in Flags /\ (o'.runtime_bound <=> o.runtime_bound)
      BY <1>2, <2>1 DEF Flags
    <2>4. /\ pc' \in {"bind_release", "activate", "fail"}
          /\ pc' = "bind_release" => Production
          /\ pc' = "activate" => ~Production
      BY <2>1 DEF Continue
    <2>5. BoundInv'
      BY <1>1, <1>2, <2>2, <2>3, <2>4 DEF BoundInv, Production
    <2> QED
      BY <1>1, <1>2, <2>2, <2>3, <2>4, <2>5, ExchangingInv DEF Stopped
  <1>5. CASE BindRelease
    <2>1. PICK ok \in BOOLEAN :
             /\ BindCurrentRelease(ok)
             /\ o' = [o EXCEPT !.release_bindings_changed =
                                  IF ok THEN adapter'.release_bindings_changed ELSE @]
             /\ Continue(ok, "bind_database") /\ current' = current
      BY <1>5, OutcomesAre DEF BindRelease, publisherVars
    <2>2. \/ UNCHANGED <<unit, adapter>> /\ (ok => unit.file = "current")
          \/ /\ unit' = [unit EXCEPT !.file = "current"]
             /\ adapter' = [adapter EXCEPT !.release_bindings_changed = TRUE]
      BY <2>1 DEF BindCurrentRelease
    <2>3. /\ unit' \in [file : Roots, loaded : Roots] /\ adapter' \in Adapters
          /\ adapter'.previous_environment = adapter.previous_environment
          /\ ok => unit'.file = "current"
      BY <1>2, <2>2 DEF Roots, Adapters
    <2>4. adapter'.release_bindings_changed \in BOOLEAN /\ o.release_bindings_changed \in BOOLEAN
      BY <1>2, <2>3 DEF Adapters, Flags
    <2>5. o' \in Flags /\ (o'.runtime_bound <=> o.runtime_bound)
      BY <1>2, <2>1, <2>4 DEF Flags
    <2>6. pc = "bind_release" /\ pc' \in {"bind_database", "fail"} /\ (pc' = "bind_database" => ok)
      BY <1>5, <2>1 DEF BindRelease, Continue
    <2>7. Production /\ current = attempt
      BY <2>6 DEF CutInv, BoundInv
    <2>8. BoundInv'
      BY <1>1, <1>2, <2>1, <2>3, <2>5, <2>6, <2>7 DEF BoundInv, Production
    <2> QED
      BY <1>1, <1>2, <2>1, <2>3, <2>5, <2>6, <2>8, ExchangingInv DEF Stopped
  <1> QED
    BY <1>3, <1>4, <1>5

LEMMA BindDatabaseStep ==
  ASSUME CutInv, BindDatabase
  PROVE  CutInv'
  <1>1. PICK ok \in BOOLEAN :
           /\ BindCandidateDatabase(attempt, ok)
           /\ o' = [o EXCEPT !.runtime_binding_attempted = TRUE, !.runtime_bound = ok]
           /\ Continue(ok, "reload")
    BY OutcomesAre DEF BindDatabase
  <1>2. /\ UNCHANGED <<serving, marker, hold, attempt, setup, lc, current>> /\ pc = "bind_database"
    BY DEF BindDatabase, procVars, publisherVars, lifecycleVars
  <1>3. /\ adapter' = [adapter EXCEPT !.previous_environment = env, !.runtime_bound = ok]
        /\ env' = (IF ok THEN attempt ELSE env) /\ unit' = unit
    BY <1>1 DEF BindCandidateDatabase
  <1>4. Calm /\ lc.active /\ lc.current_api_stopped /\ marker
    BY <1>2, ExchangingCalm DEF Exchanging
  <1>5. o \in Flags /\ adapter \in Adapters /\ env = 0 /\ 0 \in Ids /\ attempt \in Ids
    BY <1>4, IdFacts DEF CutInv, OwnTypes, HostTypes, Calm
  <1>6. o' \in Flags /\ (o'.runtime_bound <=> ok) /\ (o'.failed <=> o.failed)
    BY <1>1, <1>5 DEF Flags
  <1>7. adapter' \in Adapters /\ adapter'.previous_environment = 0
    BY <1>3, <1>5 DEF Adapters
  <1>8. Production /\ current = attempt /\ unit.file = "current"
    BY <1>2 DEF CutInv, BoundInv
  <1>9. pc' = IF ok THEN "reload" ELSE "fail"
    BY <1>1 DEF Continue
  <1>10. BoundInv'
    BY <1>2, <1>3, <1>7, <1>8, <1>9 DEF BoundInv, Production
  <1>11. HostTypes' /\ OwnTypes'
    BY <1>2, <1>3, <1>5, <1>6, <1>7 DEF CutInv, HostTypes, OwnTypes
  <1>12. FreezeInv'
    BY <1>2, <1>4, <1>9 DEF FreezeInv, Window, Freezing, Stopped, Started, AbortSteps
  <1>13. StartedInv' /\ MixedInv' /\ CandidateInv'
    BY <1>2, <1>4 DEF StartedInv, MixedInv, CandidateInv, Calm
  <1>14. EnvInv'
    BY <1>2, <1>3, <1>5, <1>6, <1>7, <1>8, <1>9 DEF EnvInv, Production
  <1> QED
    BY <1>10, <1>11, <1>12, <1>13, <1>14 DEF CutInv

LEMMA ReloadUnitsStep ==
  ASSUME CutInv, ReloadUnits
  PROVE  CutInv'
  <1>1. PICK ok \in BOOLEAN : DaemonReload(ok) /\ Continue(ok, "activate")
    BY OutcomesAre DEF ReloadUnits
  <1>2. /\ UNCHANGED <<serving, marker, hold, attempt, setup, lc, o, current>> /\ pc = "reload"
    BY DEF ReloadUnits, procVars, publisherVars, lifecycleVars
  <1>3. UNCHANGED <<env, adapter>> /\ unit' = [unit EXCEPT !.loaded = IF ok THEN unit.file ELSE @]
    BY <1>1 DEF DaemonReload
  <1>4. unit \in [file : Roots, loaded : Roots]
    BY DEF CutInv, HostTypes
  <1>5. unit' \in [file : Roots, loaded : Roots] /\ (ok => unit'.loaded = unit.file)
    BY <1>3, <1>4
  <1>6. pc' = IF ok THEN "activate" ELSE "fail"
    BY <1>1 DEF Continue
  <1>7. /\ Production /\ current = attempt /\ unit.file = "current" /\ env = attempt
        /\ adapter.previous_environment \in {0, None}
    BY <1>2 DEF CutInv, BoundInv
  <1>8. lc.active /\ marker /\ lc.current_api_stopped /\ ~lc.serving_api_started
    BY <1>2 DEF CutInv, FreezeInv, StartedInv, Window, Stopped
  <1>9. BoundInv'
    BY <1>2, <1>3, <1>5, <1>6, <1>7 DEF BoundInv, Production
  <1>10. HostTypes' /\ OwnTypes'
    BY <1>2, <1>3, <1>5 DEF CutInv, HostTypes, OwnTypes
  <1>11. FreezeInv' /\ StartedInv'
    BY <1>2, <1>6, <1>8 DEF FreezeInv, StartedInv, Window, Freezing, Stopped, Started, AbortSteps
  <1>12. serving.release = serving.db /\ (serving.release = 0 \/ hold)
    BY <1>2 DEF CutInv, MixedInv, CandidateInv, Over, Gone, PreControls, TeardownSteps, Started,
                Restoring, AbortSteps
  <1>13. MixedInv' /\ CandidateInv'
    BY <1>2, <1>12 DEF MixedInv, CandidateInv
  <1>14. EnvInv'
    BY <1>2, <1>3, <1>6, <1>7 DEF CutInv, EnvInv, Production, Restoring, Ended, PreControls
  <1> QED
    BY <1>9, <1>10, <1>11, <1>13, <1>14 DEF CutInv

(* The process that is started is the candidate on its own database: the   *)
(* unit was reloaded after CURRENT was switched, and the EnvironmentFile   *)
(* was exchanged before.                                                   *)
LEMMA ActivateStep ==
  ASSUME CutInv, ActivateServing
  PROVE  CutInv' /\ marker /\ marker'
  <1>1. PICK ok \in BOOLEAN :
           /\ StartServingApi(ok, attempt, attempt)
           /\ Continue(ok, IF Production THEN "nginx" ELSE "verify")
    BY OutcomesAre DEF ActivateServing
  <1>2. /\ UNCHANGED <<marker, hold, attempt, setup, o, current, env, unit, adapter>>
        /\ pc = "activate"
    BY DEF ActivateServing, publisherVars, vfoswindVars, bindingVars
  <1>3. /\ current = attempt /\ (Production => unit.loaded = "current" /\ env = attempt)
        /\ adapter.previous_environment \in {0, None}
    BY <1>2 DEF CutInv, BoundInv
  <1>4. attempt \in Ids /\ attempt # None
    BY IdFacts DEF CutInv, HostTypes
  <1>5. Production => ReleaseAt(unit.loaded) = attempt
    BY <1>3, <1>4 DEF ReleaseAt
  <1>6. PICK up \in BOOLEAN : serving' = [up |-> up, release |-> attempt, db |-> attempt]
    BY <1>1, <1>3, <1>5 DEF StartServingApi, RunStart, RestartService, StartServing
  <1>7. /\ serving' \in [up : BOOLEAN, release : Ids, db : Ids]
        /\ serving'.release = serving'.db
    BY <1>4, <1>6
  <1>8. lc' = [lc EXCEPT !.serving_api_started = TRUE] /\ lc \in Lifecycles
    BY <1>1 DEF StartServingApi, CutInv, OwnTypes
  <1>9. lc.active /\ marker /\ lc.current_api_stopped
    BY <1>2 DEF CutInv, FreezeInv, Window, Stopped
  <1>10. lc' \in Lifecycles /\ lc'.active /\ lc'.current_api_stopped
    BY <1>8, <1>9 DEF Lifecycles
  <1>11. pc' \in {"nginx", "verify", "fail"}
    BY <1>1 DEF Continue
  <1>12. HostTypes' /\ OwnTypes'
    BY <1>2, <1>7, <1>10 DEF CutInv, HostTypes, OwnTypes
  <1>13. FreezeInv'
    BY <1>2, <1>9, <1>10, <1>11 DEF FreezeInv, Window, Freezing, Stopped, Started, AbortSteps
  <1>14. StartedInv'
    BY <1>10, <1>11 DEF StartedInv, PhaseB, Freezing, Stopped, TeardownSteps, CheckSections,
                        ProductionCheckSections, FixtureSections, CandidateSections, AuditSections,
                        RollbackSections
  <1>15. MixedInv' /\ CandidateInv'
    BY <1>7, <1>10, <1>11 DEF MixedInv, CandidateInv, Started, Restoring
  <1>16. EnvInv'
    BY <1>2, <1>3, <1>11 DEF CutInv, EnvInv, Production, Started, Restoring, Ended, PreControls
  <1>17. BoundInv'
    BY <1>2, <1>3, <1>11 DEF BoundInv
  <1> QED
    BY <1>2, <1>9, <1>12, <1>13, <1>14, <1>15, <1>16, <1>17 DEF CutInv

LEMMA StartedStep ==
  ASSUME CutInv, Steady, pc \in Started, pc' \in Started \cup {"fail"}
  PROVE  CutInv'
  <1>1. /\ FreezeInv' /\ BoundInv'
    BY DEF CutInv, FreezeInv, BoundInv, Steady, SameHost, SameOwn, Window, Freezing, Stopped, Started,
           AbortSteps
  <1>2. pc' \notin PhaseB \cup {"freeze", "a_start", "a_lift"} \cup Freezing \cup Stopped \cup TeardownSteps
    BY DEF PhaseB, Freezing, Stopped, Started, TeardownSteps, CheckSections, ProductionCheckSections,
           FixtureSections, CandidateSections, AuditSections, RollbackSections
  <1>3. pc \in Window
    BY DEF Window
  <1>4. StartedInv'
    BY <1>2, <1>3 DEF CutInv, FreezeInv, StartedInv, Steady, SameOwn
  <1>5. serving.release = serving.db
    BY DEF CutInv, MixedInv, Over, Gone, PreControls, TeardownSteps, Started
  <1>6. MixedInv'
    BY <1>5 DEF MixedInv, Steady, SameHost
  <1>7. serving.release # 0 /\ ~hold => lc.active /\ lc.current_api_stopped
    BY DEF CutInv, CandidateInv, Started
  <1>8. CandidateInv'
    BY <1>7 DEF CandidateInv, Steady, SameHost, SameOwn, Restoring
  <1>9. env # 0 => Production /\ o.runtime_bound /\ adapter.previous_environment = 0
    BY DEF CutInv, EnvInv, Started, Ended, PreControls
  <1>10. EnvInv'
    BY <1>9 DEF EnvInv, Steady, SameHost, SameOwn, Restoring, Production
  <1> QED
    BY <1>1, <1>4, <1>6, <1>8, <1>10, SteadyTypes DEF CutInv

LEMMA ServingStep ==
  ASSUME CutInv, ReloadGateway \/ VerifyReleaseEndpoint \/ ValidateFinalGate \/ Open
                 \/ VerifyPostOpenServing
  PROVE  CutInv' /\ Steady
  <1>1. pc \in Started /\ pc' \in Started \cup {"fail"}
    BY DEF ReloadGateway, VerifyReleaseEndpoint, ValidateFinalGate, Open, VerifyPostOpenServing,
           Continue, Started
  <1>2. CASE ReloadGateway
    <2>1. SameHost /\ UNCHANGED <<unit, lc, o, adapter>>
      BY <1>2 DEF ReloadGateway, ReloadNginx, SameHost, procVars, publisherVars, lifecycleVars
    <2> QED
      BY <1>1, <2>1, OwnAlone, StartedStep
  <1>3. CASE VerifyReleaseEndpoint \/ ValidateFinalGate \/ VerifyPostOpenServing
    <2>1. SameHost /\ UNCHANGED <<unit, lc, o, adapter>>
      BY <1>3 DEF VerifyReleaseEndpoint, ValidateFinalGate, VerifyPostOpenServing, SameHost, hostVars,
                  procVars, publisherVars, vfoswindVars, bindingVars, lifecycleVars
    <2> QED
      BY <1>1, <2>1, OwnAlone, StartedStep
  <1>4. CASE Open
    <2>1. SameHost /\ UNCHANGED <<unit, adapter>> /\ o' = [o EXCEPT !.traffic_open_attempted = TRUE]
      BY <1>4 DEF Open, SameHost, procVars, publisherVars, vfoswindVars, bindingVars
    <2>2. PICK ok \in BOOLEAN : lc' = [lc EXCEPT !.traffic_opened = ok]
      BY <1>4, OutcomesAre DEF Open, OpenTraffic
    <2>3. o \in Flags /\ lc \in Lifecycles
      BY DEF CutInv, OwnTypes
    <2>4. o' \in Flags /\ (o'.failed <=> o.failed) /\ (o'.runtime_bound <=> o.runtime_bound)
      BY <2>1, <2>3 DEF Flags
    <2>5. /\ lc' \in Lifecycles /\ (lc'.active <=> lc.active)
          /\ (lc'.serving_api_started <=> lc.serving_api_started)
          /\ (lc'.current_api_stopped <=> lc.current_api_stopped)
      BY <2>2, <2>3 DEF Lifecycles
    <2>6. Steady
      BY <2>1, <2>4, <2>5 DEF CutInv, HostTypes, OwnTypes, Steady, SameOwn
    <2> QED
      BY <1>1, <2>6, StartedStep
  <1> QED
    BY <1>2, <1>3, <1>4

(* Traffic is opened for a release on its own database. *)
LEMMA FinalizeStep ==
  ASSUME CutInv, Finalize
  PROVE  CutInv' /\ marker /\ UNCHANGED serving /\ serving.release = serving.db
  <1>1. /\ UNCHANGED <<serving, hold, attempt, setup, o, current, env, unit, adapter>>
        /\ pc = "finalize" /\ pc' = "record_open" /\ marker' = FALSE
        /\ lc' = [lc EXCEPT !.active = FALSE]
    BY DEF Finalize, FinalizeTrafficOpen, procVars, publisherVars, vfoswindVars, bindingVars
  <1>2. lc \in Lifecycles
    BY DEF CutInv, OwnTypes
  <1>3. /\ lc' \in Lifecycles /\ ~lc'.active
        /\ (lc'.serving_api_started <=> lc.serving_api_started)
        /\ (lc'.current_api_stopped <=> lc.current_api_stopped)
    BY <1>1, <1>2 DEF Lifecycles
  <1>4. HostTypes' /\ OwnTypes'
    BY <1>1, <1>3 DEF CutInv, HostTypes, OwnTypes
  <1>5. FreezeInv' /\ BoundInv'
    BY <1>1, <1>3 DEF CutInv, FreezeInv, BoundInv, Window, Freezing, Stopped, Started, AbortSteps
  <1>6. pc' \notin PhaseB \cup {"freeze", "a_start", "a_lift"} \cup Freezing \cup Stopped \cup TeardownSteps
    BY <1>1 DEF PhaseB, Freezing, Stopped, TeardownSteps, CheckSections, ProductionCheckSections,
           FixtureSections, CandidateSections, AuditSections, RollbackSections
  <1>7. StartedInv'
    BY <1>1, <1>3, <1>6 DEF CutInv, StartedInv
  <1>8. serving.release = serving.db
    BY <1>1 DEF CutInv, MixedInv, Over, Gone, PreControls, TeardownSteps
  <1>9. MixedInv' /\ CandidateInv'
    BY <1>1, <1>8 DEF MixedInv, CandidateInv
  <1>10. EnvInv'
    BY <1>1 DEF CutInv, EnvInv, Production, Started, Ended, PreControls
  <1>11. marker
    BY <1>1 DEF CutInv, FreezeInv, Window, Started
  <1> QED
    BY <1>1, <1>4, <1>5, <1>7, <1>8, <1>9, <1>10, <1>11 DEF CutInv

LEMMA RecordOpenStep ==
  ASSUME "record_open" \notin Fallible, CutInv, RecordOpen
  PROVE  CutInv' /\ Steady
  <1>1. SameHost /\ UNCHANGED <<unit, lc, o, adapter>> /\ pc = "record_open" /\ pc' = "READY"
    BY DEF RecordOpen, Outcomes, Continue, SameHost, procVars, publisherVars, vfoswindVars, bindingVars,
           lifecycleVars
  <1>2. Steady
    BY <1>1, OwnAlone
  <1>3. FreezeInv' /\ BoundInv'
    BY <1>1 DEF CutInv, FreezeInv, BoundInv, SameHost, Window, Freezing, Stopped, Started, AbortSteps
  <1>4. StartedInv'
    BY <1>1 DEF CutInv, StartedInv, PhaseB, Freezing, Stopped, TeardownSteps, Ended, CheckSections,
                ProductionCheckSections, FixtureSections, CandidateSections, AuditSections,
                RollbackSections
  <1>5. MixedInv' /\ CandidateInv'
    BY <1>1 DEF CutInv, MixedInv, CandidateInv, SameHost, Over, Gone, PreControls, TeardownSteps
  <1>6. EnvInv'
    BY <1>1 DEF CutInv, EnvInv, SameHost, Production, Ended
  <1> QED
    BY <1>2, <1>3, <1>4, <1>5, <1>6, SteadyTypes DEF CutInv

-----------------------------------------------------------------------------
(* _fail up to the abort of the freeze *)

RollingBack == Restoring \cup {"f_database_reload", "f_abort"}

LEMMA RollingBackInv ==
  ASSUME CutInv, pc \in RollingBack, pc' \in RollingBack \ {"fail"},
         UNCHANGED <<marker, attempt, setup>>,
         serving' \in [up : BOOLEAN, release : Ids, db : Ids],
         serving'.release = serving.release, serving'.db = serving.db,
         hold' \in BOOLEAN, hold => hold',
         current' \in Ids \cup {None}, unit' \in [file : Roots, loaded : Roots], env' \in Ids,
         lc' \in Lifecycles, lc'.active <=> lc.active,
         lc'.current_api_stopped <=> lc.current_api_stopped,
         lc'.serving_api_started => lc.serving_api_started,
         o' \in Flags, o'.failed, adapter' \in Adapters,
         adapter'.previous_environment \in {0, None},
         EnvInv'
  PROVE  CutInv'
  <1>1. HostTypes' /\ OwnTypes'
    BY DEF CutInv, HostTypes, OwnTypes
  <1>2. /\ pc' \notin Window \cup AbortSteps \cup Ended \cup {"record_open"}
        /\ pc \notin Over \cup Gone \cup PreControls \cup Ended \cup {"a_lift", "record_open"}
    BY DEF RollingBack, Restoring, Window, Freezing, Stopped, Started, AbortSteps, Over, Gone,
           PreControls, Ended, TeardownSteps
  <1>3. FreezeInv'
    BY <1>2 DEF CutInv, FreezeInv, Window, AbortSteps
  <1>4. pc' \notin PhaseB \cup {"freeze", "a_start", "a_lift"} \cup Freezing \cup Stopped \cup TeardownSteps
    BY DEF RollingBack, Restoring, PhaseB, Freezing, Stopped, TeardownSteps, CheckSections,
           ProductionCheckSections, FixtureSections, CandidateSections, AuditSections,
           RollbackSections
  <1>5. StartedInv'
    BY <1>2, <1>4 DEF CutInv, StartedInv
  <1>6. serving.release = serving.db
    BY <1>2 DEF CutInv, MixedInv
  <1>7. MixedInv'
    BY <1>6 DEF MixedInv
  <1>8. serving.release # 0 /\ ~hold => lc.active /\ lc.current_api_stopped
    BY <1>2 DEF CutInv, CandidateInv, Ended
  <1>9. CandidateInv'
    BY <1>8 DEF CandidateInv, RollingBack
  <1>10. BoundInv'
    BY <1>2 DEF BoundInv, Window, Stopped
  <1> QED
    BY <1>1, <1>3, <1>5, <1>7, <1>9, <1>10 DEF CutInv

(* The binding is known as long as it has to be restored. *)
LEMMA RestorableEnv ==
  ASSUME CutInv, pc \in Restoring, pc' \in Restoring, UNCHANGED <<env, setup>>,
         o'.runtime_bound <=> o.runtime_bound,
         adapter'.previous_environment = adapter.previous_environment
  PROVE  EnvInv'
  <1>1. pc \notin Ended \cup PreControls \cup {"preflight_host"}
    BY DEF Restoring, Ended, PreControls
  <1>2. env # 0 => Production /\ o.runtime_bound /\ adapter.previous_environment = 0
    BY <1>1 DEF CutInv, EnvInv
  <1> QED
    BY <1>2 DEF EnvInv, Production

LEMMA RollingBackTypes ==
  ASSUME CutInv, pc \in RollingBack \ {"fail"}
  PROVE  /\ serving \in [up : BOOLEAN, release : Ids, db : Ids] /\ hold \in BOOLEAN
         /\ current \in Ids \cup {None} /\ unit \in [file : Roots, loaded : Roots] /\ env \in Ids
         /\ lc \in Lifecycles /\ o \in Flags /\ adapter \in Adapters /\ o.failed
         /\ adapter.previous_environment \in {0, None}
  <1>1. o.failed
    BY DEF CutInv, FreezeInv, RollingBack, Restoring
  <1> QED
    BY <1>1 DEF CutInv, HostTypes, OwnTypes, BoundInv

LEMMA FailStep ==
  ASSUME CutInv, Fail
  PROVE  CutInv' /\ UNCHANGED <<serving, marker, hold>>
  <1>1. /\ UNCHANGED <<serving, marker, hold, attempt, setup, lc, current, env, unit, adapter>>
        /\ pc = "fail" /\ pc' = "f_stop" /\ o' = [o EXCEPT !.failed = TRUE]
    BY DEF Fail, hostVars, procVars, publisherVars, vfoswindVars, bindingVars, lifecycleVars
  <1>2. /\ serving \in [up : BOOLEAN, release : Ids, db : Ids] /\ hold \in BOOLEAN
        /\ current \in Ids \cup {None} /\ unit \in [file : Roots, loaded : Roots] /\ env \in Ids
        /\ lc \in Lifecycles /\ o \in Flags /\ adapter \in Adapters
        /\ adapter.previous_environment \in {0, None}
    BY DEF CutInv, HostTypes, OwnTypes, BoundInv
  <1>3. o' \in Flags /\ o'.failed /\ (o'.runtime_bound <=> o.runtime_bound)
    BY <1>1, <1>2 DEF Flags
  <1>4. EnvInv'
    BY <1>1, <1>3, RestorableEnv DEF Restoring
  <1> QED
    BY <1>1, <1>2, <1>3, <1>4, RollingBackInv DEF RollingBack, Restoring

LEMMA FailStopStep ==
  ASSUME CutInv, FailStopServing
  PROVE  CutInv' /\ (UNCHANGED <<serving, marker>> \/ (marker /\ marker'))
  <1>1. /\ UNCHANGED <<marker, attempt, setup, o, current, env, unit, adapter>>
        /\ pc = "f_stop" /\ pc' = "f_pointer"
    BY DEF FailStopServing, publisherVars, vfoswindVars, bindingVars
  <1>2. /\ serving \in [up : BOOLEAN, release : Ids, db : Ids] /\ hold \in BOOLEAN
        /\ current \in Ids \cup {None} /\ unit \in [file : Roots, loaded : Roots] /\ env \in Ids
        /\ lc \in Lifecycles /\ o \in Flags /\ adapter \in Adapters /\ o.failed
        /\ adapter.previous_environment \in {0, None}
    BY <1>1, RollingBackTypes DEF RollingBack, Restoring
  <1>3. EnvInv'
    BY <1>1, RestorableEnv DEF Restoring
  <1>4. CASE UNCHANGED <<serving, lc, hold>>
    BY <1>1, <1>2, <1>3, <1>4, RollingBackInv DEF RollingBack, Restoring
  <1>5. CASE lc.serving_api_started /\ \E ok \in BOOLEAN : StopServingApi(ok) /\ Logged(ok)
    <2>1. PICK ok \in BOOLEAN : StopServingApi(ok) /\ Logged(ok)
      BY <1>5
    <2>2. PICK up \in BOOLEAN : serving' = [serving EXCEPT !.up = up]
      BY <1>2, <2>1 DEF StopServingApi, StopServing
    <2>3. lc' = [lc EXCEPT !.serving_api_started = ~ok] /\ hold' = (hold \/ ~ok)
      BY <2>1 DEF StopServingApi, Logged
    <2>4. /\ serving' \in [up : BOOLEAN, release : Ids, db : Ids]
          /\ serving'.release = serving.release /\ serving'.db = serving.db
      BY <1>2, <2>2
    <2>5. /\ lc' \in Lifecycles /\ (lc'.active <=> lc.active)
          /\ (lc'.current_api_stopped <=> lc.current_api_stopped)
      BY <1>2, <2>3 DEF Lifecycles
    <2>6. hold' \in BOOLEAN /\ (hold => hold')
      BY <1>2, <2>3
    <2>7. marker
      BY <1>1, <1>5 DEF CutInv, StartedInv, FreezeInv, Ended
    <2> QED
      BY <1>1, <1>2, <1>3, <1>5, <2>4, <2>5, <2>6, <2>7, RollingBackInv DEF RollingBack, Restoring
  <1> QED
    BY <1>4, <1>5, OutcomesAre DEF FailStopServing

LEMMA FailPointerStep ==
  ASSUME CutInv, FailRollback \/ FailRestoreBindings \/ FailReloadBindings
  PROVE  CutInv' /\ UNCHANGED <<serving, marker>>
  <1>1. /\ UNCHANGED <<serving, marker, attempt, setup, lc, env>>
        /\ pc \in {"f_pointer", "f_bindings", "f_bindings_reload"}
        /\ pc' \in {"f_bindings", "f_bindings_reload", "f_database"}
    BY DEF FailRollback, FailRestoreBindings, FailReloadBindings, RestoreReleaseBindings, DaemonReload,
           procVars, vfoswindVars, bindingVars, lifecycleVars
  <1>2. /\ serving \in [up : BOOLEAN, release : Ids, db : Ids] /\ hold \in BOOLEAN
        /\ current \in Ids \cup {None} /\ unit \in [file : Roots, loaded : Roots] /\ env \in Ids
        /\ lc \in Lifecycles /\ o \in Flags /\ adapter \in Adapters /\ o.failed
        /\ adapter.previous_environment \in {0, None}
    BY <1>1, RollingBackTypes DEF RollingBack, Restoring
  <1>3. hold' \in BOOLEAN /\ (hold => hold')
    BY <1>2 DEF FailRollback, FailRestoreBindings, FailReloadBindings, Logged
  <1>4. CASE FailRollback
    <2>1. UNCHANGED <<unit, adapter, o>> /\ current' \in Ids \cup {None}
      BY <1>2, <1>4, IdFacts DEF FailRollback, Rollback, SwitchCurrent, publisherVars, vfoswindVars,
                                 bindingVars
    <2>2. EnvInv'
      BY <1>1, <2>1, RestorableEnv DEF Restoring
    <2> QED
      BY <1>1, <1>2, <1>3, <2>1, <2>2, RollingBackInv DEF RollingBack, Restoring
  <1>5. CASE FailRestoreBindings
    <2>1. UNCHANGED <<current, o>>
      BY <1>5 DEF FailRestoreBindings, publisherVars
    <2>2. \/ UNCHANGED <<unit, adapter>>
          \/ /\ unit' = [unit EXCEPT !.file = "flat"]
             /\ \/ adapter' = adapter
                \/ adapter' = [adapter EXCEPT !.release_bindings_changed = FALSE]
      BY <1>5 DEF FailRestoreBindings, RestoreReleaseBindings, vfoswindVars, bindingVars
    <2>3. /\ unit' \in [file : Roots, loaded : Roots] /\ adapter' \in Adapters
          /\ adapter'.previous_environment = adapter.previous_environment
      BY <1>2, <2>2 DEF Roots, Adapters
    <2>4. EnvInv'
      BY <1>1, <2>1, <2>3, RestorableEnv DEF Restoring
    <2> QED
      BY <1>1, <1>2, <1>3, <2>1, <2>3, <2>4, RollingBackInv DEF RollingBack, Restoring
  <1>6. CASE FailReloadBindings
    <2>1. PICK ok \in BOOLEAN : DaemonReload(ok) /\ o' = [o EXCEPT !.release_bindings_changed = ~ok]
      BY <1>6, OutcomesAre DEF FailReloadBindings
    <2>2. UNCHANGED <<current, adapter>> /\ unit' \in [file : Roots, loaded : Roots]
      BY <1>2, <1>6, <2>1 DEF FailReloadBindings, DaemonReload, publisherVars
    <2>3. o' \in Flags /\ o'.failed /\ (o'.runtime_bound <=> o.runtime_bound)
      BY <1>2, <2>1 DEF Flags
    <2>4. EnvInv'
      BY <1>1, <2>2, <2>3, RestorableEnv DEF Restoring
    <2> QED
      BY <1>1, <1>2, <1>3, <2>2, <2>3, <2>4, RollingBackInv DEF RollingBack, Restoring
  <1> QED
    BY <1>1, <1>4, <1>5, <1>6

(* The EnvironmentFile is back before anything is started. *)
LEMMA FailDatabaseStep ==
  ASSUME "restore_database" \notin Fallible, CutInv, FailRestoreDatabase \/ FailReloadDatabase
  PROVE  CutInv' /\ UNCHANGED <<serving, marker>>
  <1>1. /\ UNCHANGED <<serving, marker, attempt, setup, lc, current>>
        /\ pc \in {"f_database", "f_database_reload"}
        /\ pc' \in {"f_database_reload", "f_abort"}
    BY DEF FailRestoreDatabase, FailReloadDatabase, procVars, publisherVars, lifecycleVars
  <1>2. /\ serving \in [up : BOOLEAN, release : Ids, db : Ids] /\ hold \in BOOLEAN
        /\ current \in Ids \cup {None} /\ unit \in [file : Roots, loaded : Roots] /\ env \in Ids
        /\ lc \in Lifecycles /\ o \in Flags /\ adapter \in Adapters /\ o.failed
        /\ adapter.previous_environment \in {0, None}
    BY <1>1, RollingBackTypes DEF RollingBack, Restoring
  <1>3. hold' \in BOOLEAN /\ (hold => hold')
    BY <1>2 DEF FailRestoreDatabase, FailReloadDatabase, Logged
  <1>4. CASE FailRestoreDatabase
    <2>1. UNCHANGED <<unit, o>>
      BY <1>4 DEF FailRestoreDatabase, RestoreDatabaseBinding, vfoswindVars, bindingVars
    <2>2. env # 0 => o.runtime_bound /\ adapter.previous_environment = 0
      BY <1>1, <1>4 DEF FailRestoreDatabase, CutInv, EnvInv, Ended, PreControls
    <2>3. 0 # None
      BY IdFacts
    <2>4. /\ env' = 0
          /\ adapter' = adapter \/ adapter' = [adapter EXCEPT !.runtime_bound = FALSE]
      BY <1>2, <1>4, <2>2, <2>3 DEF FailRestoreDatabase, RestoreDatabaseBinding, Outcomes,
                                    vfoswindVars, bindingVars
    <2>5. adapter' \in Adapters /\ adapter'.previous_environment = adapter.previous_environment
      BY <1>2, <2>4 DEF Adapters
    <2>6. EnvInv' /\ env' \in Ids
      BY <2>4, IdFacts DEF EnvInv
    <2> QED
      BY <1>1, <1>2, <1>3, <2>1, <2>5, <2>6, RollingBackInv DEF RollingBack, Restoring
  <1>5. CASE FailReloadDatabase
    <2>1. PICK ok \in BOOLEAN : DaemonReload(ok) /\ o' = [o EXCEPT !.runtime_bound = ~ok]
      BY <1>5, OutcomesAre DEF FailReloadDatabase
    <2>2. UNCHANGED <<env, adapter>> /\ unit' \in [file : Roots, loaded : Roots]
      BY <1>2, <2>1 DEF DaemonReload
    <2>3. o' \in Flags /\ o'.failed
      BY <1>2, <2>1 DEF Flags
    <2>4. env = 0
      BY <1>5 DEF FailReloadDatabase, CutInv, EnvInv, Ended, PreControls, Started, Restoring
    <2>5. EnvInv'
      BY <2>2, <2>4 DEF EnvInv
    <2> QED
      BY <1>1, <1>2, <1>3, <2>2, <2>3, <2>5, RollingBackInv DEF RollingBack, Restoring
  <1> QED
    BY <1>1, <1>4, <1>5

-----------------------------------------------------------------------------
(* abort, and what is left after it *)

(* Inside abort, and out of it. *)
LEMMA AbortInv ==
  ASSUME HostTypes', OwnTypes', o'.failed, env' = 0, pc' \in AbortSteps,
         lc'.active, marker', adapter'.previous_environment \in {0, None},
         pc' \in {"a_stop", "a_start", "a_lift"} => lc'.current_api_stopped,
         pc' \in {"a_start", "a_lift"} => ~lc'.serving_api_started,
         lc'.serving_api_started => lc'.current_api_stopped,
         \/ serving'.release = serving'.db
         \/ pc' = "a_lift" /\ serving'.db = 0 /\ current' \notin {0, None},
         serving'.release # 0 /\ ~hold' => lc'.current_api_stopped
  PROVE  CutInv'
  <1>1. FreezeInv' /\ BoundInv'
    BY DEF FreezeInv, BoundInv, AbortSteps, Window, Freezing, Stopped, Started
  <1>2. pc' \notin PhaseB \cup {"freeze"} \cup Freezing \cup Stopped \cup TeardownSteps
    BY DEF AbortSteps, PhaseB, Freezing, Stopped, TeardownSteps, CheckSections,
           ProductionCheckSections, FixtureSections, CandidateSections, AuditSections,
           RollbackSections
  <1>3. StartedInv'
    BY <1>2 DEF StartedInv
  <1>4. MixedInv' /\ CandidateInv' /\ EnvInv'
    BY <1>2 DEF MixedInv, CandidateInv, EnvInv
  <1> QED
    BY <1>1, <1>3, <1>4 DEF CutInv

LEMMA AbortedInv ==
  ASSUME HostTypes', OwnTypes', o'.failed, env' = 0, pc' \in {"f_nginx", "f_teardown"},
         lc'.active => marker', adapter'.previous_environment \in {0, None},
         lc'.serving_api_started => lc'.current_api_stopped /\ lc'.active,
         \/ serving'.release = serving'.db
         \/ marker' /\ pc' = "f_teardown" /\ serving'.db = 0 /\ current' \notin {0, None},
         serving'.release = 0 \/ hold'
  PROVE  CutInv'
  <1>1. FreezeInv' /\ BoundInv'
    BY DEF FreezeInv, BoundInv, AbortSteps, Window, Freezing, Stopped, Started
  <1>2. pc' \notin PhaseB \cup {"freeze", "a_start", "a_lift"} \cup Freezing \cup Stopped \cup TeardownSteps
    BY DEF PhaseB, Freezing, Stopped, TeardownSteps, CheckSections, ProductionCheckSections,
           FixtureSections, CandidateSections, AuditSections, RollbackSections
  <1>3. StartedInv'
    BY <1>2 DEF StartedInv
  <1>4. MixedInv' /\ CandidateInv' /\ EnvInv'
    BY <1>2 DEF MixedInv, CandidateInv, EnvInv, Over
  <1> QED
    BY <1>1, <1>3, <1>4 DEF CutInv

(* Where abort stands. *)
LEMMA AbortFacts ==
  ASSUME CutInv, pc \in AbortSteps \cup {"f_abort"}
  PROVE  /\ HostTypes /\ OwnTypes /\ o.failed /\ env = 0
         /\ pc \in AbortSteps => lc.active /\ marker
         /\ adapter.previous_environment \in {0, None}
         /\ lc.active => marker
         /\ pc \in {"a_stop", "a_start", "a_lift"} => lc.current_api_stopped
         /\ pc \in {"a_start", "a_lift"} => ~lc.serving_api_started
         /\ lc.serving_api_started => lc.current_api_stopped /\ lc.active
         /\ pc # "a_lift" => serving.release = serving.db
         /\ serving.release # serving.db => serving.db = 0 /\ current \notin {0, None}
         /\ serving.release # 0 /\ ~hold => lc.current_api_stopped /\ lc.active
  <1>1. HostTypes /\ OwnTypes /\ o.failed /\ adapter.previous_environment \in {0, None}
    BY DEF CutInv, FreezeInv, BoundInv, AbortSteps
  <1>2. pc \notin Over \cup Gone \cup PreControls \cup Ended \cup Started \cup Restoring
                  \cup {"preflight_host", "reload", "activate", "record_open", "READY"}
    BY DEF AbortSteps, Over, Gone, PreControls, Ended, Started, Restoring, TeardownSteps
  <1>3. env = 0
    BY <1>2 DEF CutInv, EnvInv
  <1>4. /\ lc.active => marker
        /\ pc \in AbortSteps => lc.active
        /\ pc \in {"a_stop", "a_start", "a_lift"} => lc.current_api_stopped
    BY DEF CutInv, FreezeInv
  <1>5. /\ pc \in {"a_start", "a_lift"} => ~lc.serving_api_started
        /\ lc.serving_api_started => lc.current_api_stopped /\ lc.active
    BY <1>2 DEF CutInv, StartedInv
  <1>6. /\ pc # "a_lift" => serving.release = serving.db
        /\ serving.release # serving.db => serving.db = 0 /\ current \notin {0, None}
    BY <1>2 DEF CutInv, MixedInv
  <1>7. serving.release # 0 /\ ~hold => lc.current_api_stopped /\ lc.active
    BY <1>2 DEF CutInv, CandidateInv
  <1> QED
    BY <1>1, <1>3, <1>4, <1>5, <1>6, <1>7

LEMMA FailAbortStep ==
  ASSUME CutInv, FailAbort
  PROVE  CutInv' /\ UNCHANGED <<serving, marker, hold>>
  <1>1. /\ UNCHANGED <<serving, marker, hold, attempt, setup, lc, o, current, env, unit, adapter>>
        /\ pc = "f_abort"
        /\ pc' = IF ~lc.active THEN "f_teardown"
                 ELSE IF lc.traffic_opened THEN "a_refreeze" ELSE "a_current"
    BY DEF FailAbort, hostVars, procVars, publisherVars, vfoswindVars, bindingVars, lifecycleVars
  <1>2. /\ HostTypes /\ OwnTypes /\ o.failed /\ env = 0 /\ (lc.active => marker)
        /\ adapter.previous_environment \in {0, None}
        /\ lc.serving_api_started => lc.current_api_stopped /\ lc.active
        /\ serving.release = serving.db
        /\ serving.release # 0 /\ ~hold => lc.current_api_stopped /\ lc.active
    BY <1>1, AbortFacts
  <1>3. HostTypes' /\ OwnTypes'
    BY <1>1, <1>2 DEF HostTypes, OwnTypes
  <1>4. CASE lc.active
    <2>1. pc' \in {"a_refreeze", "a_current"}
      BY <1>1, <1>4
    <2> QED
      BY <1>1, <1>2, <1>3, <1>4, <2>1, AbortInv DEF AbortSteps
  <1>5. CASE ~lc.active
    BY <1>1, <1>2, <1>3, <1>5, AbortedInv
  <1> QED
    BY <1>4, <1>5

LEMMA RefreezeStep ==
  ASSUME CutInv, Refreeze
  PROVE  CutInv' /\ UNCHANGED <<serving, marker>>
  <1>1. PICK ok \in BOOLEAN : AbortRefreeze(ok) /\ AbortTo(ok, "a_current")
    BY OutcomesAre DEF Refreeze
  <1>2. /\ UNCHANGED <<serving, marker, attempt, setup, o, current, env, unit, adapter>>
        /\ pc = "a_refreeze"
    BY DEF Refreeze, procVars, publisherVars, vfoswindVars, bindingVars
  <1>3. hold' = (hold \/ ~ok) /\ pc' = IF ok THEN "a_current" ELSE "f_teardown"
    BY <1>1 DEF AbortTo, Logged
  <1>4. /\ HostTypes /\ OwnTypes /\ o.failed /\ env = 0 /\ lc.active /\ marker
        /\ adapter.previous_environment \in {0, None}
        /\ lc.serving_api_started => lc.current_api_stopped
        /\ serving.release = serving.db
        /\ serving.release # 0 /\ ~hold => lc.current_api_stopped
    BY <1>2, AbortFacts DEF AbortSteps
  <1>5. lc \in Lifecycles
    BY <1>4 DEF OwnTypes
  <1>6. PICK b \in BOOLEAN : lc' = [lc EXCEPT !.traffic_opened = b]
    BY <1>1, <1>5 DEF AbortRefreeze, Lifecycles
  <1>7. /\ lc' \in Lifecycles /\ (lc'.active <=> lc.active)
        /\ (lc'.serving_api_started <=> lc.serving_api_started)
        /\ (lc'.current_api_stopped <=> lc.current_api_stopped)
    BY <1>5, <1>6 DEF Lifecycles
  <1>8. HostTypes' /\ OwnTypes'
    BY <1>2, <1>3, <1>4, <1>7 DEF HostTypes, OwnTypes
  <1>9. CASE ok
    BY <1>2, <1>3, <1>4, <1>7, <1>8, <1>9, AbortInv DEF AbortSteps
  <1>10. CASE ~ok
    BY <1>2, <1>3, <1>4, <1>7, <1>8, <1>10, AbortedInv
  <1> QED
    BY <1>2, <1>9, <1>10

(* The freeze is lifted over the old process only if nothing was stopped. *)
LEMMA PreserveStep ==
  ASSUME CutInv, PreserveCurrent
  PROVE  CutInv' /\ UNCHANGED serving /\ marker /\ serving.release = serving.db
  <1>1. /\ UNCHANGED <<serving, attempt, setup, o, current, env, unit, adapter>> /\ pc = "a_current"
    BY DEF PreserveCurrent, procVars, publisherVars, vfoswindVars, bindingVars
  <1>2. /\ HostTypes /\ OwnTypes /\ o.failed /\ env = 0 /\ lc.active /\ marker
        /\ adapter.previous_environment \in {0, None}
        /\ lc.serving_api_started => lc.current_api_stopped
        /\ serving.release = serving.db
        /\ serving.release # 0 /\ ~hold => lc.current_api_stopped
    BY <1>1, AbortFacts DEF AbortSteps
  <1>3. lc \in Lifecycles
    BY <1>2 DEF OwnTypes
  <1>4. CASE CurrentUntouched
    <2>1. PICK lifted \in BOOLEAN : AbortPreserve(lifted) /\ AbortTo(lifted, "f_nginx")
      BY <1>4, OutcomesAre DEF PreserveCurrent
    <2>2. hold' = (hold \/ ~lifted) /\ pc' = IF lifted THEN "f_nginx" ELSE "f_teardown"
      BY <2>1 DEF AbortTo, Logged
    <2>3. IF lifted THEN marker' = FALSE /\ lc' = [lc EXCEPT !.active = FALSE]
                    ELSE UNCHANGED <<marker, lc>>
      BY <2>1 DEF AbortPreserve
    <2>4. /\ lc' \in Lifecycles /\ ~lc'.serving_api_started /\ marker' \in BOOLEAN
          /\ lc'.active => marker'
      BY <1>2, <1>3, <1>4, <2>3 DEF Lifecycles, CurrentUntouched, HostTypes
    <2>5. HostTypes' /\ OwnTypes'
      BY <1>1, <1>2, <2>2, <2>4 DEF HostTypes, OwnTypes
    <2>6. serving.release = 0 \/ hold'
      BY <1>2, <1>4, <2>2 DEF CurrentUntouched
    <2> QED
      BY <1>1, <1>2, <2>2, <2>4, <2>5, <2>6, AbortedInv
  <1>5. CASE ~CurrentUntouched
    <2>1. pc' = "a_stop" /\ UNCHANGED <<marker, lc, hold>>
      BY <1>5 DEF PreserveCurrent
    <2>2. HostTypes' /\ OwnTypes'
      BY <1>1, <1>2, <2>1 DEF HostTypes, OwnTypes
    <2>3. lc.current_api_stopped
      BY <1>2, <1>5 DEF CurrentUntouched
    <2> QED
      BY <1>1, <1>2, <2>1, <2>2, <2>3, AbortInv DEF AbortSteps
  <1> QED
    BY <1>4, <1>5

LEMMA StopCandidateStep ==
  ASSUME CutInv, StopCandidate
  PROVE  CutInv' /\ marker /\ marker'
  <1>1. /\ UNCHANGED <<marker, attempt, setup, o, current, env, unit, adapter>> /\ pc = "a_stop"
    BY DEF StopCandidate, publisherVars, vfoswindVars, bindingVars
  <1>2. /\ HostTypes /\ OwnTypes /\ o.failed /\ env = 0 /\ lc.active /\ marker
        /\ adapter.previous_environment \in {0, None} /\ lc.current_api_stopped
        /\ serving.release = serving.db
    BY <1>1, AbortFacts DEF AbortSteps
  <1>3. lc \in Lifecycles /\ serving \in [up : BOOLEAN, release : Ids, db : Ids] /\ hold \in BOOLEAN
    BY <1>2 DEF OwnTypes, HostTypes
  <1>4. CASE lc.serving_api_started
    <2>1. PICK ok \in BOOLEAN : AbortStopServing(ok) /\ AbortTo(ok, "a_start")
      BY <1>4, OutcomesAre DEF StopCandidate
    <2>2. hold' = (hold \/ ~ok) /\ pc' = IF ok THEN "a_start" ELSE "f_teardown"
      BY <2>1 DEF AbortTo, Logged
    <2>3. lc' = [lc EXCEPT !.serving_api_started = ~ok]
      BY <2>1 DEF AbortStopServing, StopServingApi
    <2>4. PICK up \in BOOLEAN : serving' = [serving EXCEPT !.up = up]
      BY <1>3, <2>1 DEF AbortStopServing, StopServingApi, StopServing
    <2>5. /\ serving' \in [up : BOOLEAN, release : Ids, db : Ids]
          /\ serving'.release = serving.release /\ serving'.db = serving.db
      BY <1>3, <2>4
    <2>6. /\ lc' \in Lifecycles /\ lc'.active /\ lc'.current_api_stopped
          /\ lc'.serving_api_started <=> ~ok
      BY <1>2, <1>3, <2>3 DEF Lifecycles
    <2>7. HostTypes' /\ OwnTypes'
      BY <1>1, <1>2, <1>3, <2>2, <2>5, <2>6 DEF HostTypes, OwnTypes
    <2>8. CASE ok
      BY <1>1, <1>2, <2>2, <2>5, <2>6, <2>7, <2>8, AbortInv DEF AbortSteps
    <2>9. CASE ~ok
      BY <1>1, <1>2, <2>2, <2>5, <2>6, <2>7, <2>9, AbortedInv
    <2> QED
      BY <1>1, <1>2, <2>8, <2>9
  <1>5. CASE ~lc.serving_api_started
    <2>1. pc' = "a_start" /\ UNCHANGED <<serving, lc, hold>>
      BY <1>5 DEF StopCandidate
    <2>2. HostTypes' /\ OwnTypes'
      BY <1>1, <1>2, <2>1 DEF HostTypes, OwnTypes
    <2> QED
      BY <1>1, <1>2, <1>5, <2>1, <2>2, AbortInv DEF AbortSteps
  <1> QED
    BY <1>4, <1>5

(* What is started is the previous release on its database, or a candidate *)
(* that CURRENT still names, on the previous database.                     *)
LEMMA StartPreviousStep ==
  ASSUME CutInv, StartPrevious
  PROVE  CutInv' /\ marker /\ marker'
  <1>1. PICK ok \in BOOLEAN : AbortStartPrevious(ok) /\ AbortTo(ok, "a_lift")
    BY OutcomesAre DEF StartPrevious
  <1>2. /\ UNCHANGED <<marker, attempt, setup, lc, o, current, env, unit, adapter>> /\ pc = "a_start"
    BY DEF StartPrevious, publisherVars, vfoswindVars, bindingVars, lifecycleVars
  <1>3. hold' = (hold \/ ~ok) /\ pc' = IF ok THEN "a_lift" ELSE "f_teardown"
    BY <1>1 DEF AbortTo, Logged
  <1>4. /\ HostTypes /\ OwnTypes /\ o.failed /\ env = 0 /\ lc.active /\ marker
        /\ adapter.previous_environment \in {0, None} /\ lc.current_api_stopped
        /\ ~lc.serving_api_started
    BY <1>2, AbortFacts DEF AbortSteps
  <1>5. /\ ReleaseAt(unit.loaded) \in Ids
        /\ ReleaseAt(unit.loaded) # 0 => current \notin {0, None}
    BY <1>4, IdFacts DEF ReleaseAt, HostTypes
  <1>6. PICK up \in BOOLEAN, r \in Ids : /\ serving' = [up |-> up, release |-> r, db |-> 0]
                                         /\ r # 0 => current \notin {0, None}
    BY <1>1, <1>4, <1>5, IdFacts DEF AbortStartPrevious, RunStart, RestartService, StartServing
  <1>7. /\ serving' \in [up : BOOLEAN, release : Ids, db : Ids]
        /\ serving'.release = r /\ serving'.db = 0
    BY <1>6, IdFacts
  <1>8. HostTypes' /\ OwnTypes'
    BY <1>2, <1>3, <1>4, <1>7 DEF HostTypes, OwnTypes
  <1>9. CASE ok
    BY <1>2, <1>3, <1>4, <1>6, <1>7, <1>8, <1>9, AbortInv DEF AbortSteps
  <1>10. CASE ~ok
    BY <1>2, <1>3, <1>4, <1>6, <1>7, <1>8, <1>10, AbortedInv
  <1> QED
    BY <1>2, <1>4, <1>9, <1>10

(* The answer of the previous release shows that nothing is mixed: a        *)
(* release on the database of the other is a candidate.                     *)
LEMMA LiftStep ==
  ASSUME CutInv, LiftFreeze
  PROVE  /\ CutInv' /\ UNCHANGED serving /\ marker
         /\ UNCHANGED marker \/ serving.release = serving.db
  <1>1. /\ UNCHANGED <<serving, attempt, setup, o, current, env, unit, adapter>> /\ pc = "a_lift"
        /\ AbortLift /\ AbortTo(PreviousVerified, "f_nginx")
    BY DEF LiftFreeze, procVars, publisherVars, vfoswindVars, bindingVars
  <1>2. /\ HostTypes /\ OwnTypes /\ o.failed /\ env = 0 /\ lc.active /\ marker
        /\ adapter.previous_environment \in {0, None} /\ lc.current_api_stopped
        /\ ~lc.serving_api_started
        /\ serving.release # serving.db => serving.db = 0 /\ current \notin {0, None}
    BY <1>1, AbortFacts DEF AbortSteps
  <1>3. lc \in Lifecycles /\ hold \in BOOLEAN
    BY <1>2 DEF OwnTypes, HostTypes
  <1>4. CASE PreviousVerified
    <2>1. marker' = FALSE /\ lc' = [lc EXCEPT !.active = FALSE]
      BY <1>1, <1>4 DEF AbortLift
    <2>2. hold' = hold /\ pc' = "f_nginx"
      BY <1>1, <1>3, <1>4 DEF AbortTo, Logged
    <2>3. serving.release = 0 /\ serving.release = serving.db
      BY <1>2, <1>4 DEF PreviousVerified
    <2>4. lc' \in Lifecycles /\ ~lc'.active /\ ~lc'.serving_api_started
      BY <1>2, <1>3, <2>1 DEF Lifecycles
    <2>5. HostTypes' /\ OwnTypes'
      BY <1>1, <1>2, <2>1, <2>2, <2>4 DEF HostTypes, OwnTypes
    <2> QED
      BY <1>1, <1>2, <2>1, <2>2, <2>3, <2>4, <2>5, AbortedInv
  <1>5. CASE ~PreviousVerified
    <2>1. UNCHANGED <<marker, lc>>
      BY <1>1, <1>5 DEF AbortLift
    <2>2. hold' = TRUE /\ pc' = "f_teardown"
      BY <1>1, <1>3, <1>5 DEF AbortTo, Logged
    <2>3. HostTypes' /\ OwnTypes'
      BY <1>1, <1>2, <2>1, <2>2 DEF HostTypes, OwnTypes
    <2> QED
      BY <1>1, <1>2, <2>1, <2>2, <2>3, AbortedInv
  <1> QED
    BY <1>4, <1>5

LEMMA CleanupStep ==
  ASSUME CutInv, FailReloadNginx \/ FailTeardown \/ FailCleanup
  PROVE  CutInv' /\ UNCHANGED <<serving, marker>>
  <1>1. /\ UNCHANGED <<serving, marker, attempt, setup, lc, o, current, env, unit, adapter>>
        /\ pc \in {"f_nginx", "f_teardown", "f_cleanup"}
        /\ pc' \in {"f_teardown", "t_stop", "f_cleanup", "failed"}
    BY DEF FailReloadNginx, FailTeardown, FailCleanup, ReloadNginx, hostVars, procVars, publisherVars,
           vfoswindVars, bindingVars, lifecycleVars
  <1>2. hold \in BOOLEAN
    BY DEF CutInv, HostTypes
  <1>3. hold' \in BOOLEAN /\ (hold => hold')
    BY <1>2 DEF FailReloadNginx, FailTeardown, FailCleanup, Logged
  <1>4. o.failed
    BY <1>1 DEF CutInv, FreezeInv
  <1>5. Holding
    BY <1>1, <1>3 DEF CutInv, HostTypes, OwnTypes, Holding, SameOwn
  <1> QED
    BY <1>1, <1>4, <1>5, OverStep DEF Over, TeardownSteps

-----------------------------------------------------------------------------
(* Crashes, further attempts and users *)

LEMMA CrashStep ==
  ASSUME CutInv, Crash
  PROVE  CutInv' /\ UNCHANGED <<serving, marker>>
  <1>1. /\ UNCHANGED <<serving, marker, attempt, setup, lc, o, current, env, unit, adapter>>
        /\ pc' = "crashed" /\ hold' = TRUE
    BY DEF Crash, procVars, publisherVars, vfoswindVars, bindingVars, lifecycleVars
  <1>2. HostTypes' /\ OwnTypes'
    BY <1>1 DEF CutInv, HostTypes, OwnTypes
  <1>3. FreezeInv' /\ BoundInv'
    BY <1>1 DEF CutInv, FreezeInv, BoundInv, Window, Freezing, Stopped, Started, AbortSteps
  <1>4. StartedInv'
    BY <1>1 DEF CutInv, StartedInv, PhaseB, Freezing, Stopped, TeardownSteps, Ended, CheckSections,
                ProductionCheckSections, FixtureSections, CandidateSections, AuditSections,
                RollbackSections
  <1>5. MixedInv' /\ CandidateInv'
    BY <1>1 DEF CutInv, MixedInv, CandidateInv, Gone, TeardownSteps
  <1>6. EnvInv'
    BY <1>1 DEF CutInv, EnvInv, Production, Ended
  <1> QED
    BY <1>1, <1>2, <1>3, <1>4, <1>5, <1>6 DEF CutInv

LEMMA NextAttemptStep ==
  ASSUME CutInv, NextAttempt
  PROVE  CutInv' /\ UNCHANGED <<serving, marker, hold>>
  <1>1. /\ UNCHANGED <<serving, marker, hold, setup, current, env, unit>>
        /\ pc \in Gone /\ pc' = "preflight" /\ attempt' = attempt + 1 /\ attempt < MaxAttempts
        /\ o' = NewFlags /\ lc' = NewLifecycle /\ adapter' = NewAdapter
    BY DEF NextAttempt, hostVars, procVars, publisherVars, bindingVars, Ended, Gone
  <1>2. attempt' \in Attempts
    BY <1>1, AttemptsAssumption DEF CutInv, HostTypes, Attempts
  <1>3. HostTypes'
    BY <1>1, <1>2 DEF CutInv, HostTypes
  <1>4. OwnTypes'
    BY <1>1 DEF OwnTypes, NewFlags, NewLifecycle, NewAdapter, Lifecycles, Flags, Adapters
  <1>5. ~lc'.active /\ ~lc'.serving_api_started /\ adapter'.previous_environment = None
    BY <1>1 DEF NewLifecycle, NewAdapter
  <1>6. FreezeInv' /\ BoundInv' /\ StartedInv'
    BY <1>1, <1>5 DEF FreezeInv, BoundInv, StartedInv, Window, Freezing, Stopped, Started, AbortSteps
  <1>7. MixedInv'
    BY <1>1 DEF CutInv, MixedInv, PreControls, TeardownSteps
  <1>8. serving.release = 0 \/ hold
    BY <1>1 DEF CutInv, CandidateInv, Gone, Started, Restoring, AbortSteps
  <1>9. CandidateInv'
    BY <1>1, <1>8 DEF CandidateInv
  <1>10. EnvInv'
    BY <1>1 DEF CutInv, EnvInv, Production, PreControls
  <1> QED
    BY <1>1, <1>3, <1>4, <1>6, <1>7, <1>9, <1>10 DEF CutInv

(* Users change what the databases hold, and nothing else. *)
LEMMA UsersStep ==
  ASSUME CutInv, UsersAct \/ UNCHANGED vars
  PROVE  CutInv' /\ UNCHANGED <<serving, marker, hold>>
  <1>1. UNCHANGED <<serving, marker, hold, attempt, setup, lc, o, current, env, unit, adapter, pc>>
    BY DEF UsersAct, Users, AdmitWrite, CommitWrite, FinishJob, vars, hostVars, procVars,
           publisherVars, vfoswindVars, bindingVars, lifecycleVars, controlVars
  <1>2. HostTypes' /\ OwnTypes' /\ FreezeInv' /\ StartedInv' /\ MixedInv'
    BY <1>1 DEF CutInv, HostTypes, OwnTypes, FreezeInv, StartedInv, MixedInv
  <1>3. CandidateInv' /\ EnvInv' /\ BoundInv'
    BY <1>1 DEF CutInv, CandidateInv, EnvInv, BoundInv, Production
  <1> QED
    BY <1>1, <1>2, <1>3 DEF CutInv

-----------------------------------------------------------------------------
(* The promise *)

(* What a step may do to users. *)
Keeps ==
    \/ UNCHANGED <<serving, marker>>
    \/ marker /\ marker'
    \/ UNCHANGED serving /\ marker' = TRUE /\ (serving.release = 0 \/ hold)
    \/ UNCHANGED serving /\ marker /\ serving.release = serving.db

LEMMA PreparationKeeps ==
  ASSUME CutInv, PhaseAB \/ Tearing
  PROVE  CutInv' /\ Keeps
  <1>1. Steady
    BY PhaseASteady, ControlsSteady, PreparationSteady, BindingSteady, CheckSteady, CheckPlaces,
       TearingSteady DEF PhaseAB, Checking
  <1> QED
    BY <1>1, PhaseABStep, TearingStep DEF Steady, SameHost, Keeps

LEMMA FreezeKeeps ==
  ASSUME CutInv, \/ ValidatePreCutoverReady \/ Confirm \/ FreezeWrites \/ FreezeTraffic \/ FreezeAborts
                 \/ Drain \/ ReconfirmCutoverIdentity \/ StopCurrent
  PROVE  CutInv' /\ Keeps
  <1>1. CutInv'
    BY GateStep, FreezeStep
  <1>2. CASE \/ ValidatePreCutoverReady \/ Confirm \/ FreezeTraffic \/ Drain
             \/ ReconfirmCutoverIdentity
    BY <1>1, <1>2 DEF ValidatePreCutoverReady, Confirm, FreezeTraffic, Drain,
                      ReconfirmCutoverIdentity, hostVars, procVars, Keeps
  <1>3. CASE FreezeWrites
    <2>1. pc \in Preparing /\ UNCHANGED serving /\ marker' = TRUE
      BY <1>3 DEF FreezeWrites, Freeze, procVars, Preparing
    <2>2. serving.release = 0 \/ hold
      BY <2>1, CalmPlaces DEF Calm
    <2> QED
      BY <1>1, <2>1, <2>2 DEF Keeps
  <1>4. CASE FreezeAborts \/ StopCurrent
    <2>1. pc \in Freezing /\ (FreezeAborts => UNCHANGED serving) /\ (StopCurrent => UNCHANGED marker)
      BY <1>4 DEF FreezeAborts, StopCurrent, procVars, Freezing
    <2>2. marker /\ serving.release = serving.db
      BY <2>1, CalmPlaces DEF Calm, CutInv, FreezeInv, Window
    <2> QED
      BY <1>1, <1>4, <2>1, <2>2 DEF Keeps
  <1> QED
    BY <1>2, <1>3, <1>4

LEMMA CutoverKeeps ==
  ASSUME "record_open" \notin Fallible, CutInv, CuttingOver
  PROVE  CutInv' /\ Keeps
  <1>1. CASE \/ ValidatePreCutoverReady \/ Confirm \/ FreezeWrites \/ FreezeTraffic \/ FreezeAborts
             \/ Drain \/ ReconfirmCutoverIdentity \/ StopCurrent
    BY <1>1, FreezeKeeps
  <1>2. CASE EnsureFlatCurrentBaseline \/ Switch \/ BindRelease \/ BindDatabase \/ ReloadUnits
    <2>1. UNCHANGED <<serving, marker>>
      BY <1>2 DEF EnsureFlatCurrentBaseline, Switch, BindRelease, BindDatabase, ReloadUnits, procVars
    <2> QED
      BY <1>2, <2>1, SwitchStep, BindDatabaseStep, ReloadUnitsStep DEF Keeps
  <1>3. CASE ActivateServing
    BY <1>3, ActivateStep DEF Keeps
  <1>4. CASE ReloadGateway \/ VerifyReleaseEndpoint \/ ValidateFinalGate \/ Open
             \/ VerifyPostOpenServing \/ RecordOpen
    BY <1>4, ServingStep, RecordOpenStep DEF Steady, SameHost, Keeps
  <1>5. CASE Finalize
    BY <1>5, FinalizeStep DEF Keeps
  <1> QED
    BY <1>1, <1>2, <1>3, <1>4, <1>5 DEF CuttingOver

LEMMA FailingKeeps ==
  ASSUME "restore_database" \notin Fallible, CutInv, Failing
  PROVE  CutInv' /\ Keeps
  <1>1. CASE Fail \/ FailStopServing \/ FailRollback \/ FailRestoreBindings \/ FailReloadBindings
             \/ FailRestoreDatabase \/ FailReloadDatabase
    BY <1>1, FailStep, FailStopStep, FailPointerStep, FailDatabaseStep DEF Keeps
  <1>2. CASE FailAbort \/ Refreeze \/ PreserveCurrent \/ StopCandidate \/ StartPrevious \/ LiftFreeze
    BY <1>2, FailAbortStep, RefreezeStep, PreserveStep, StopCandidateStep, StartPreviousStep, LiftStep
       DEF Keeps
  <1>3. CASE FailReloadNginx \/ FailTeardown \/ FailCleanup
    BY <1>3, CleanupStep DEF Keeps
  <1> QED
    BY <1>1, <1>2, <1>3 DEF Failing

LEMMA NextKeeps ==
  ASSUME "record_open" \notin Fallible, "restore_database" \notin Fallible, CutInv, [Next]_vars
  PROVE  CutInv' /\ Keeps
  <1>1. CASE Orchestrate
    BY <1>1, PreparationKeeps, CutoverKeeps, FailingKeeps DEF Orchestrate
  <1>2. CASE Crash \/ NextAttempt \/ UsersAct \/ UNCHANGED vars
    BY <1>2, CrashStep, NextAttemptStep, UsersStep DEF Keeps
  <1> QED
    BY <1>1, <1>2 DEF Next

(* A hold is never taken back. *)
LEMMA HoldStays ==
  ASSUME hold \in BOOLEAN, [Next]_vars
  PROVE  hold' \in {hold, TRUE}
  <1>1. CASE PhaseAB \/ Tearing \/ UNCHANGED vars
    <2>1. CASE \/ ValidateIdentityAndTarget \/ PreflightSchema \/ ConfigureReleaseControls
               \/ PreflightIntegration \/ ScanResidue
      BY <2>1 DEF ValidateIdentityAndTarget, PreflightSchema, ConfigureReleaseControls,
                  PreflightIntegration, ScanResidue, PhaseAFrame
    <2>2. CASE \/ Backup \/ PrepareTarget \/ Migrate \/ PrepareRelease \/ BindGateway \/ BindValidation
               \/ ReloadValidation \/ StartValidationApi \/ ValidationRuntimePreflightFails
               \/ WaitCandidateValidationReady
      BY <2>2 DEF Backup, PrepareTarget, Migrate, PrepareRelease, BindGateway, BindValidation,
                  ReloadValidation, StartValidationApi, ValidationRuntimePreflightFails,
                  WaitCandidateValidationReady
    <2>3. CASE Checking
      BY <2>3, CheckPlaces DEF CheckFrame
    <2>4. CASE Tearing
      BY <2>4 DEF Tearing, StopValidationApi, TeardownSession, RestoreValidation,
                  ReloadAfterValidation, RestoreGateway
    <2> QED
      BY <1>1, <2>1, <2>2, <2>3, <2>4 DEF PhaseAB, Checking, vars, controlVars
  <1>2. CASE CuttingOver
    BY <1>2 DEF CuttingOver, ValidatePreCutoverReady, Confirm, FreezeWrites, FreezeTraffic,
                FreezeAborts, Drain, ReconfirmCutoverIdentity, StopCurrent,
                EnsureFlatCurrentBaseline, Switch, BindRelease, BindDatabase, ReloadUnits,
                ActivateServing, ReloadGateway, VerifyReleaseEndpoint, ValidateFinalGate, Open,
                VerifyPostOpenServing, Finalize, RecordOpen
  <1>3. CASE Failing
    BY <1>3 DEF Failing, Fail, FailStopServing, FailRollback, FailRestoreBindings,
                FailReloadBindings, FailRestoreDatabase, FailReloadDatabase, FailAbort, Refreeze,
                PreserveCurrent, StopCandidate, StartPrevious, LiftFreeze, FailReloadNginx,
                FailTeardown, FailCleanup, Logged, AbortTo
  <1>4. CASE Crash \/ NextAttempt \/ UsersAct
    BY <1>4 DEF Crash, NextAttempt, UsersAct, controlVars
  <1> QED
    BY <1>1, <1>2, <1>3, <1>4 DEF Next, Orchestrate

LEMMA KeepsPromise ==
  ASSUME CutInv, CutInv', Keeps, hold' \in {hold, TRUE}
  PROVE  Promise!Next
  <1>1. /\ serving \in [up : BOOLEAN, release : Ids, db : Ids] /\ marker \in BOOLEAN
        /\ serving' \in [up : BOOLEAN, release : Ids, db : Ids] /\ marker' \in BOOLEAN
    BY DEF CutInv, HostTypes
  <1>2. CASE UNCHANGED <<serving, marker>>
    BY <1>2 DEF Promise!Next, Accepting
  <1>3. CASE marker /\ marker'
    BY <1>1, <1>3 DEF Promise!Next, Promise!Exchange, Accepting
  <1>4. CASE UNCHANGED serving /\ marker' = TRUE /\ (serving.release = 0 \/ hold)
    BY <1>1, <1>4 DEF Promise!Next, Promise!Close, Accepting
  <1>5. CASE UNCHANGED serving /\ marker /\ serving.release = serving.db
    BY <1>1, <1>5 DEF Promise!Next, Promise!Open, Accepting
  <1> QED
    BY <1>2, <1>3, <1>4, <1>5 DEF Keeps

(* For any setups, writes and number of attempts and faults: an upgrade,     *)
(* its rollback and its crashes implement the cutover that users are         *)
(* promised, provided that the previous EnvironmentFile can be restored and  *)
(* the last record be written (README, Disagreements, on both).              *)
THEOREM Implements ==
  ASSUME "record_open" \notin Fallible, "restore_database" \notin Fallible
  PROVE  Spec => ImplementsCutover
  <1>1. Init => CutInv /\ Promise!Init
    BY CutBegins DEF Init, HostInit, Promise!Init, Accepting
  <1>2. CutInv /\ [Next]_vars => CutInv'
    BY NextKeeps
  <1>3. CutInv /\ CutInv' /\ [Next]_vars =>
          [Promise!Next]_<<Accepting, serving.release, serving.db, hold>>
    <2>1. CutInv => hold \in BOOLEAN
      BY DEF CutInv, HostTypes
    <2> QED
      BY <2>1, NextKeeps, HoldStays, KeepsPromise
  <1> QED
    BY <1>1, <1>2, <1>3, PTL DEF Spec, ImplementsCutover, Promise!Spec

-----------------------------------------------------------------------------
(* The evidence of the cutover *)

Gated == PreCutoverSections(Production) \ (RuntimeSections \cup {"browser_fixture_regression"})

(* The places of an attempt, after each of its records. *)
AfterRollback == TeardownSteps \cup {"gate"}
AfterSecurity == {"rollback_evidence"} \cup AfterRollback
AfterSidecar == {"security_audit"} \cup AfterSecurity
AfterMapping == {"sidecar_audit"} \cup AfterSidecar
AfterPerformance == {"path_mapping_audit"} \cup AfterMapping
AfterMutation == {"performance_benchmark"} \cup AfterPerformance
AfterBrowser == {"candidate_authenticated_mutation"} \cup AfterMutation
AfterTests == {"browser_fixture_regression", "candidate_browser_evidence"} \cup AfterBrowser
AfterBinding == {"start_validation", "wait_ready", "targeted_tests"} \cup AfterTests
AfterRelease == {"gateway", "bind_validation", "reload_validation"} \cup AfterBinding
AfterMigration == {"prepare"} \cup AfterRelease
AfterTarget == {"migrate"} \cup AfterMigration
AfterBackup == {"target"} \cup AfterTarget
AfterIntegration == {"residue", "backup"} \cup AfterBackup
AfterSchema == {"preflight_controls", "preflight_host"} \cup AfterIntegration
AfterIdentity == {"preflight_schema"} \cup AfterSchema

(* What the gate will look at has been recorded when an attempt is at place. *)
Due(s, place) ==
    \/ s \in SeparationSections /\ place \in AfterIdentity
    \/ s \in SchemaSections \cup ClassificationSections /\ place \in AfterSchema
    \/ s \in IntegrationSections /\ place \in AfterIntegration
    \/ s = "backup_evidence" /\ place \in AfterBackup
    \/ s = "disposable_target" /\ place \in AfterTarget
    \/ s \in {"data_hash_verification", "file_state_gate"} /\ place \in AfterMigration
    \/ s = "candidate_release_prepared" /\ place \in AfterRelease
    \/ s \in BindingSections /\ place \in AfterBinding
    \/ s = "targeted_tests" /\ place \in AfterTests
    \/ s = "candidate_browser_evidence" /\ place \in AfterBrowser
    \/ s = "candidate_authenticated_mutation" /\ place \in AfterMutation
    \/ s = "performance_benchmark" /\ place \in AfterPerformance
    \/ s = "path_mapping_audit" /\ place \in AfterMapping
    \/ s = "sidecar_audit" /\ place \in AfterSidecar
    \/ s = "security_audit" /\ place \in AfterSecurity
    \/ s \in RollbackSections /\ place \in AfterRollback
    \/ s \in SessionSections /\ place = "gate"

Fresh(s) == evidence[s] \in {0, attempt}

Rescue == (FailSteps \ {"fail"}) \cup AbortSteps
Torn == (TeardownSteps \ {"t_stop"}) \cup {"gate", "confirm"}

(* Whatever an attempt has come to, it has recorded itself, as passed or as *)
(* failed; the gate lets no failed record pass.                             *)
FreshInv ==
    /\ DOMAIN evidence = Sections
    /\ {"phase_d_entered", "teardown", "failed"} \subseteq DOMAIN o
    /\ ~o.failed => \A s \in Gated : Due(s, pc) => Fresh(s)
    /\ pc = "confirm" \/ o.phase_d_entered => \A s \in Gated : evidence[s] = attempt
    /\ pc \in Torn \/ o.phase_d_entered => o.teardown # None
    /\ pc \in PhaseB \cup TeardownSteps => ~o.phase_d_entered
    /\ pc \in PhaseB => ~o.failed
    /\ pc \in Rescue => o.failed

(* The places of Phase B, one by one. *)
LEMMA PhaseBPlaces ==
  PhaseB = {"preflight", "preflight_schema", "preflight_controls", "preflight_host", "residue",
            "backup", "target", "migrate", "prepare", "gateway", "bind_validation",
            "reload_validation", "start_validation", "wait_ready", "confirm", "gate",
            "targeted_tests", "browser_fixture_regression", "candidate_browser_evidence",
            "performance_benchmark", "path_mapping_audit", "sidecar_audit", "security_audit",
            "rollback_evidence", "candidate_authenticated_mutation"}
  BY DEF PhaseB, CheckSections, ProductionCheckSections, FixtureSections, CandidateSections,
         AuditSections, RollbackSections

LEMMA GatedSections == Gated \subseteq Sections
  <1> SUFFICES ASSUME NEW s \in Gated PROVE s \in Sections
    OBVIOUS
  <1>1. \/ s \in UNION {SeparationSections, SchemaSections, PreparationSections, RuntimeSections,
                       CheckSections, SessionSections}
        \/ s \in UNION {IntegrationSections, ClassificationSections, BindingSections,
                       ProductionCheckSections}
    BY DEF Gated, PreCutoverSections
  <1> QED
    BY <1>1 DEF Sections

(* What each step adds to the record: when an attempt moves on from p to q, *)
(* what is due at q and was not at p.                                        *)
LEMMA DueMoves ==
  ASSUME NEW s
  PROVE  /\ ~Due(s, "preflight")
         /\ Due(s, "preflight_schema") => s \in SeparationSections
         /\ Due(s, "preflight_controls") => \/ Due(s, "preflight_schema")
                                            \/ s \in SchemaSections \cup ClassificationSections
         /\ Due(s, "preflight_host") => Due(s, "preflight_controls")
         /\ Due(s, "residue") => Due(s, "preflight_controls") \/ s \in IntegrationSections
         /\ Due(s, "residue") => Due(s, "preflight_host") \/ s \in IntegrationSections
         /\ Due(s, "backup") => Due(s, "residue")
         /\ Due(s, "target") => Due(s, "backup") \/ s = "backup_evidence"
         /\ Due(s, "migrate") => Due(s, "target") \/ s = "disposable_target"
         /\ Due(s, "prepare") => \/ Due(s, "migrate")
                                 \/ s \in {"data_hash_verification", "file_state_gate"}
         /\ Due(s, "gateway") => Due(s, "prepare") \/ s = "candidate_release_prepared"
         /\ Due(s, "bind_validation") => Due(s, "gateway")
         /\ Due(s, "reload_validation") => Due(s, "bind_validation")
         /\ Due(s, "start_validation") => Due(s, "reload_validation") \/ s \in BindingSections
         /\ Due(s, "start_validation") => \/ Due(s, "prepare") \/ s = "candidate_release_prepared"
                                          \/ s \in BindingSections
  BY DEF Due, AfterIdentity, AfterSchema, AfterIntegration, AfterBackup, AfterTarget, AfterMigration,
         AfterRelease, AfterBinding, AfterTests, AfterBrowser, AfterMutation, AfterPerformance,
         AfterMapping, AfterSidecar, AfterSecurity, AfterRollback, TeardownSteps

LEMMA DueChecks ==
  ASSUME NEW s
  PROVE  /\ Due(s, "wait_ready") => Due(s, "start_validation")
         /\ Due(s, "targeted_tests") => Due(s, "wait_ready")
         /\ Due(s, "browser_fixture_regression") => Due(s, "targeted_tests") \/ s = "targeted_tests"
         /\ Due(s, "candidate_browser_evidence") => Due(s, "browser_fixture_regression")
         /\ Due(s, "candidate_authenticated_mutation") =>
              Due(s, "candidate_browser_evidence") \/ s = "candidate_browser_evidence"
         /\ Due(s, "performance_benchmark") =>
              \/ Due(s, "candidate_browser_evidence") \/ s = "candidate_browser_evidence"
              \/ s = "candidate_authenticated_mutation"
         /\ Due(s, "performance_benchmark") =>
              Due(s, "candidate_authenticated_mutation") \/ s = "candidate_authenticated_mutation"
         /\ Due(s, "path_mapping_audit") => Due(s, "performance_benchmark") \/ s = "performance_benchmark"
         /\ Due(s, "sidecar_audit") => Due(s, "path_mapping_audit") \/ s = "path_mapping_audit"
         /\ Due(s, "security_audit") => Due(s, "sidecar_audit") \/ s = "sidecar_audit"
         /\ Due(s, "rollback_evidence") => Due(s, "security_audit") \/ s = "security_audit"
  BY DEF Due, AfterIdentity, AfterSchema, AfterIntegration, AfterBackup, AfterTarget, AfterMigration,
         AfterRelease, AfterBinding, AfterTests, AfterBrowser, AfterMutation, AfterPerformance,
         AfterMapping, AfterSidecar, AfterSecurity, AfterRollback, TeardownSteps

LEMMA DueTeardown ==
  ASSUME NEW s
  PROVE  /\ \A t \in TeardownSteps : Due(s, t) => Due(s, "rollback_evidence") \/ s \in RollbackSections
         /\ \A t, u \in TeardownSteps : Due(s, t) <=> Due(s, u)
         /\ \A t \in TeardownSteps : Due(s, "gate") => Due(s, t) \/ s \in SessionSections
  BY DEF Due, AfterIdentity, AfterSchema, AfterIntegration, AfterBackup, AfterTarget, AfterMigration,
         AfterRelease, AfterBinding, AfterTests, AfterBrowser, AfterMutation, AfterPerformance,
         AfterMapping, AfterSidecar, AfterSecurity, AfterRollback, TeardownSteps

LEMMA DuePlaces ==
  ASSUME NEW s, NEW place, Due(s, place)
  PROVE  place \in (PhaseB \ {"confirm"}) \cup TeardownSteps
  BY PhaseBPlaces
     DEF Due, AfterIdentity, AfterSchema, AfterIntegration, AfterBackup, AfterTarget, AfterMigration,
         AfterRelease, AfterBinding, AfterTests, AfterBrowser, AfterMutation, AfterPerformance,
         AfterMapping, AfterSidecar, AfterSecurity, AfterRollback, TeardownSteps

Fields == {"phase_d_entered", "teardown", "failed"}
SameFlags ==
    /\ Fields \subseteq DOMAIN o'
    /\ o'.phase_d_entered = o.phase_d_entered /\ o'.teardown = o.teardown /\ o'.failed = o.failed
    /\ UNCHANGED <<attempt, setup>>

(* A step to where nothing is due. *)
LEMMA QuietStep ==
  ASSUME FreshInv, UNCHANGED <<attempt, setup>>, DOMAIN evidence' = Sections,
         Fields \subseteq DOMAIN o', pc' \notin PhaseB \cup TeardownSteps,
         pc' \in Rescue => o'.failed,
         o'.phase_d_entered =>
            /\ o.phase_d_entered \/ pc = "confirm"
            /\ o'.teardown = o.teardown
            /\ \A s \in Gated : evidence'[s] = evidence[s]
  PROVE  FreshInv'
  <1>1. Gated' = Gated
    BY DEF Gated, Production
  <1>2. \A s : ~Due(s, pc')
    BY DuePlaces
  <1>3. pc' \notin Torn /\ pc' # "confirm"
    BY PhaseBPlaces DEF Torn
  <1>4. o'.phase_d_entered => (\A s \in Gated' : evidence'[s] = attempt') /\ o'.teardown # None
    BY <1>1 DEF FreshInv, Torn
  <1> QED
    BY <1>2, <1>3, <1>4 DEF FreshInv, Fields

(* A step that records what is due after it. *)
LEMMA RecordStep ==
  ASSUME FreshInv, NEW p, NEW q, NEW R, pc = p, p \in PhaseB, SameFlags,
         DOMAIN evidence' = Sections,
         \/ pc' \in {"fail", "refused"}
         \/ /\ pc' = q /\ q \in (PhaseB \ {"confirm", "gate"}) \cup {"t_stop"}
            /\ \A s \in Gated : Due(s, q) => Due(s, p) \/ s \in R
            /\ \A s \in Gated : IF s \in R THEN evidence'[s] \in {0, attempt}
                                           ELSE evidence'[s] = evidence[s]
  PROVE  FreshInv'
  <1>1. ~o.phase_d_entered /\ ~o'.phase_d_entered /\ ~o.failed /\ ~o'.failed
    BY DEF FreshInv, SameFlags
  <1>2. CASE pc' \in {"fail", "refused"}
    <2>1. pc' \notin PhaseB \cup TeardownSteps /\ pc' \notin Rescue
      BY <1>2, PhaseBPlaces DEF TeardownSteps, Rescue, FailSteps, AbortSteps
    <2> QED
      BY <1>1, <2>1, QuietStep DEF SameFlags
  <1>3. CASE /\ pc' = q /\ q \in (PhaseB \ {"confirm", "gate"}) \cup {"t_stop"}
             /\ \A s \in Gated : Due(s, q) => Due(s, p) \/ s \in R
             /\ \A s \in Gated : IF s \in R THEN evidence'[s] \in {0, attempt}
                                            ELSE evidence'[s] = evidence[s]
    <2>1. Gated' = Gated
      BY DEF Gated, Production, SameFlags
    <2>2. \A s \in Gated : Due(s, pc') => evidence'[s] \in {0, attempt}
      BY <1>1, <1>3 DEF FreshInv, Fresh
    <2>3. pc' \notin Torn /\ pc' # "confirm" /\ pc' \notin Rescue
      BY <1>3, PhaseBPlaces DEF Torn, TeardownSteps, Rescue, FailSteps, AbortSteps
    <2>4. (\A s \in Gated : Due(s, pc) => Fresh(s))'
      BY <2>1, <2>2 DEF SameFlags, Fresh
    <2> QED
      BY <1>1, <2>3, <2>4 DEF FreshInv, SameFlags, Fields
  <1> QED
    BY <1>2, <1>3

LEMMA PreparationFlags ==
  ASSUME FreshInv, PhaseAB
  PROVE  SameFlags
  <1>1. Fields \subseteq DOMAIN o
    BY DEF FreshInv, Fields
  <1>2. UNCHANGED <<attempt, setup>>
    BY CheckPlaces DEF PhaseAB, Checking, ValidateIdentityAndTarget, PreflightSchema,
       ConfigureReleaseControls, PreflightIntegration, ScanResidue, PhaseAFrame, Backup, PrepareTarget,
       Migrate, PrepareRelease, BindGateway, BindValidation, ReloadValidation, StartValidationApi,
       ValidationRuntimePreflightFails, WaitCandidateValidationReady, CheckFrame, lifecycleVars
  <1>3. \/ o' = o \/ o' = [o EXCEPT !.layout = Layout] \/ \E b : o' = [o EXCEPT !.prepared = b]
    BY CheckPlaces DEF PhaseAB, Checking, ValidateIdentityAndTarget, PreflightSchema,
       ConfigureReleaseControls, PreflightIntegration, ScanResidue, PhaseAFrame, Backup, PrepareTarget,
       Migrate, PrepareRelease, BindGateway, BindValidation, ReloadValidation, StartValidationApi,
       ValidationRuntimePreflightFails, WaitCandidateValidationReady, CheckFrame
  <1>4. /\ Fields \subseteq DOMAIN o' /\ o'.phase_d_entered = o.phase_d_entered
        /\ o'.teardown = o.teardown /\ o'.failed = o.failed
    BY <1>1, <1>3 DEF Fields
  <1> QED
    BY <1>2, <1>4 DEF SameFlags

LEMMA RecordsFresh ==
  ASSUME FreshInv,
         ValidateIdentityAndTarget \/ Backup \/ PrepareTarget \/ Migrate \/ ReloadValidation \/
         TargetedTests \/ CandidateAuthenticatedMutation \/ ReleasePerformance \/ SidecarAudit \/
         SecurityAudit \/ RollbackEvidence
  PROVE  FreshInv'
  <1>1. SameFlags /\ DOMAIN evidence = Sections
    BY PreparationFlags DEF PhaseAB, FreshInv
  <1>2. CASE ValidateIdentityAndTarget
    <2>1. /\ pc = "preflight" /\ DOMAIN evidence' = Sections
          /\ \/ pc' \in {"fail", "refused"}
             \/ /\ pc' = "preflight_schema"
                /\ \A s \in Gated : IF s \in SeparationSections THEN evidence'[s] \in {0, attempt}
                                      ELSE evidence'[s] = evidence[s]
      BY <1>1, <1>2, GatedSections DEF ValidateIdentityAndTarget, Record, Refuse, PhaseAFrame
    <2>2. \A s \in Gated : Due(s, "preflight_schema") => Due(s, "preflight") \/ s \in SeparationSections
      BY DueMoves
    <2> QED
      BY <1>1, <2>1, <2>2, PhaseBPlaces, RecordStep
  <1>3. CASE Backup
    <2>1. /\ pc = "backup" /\ DOMAIN evidence' = Sections
          /\ \/ pc' \in {"fail", "refused"}
             \/ /\ pc' = "target"
                /\ \A s \in Gated : IF s \in {"backup_evidence"} THEN evidence'[s] \in {0, attempt}
                                      ELSE evidence'[s] = evidence[s]
      BY <1>1, <1>3, GatedSections DEF Backup, Record, Continue
    <2>2. \A s \in Gated : Due(s, "target") => Due(s, "backup") \/ s \in {"backup_evidence"}
      BY DueMoves
    <2> QED
      BY <1>1, <2>1, <2>2, PhaseBPlaces, RecordStep
  <1>4. CASE PrepareTarget
    <2>1. /\ pc = "target" /\ DOMAIN evidence' = Sections
          /\ \/ pc' \in {"fail", "refused"}
             \/ /\ pc' = "migrate"
                /\ \A s \in Gated : IF s \in {"disposable_target"} THEN evidence'[s] \in {0, attempt}
                                      ELSE evidence'[s] = evidence[s]
      BY <1>1, <1>4, GatedSections DEF PrepareTarget, Record, Continue
    <2>2. \A s \in Gated : Due(s, "migrate") => Due(s, "target") \/ s \in {"disposable_target"}
      BY DueMoves
    <2> QED
      BY <1>1, <2>1, <2>2, PhaseBPlaces, RecordStep
  <1>5. CASE Migrate
    <2>1. /\ pc = "migrate" /\ DOMAIN evidence' = Sections
          /\ \/ pc' \in {"fail", "refused"}
             \/ /\ pc' = "prepare"
                /\ \A s \in Gated : IF s \in {"data_hash_verification", "file_state_gate"} THEN evidence'[s] \in {0, attempt}
                                      ELSE evidence'[s] = evidence[s]
      BY <1>1, <1>5, GatedSections DEF Migrate, Record, Continue
    <2>2. \A s \in Gated : Due(s, "prepare") => Due(s, "migrate") \/ s \in {"data_hash_verification", "file_state_gate"}
      BY DueMoves
    <2> QED
      BY <1>1, <2>1, <2>2, PhaseBPlaces, RecordStep
  <1>6. CASE ReloadValidation
    <2>1. /\ pc = "reload_validation" /\ DOMAIN evidence' = Sections
          /\ \/ pc' \in {"fail", "refused"}
             \/ /\ pc' = "start_validation"
                /\ \A s \in Gated : IF s \in BindingSections THEN evidence'[s] \in {0, attempt}
                                      ELSE evidence'[s] = evidence[s]
      BY <1>1, <1>6, GatedSections DEF ReloadValidation, Record, Continue
    <2>2. \A s \in Gated : Due(s, "start_validation") => Due(s, "reload_validation") \/ s \in BindingSections
      BY DueMoves
    <2> QED
      BY <1>1, <2>1, <2>2, PhaseBPlaces, RecordStep
  <1>7. CASE TargetedTests
    <2>1. /\ pc = "targeted_tests" /\ DOMAIN evidence' = Sections
          /\ \/ pc' \in {"fail", "refused"}
             \/ /\ pc' = "browser_fixture_regression"
                /\ \A s \in Gated : IF s \in {"targeted_tests"} THEN evidence'[s] \in {0, attempt}
                                      ELSE evidence'[s] = evidence[s]
      BY <1>1, <1>7, GatedSections DEF TargetedTests, Record, Continue
    <2>2. \A s \in Gated : Due(s, "browser_fixture_regression") => Due(s, "targeted_tests") \/ s \in {"targeted_tests"}
      BY DueChecks
    <2> QED
      BY <1>1, <2>1, <2>2, PhaseBPlaces, RecordStep, ZenonT(60)
  <1>8. CASE CandidateAuthenticatedMutation
    <2>1. /\ pc = "candidate_authenticated_mutation" /\ DOMAIN evidence' = Sections
          /\ \/ pc' \in {"fail", "refused"}
             \/ /\ pc' = "performance_benchmark"
                /\ \A s \in Gated : IF s \in {"candidate_authenticated_mutation"} THEN evidence'[s] \in {0, attempt}
                                      ELSE evidence'[s] = evidence[s]
      BY <1>1, <1>8, GatedSections DEF CandidateAuthenticatedMutation, ReadSessionArtifact,
         ReadArtifact, Record, Continue, MutationIsExact
    <2>2. \A s \in Gated : Due(s, "performance_benchmark") => Due(s, "candidate_authenticated_mutation") \/ s \in {"candidate_authenticated_mutation"}
      BY DueChecks
    <2> QED
      BY <1>1, <2>1, <2>2, PhaseBPlaces, RecordStep
  <1>9. CASE ReleasePerformance
    <2>1. /\ pc = "performance_benchmark" /\ DOMAIN evidence' = Sections
          /\ \/ pc' \in {"fail", "refused"}
             \/ /\ pc' = "path_mapping_audit"
                /\ \A s \in Gated : IF s \in {"performance_benchmark"} THEN evidence'[s] \in {0, attempt}
                                      ELSE evidence'[s] = evidence[s]
      BY <1>1, <1>9, GatedSections DEF ReleasePerformance, ReadSessionArtifact, ReadArtifact,
         Record, Continue, PerformanceIsExact
    <2>2. \A s \in Gated : Due(s, "path_mapping_audit") => Due(s, "performance_benchmark") \/ s \in {"performance_benchmark"}
      BY DueChecks
    <2> QED
      BY <1>1, <2>1, <2>2, PhaseBPlaces, RecordStep, ZenonT(60)
  <1>10. CASE SidecarAudit
    <2>1. /\ pc = "sidecar_audit" /\ DOMAIN evidence' = Sections
          /\ \/ pc' \in {"fail", "refused"}
             \/ /\ pc' = "security_audit"
                /\ \A s \in Gated : IF s \in {"sidecar_audit"} THEN evidence'[s] \in {0, attempt}
                                      ELSE evidence'[s] = evidence[s]
      BY <1>1, <1>10, GatedSections DEF SidecarAudit, ReadArtifact, Record, Continue
    <2>2. \A s \in Gated : Due(s, "security_audit") => Due(s, "sidecar_audit") \/ s \in {"sidecar_audit"}
      BY DueChecks
    <2> QED
      BY <1>1, <2>1, <2>2, PhaseBPlaces, RecordStep
  <1>11. CASE SecurityAudit
    <2>1. /\ pc = "security_audit" /\ DOMAIN evidence' = Sections
          /\ \/ pc' \in {"fail", "refused"}
             \/ /\ pc' = "rollback_evidence"
                /\ \A s \in Gated : IF s \in {"security_audit"} THEN evidence'[s] \in {0, attempt}
                                      ELSE evidence'[s] = evidence[s]
      BY <1>1, <1>11, GatedSections DEF SecurityAudit, ReadArtifact, Record, Continue
    <2>2. \A s \in Gated : Due(s, "rollback_evidence") => Due(s, "security_audit") \/ s \in {"security_audit"}
      BY DueChecks
    <2> QED
      BY <1>1, <2>1, <2>2, PhaseBPlaces, RecordStep, ZenonT(60)
  <1>12. CASE RollbackEvidence
    <2>1. /\ pc = "rollback_evidence" /\ DOMAIN evidence' = Sections
          /\ \/ pc' \in {"fail", "refused"}
             \/ /\ pc' = "t_stop"
                /\ \A s \in Gated : IF s \in RollbackSections THEN evidence'[s] \in {0, attempt}
                                      ELSE evidence'[s] = evidence[s]
      BY <1>1, <1>12, GatedSections DEF RollbackEvidence, Record, RollbackIsExact,
         RollbackSections
    <2>2. \A s \in Gated : Due(s, "t_stop") => Due(s, "rollback_evidence") \/ s \in RollbackSections
      BY DueTeardown DEF TeardownSteps
    <2> QED
      BY <1>1, <2>1, <2>2, PhaseBPlaces, RecordStep
  <1> QED
    BY <1>2, <1>3, <1>4, <1>5, <1>6, <1>7, <1>8, <1>9, <1>10, <1>11, <1>12

(* Steps that record nothing the gate looks at, or whose record it need not be. *)
LEMMA PassStep ==
  ASSUME FreshInv, NEW p, NEW q, pc = p, p \in PhaseB, SameFlags, DOMAIN evidence' = Sections,
         \/ pc' \in {"fail", "refused"}
         \/ /\ pc' = q /\ q \in (PhaseB \ {"confirm", "gate"}) \cup {"t_stop"}
            /\ \A s \in Gated : Due(s, q) => Due(s, p)
            /\ \A s \in Gated : evidence'[s] = evidence[s]
  PROVE  FreshInv'
  <1>1. PICK R : R = {}
    OBVIOUS
  <1>2. \A s : s \notin R
    BY <1>1
  <1>3. \/ pc' \in {"fail", "refused"}
        \/ /\ pc' = q /\ q \in (PhaseB \ {"confirm", "gate"}) \cup {"t_stop"}
           /\ \A s \in Gated : Due(s, q) => Due(s, p) \/ s \in R
           /\ \A s \in Gated : IF s \in R THEN evidence'[s] \in {0, attempt}
                                          ELSE evidence'[s] = evidence[s]
    BY <1>2
  <1> QED
    BY <1>3, RecordStep

LEMMA OnlyProduction ==
  ASSUME ~Production, NEW s \in Gated
  PROVE  /\ s \notin IntegrationSections /\ s \notin ClassificationSections
         /\ s \notin BindingSections /\ s \notin ProductionCheckSections
  <1>1. s \in UNION {SeparationSections, SchemaSections, PreparationSections, RuntimeSections,
                     CheckSections, SessionSections}
    BY DEF Gated, PreCutoverSections
  <1> QED
    BY <1>1 DEF SeparationSections, SchemaSections, PreparationSections, RuntimeSections,
       CheckSections, SessionSections, FixtureSections, CandidateSections, AuditSections,
       RollbackSections, IntegrationSections, ClassificationSections, BindingSections,
       ProductionCheckSections

LEMMA PassesFresh ==
  ASSUME FreshInv,
         \/ ScanResidue \/ BindGateway \/ BindValidation \/ StartValidationApi
         \/ ValidationRuntimePreflightFails \/ WaitCandidateValidationReady \/ BrowserFixtureRegression
  PROVE  FreshInv'
  <1>1. SameFlags /\ DOMAIN evidence = Sections
    BY PreparationFlags DEF PhaseAB, FreshInv
  <1>2. CASE ScanResidue
    <2>1. pc = "residue" /\ UNCHANGED evidence /\ pc' \in {"backup", "refused"}
      BY <1>2 DEF ScanResidue, manifestVars
    <2>2. \A s \in Gated : Due(s, "backup") => Due(s, "residue")
      BY DueMoves
    <2> QED
      BY <1>1, <2>1, <2>2, PhaseBPlaces, PassStep
  <1>3. CASE BindGateway
    <2>1. pc = "gateway" /\ UNCHANGED evidence /\ pc' \in {"bind_validation", "fail"}
      BY <1>3 DEF BindGateway, Continue, manifestVars
    <2>2. \A s \in Gated : Due(s, "bind_validation") => Due(s, "gateway")
      BY DueMoves
    <2> QED
      BY <1>1, <2>1, <2>2, PhaseBPlaces, PassStep
  <1>4. CASE BindValidation
    <2>1. pc = "bind_validation" /\ UNCHANGED evidence /\ pc' \in {"reload_validation", "fail"}
      BY <1>4 DEF BindValidation, Continue, manifestVars
    <2>2. \A s \in Gated : Due(s, "reload_validation") => Due(s, "bind_validation")
      BY DueMoves
    <2> QED
      BY <1>1, <2>1, <2>2, PhaseBPlaces, PassStep
  <1>5. CASE StartValidationApi \/ ValidationRuntimePreflightFails
    <2>1. pc = "start_validation" /\ UNCHANGED evidence /\ pc' \in {"wait_ready", "fail"}
      BY <1>5 DEF StartValidationApi, ValidationRuntimePreflightFails, Continue, manifestVars
    <2>2. \A s \in Gated : Due(s, "wait_ready") => Due(s, "start_validation")
      BY DueChecks
    <2> QED
      BY <1>1, <2>1, <2>2, PhaseBPlaces, PassStep
  <1>6. CASE WaitCandidateValidationReady
    <2>1. \A s \in Gated : s \in Sections /\ s \notin RuntimeSections
      BY GatedSections DEF Gated
    <2>2. /\ pc = "wait_ready" /\ pc' \in {"targeted_tests", "fail"} /\ DOMAIN evidence' = Sections
          /\ \A s \in Gated : evidence'[s] = evidence[s]
      BY <1>1, <1>6, <2>1 DEF WaitCandidateValidationReady, Continue, Record
    <2>3. \A s \in Gated : Due(s, "targeted_tests") => Due(s, "wait_ready")
      BY DueChecks
    <2> QED
      BY <1>1, <2>2, <2>3, PhaseBPlaces, PassStep
  <1>7. CASE BrowserFixtureRegression
    <2>1. \A s \in Gated : s \in Sections /\ s # "browser_fixture_regression"
      BY GatedSections DEF Gated
    <2>2. /\ pc = "browser_fixture_regression" /\ pc' \in {"candidate_browser_evidence", "fail"}
          /\ DOMAIN evidence' = Sections /\ \A s \in Gated : evidence'[s] = evidence[s]
      BY <1>1, <1>7, <2>1 DEF BrowserFixtureRegression, ReadArtifact, Continue, Record
    <2>3. \A s \in Gated : Due(s, "candidate_browser_evidence") => Due(s, "browser_fixture_regression")
      BY DueChecks
    <2> QED
      BY <1>1, <2>2, <2>3, PhaseBPlaces, PassStep
  <1> QED
    BY <1>2, <1>3, <1>4, <1>5, <1>6, <1>7

(* Steps whose way or record depends on the mode. *)
LEMMA ModesFresh ==
  ASSUME FreshInv,
         \/ PreflightSchema \/ ConfigureReleaseControls \/ PreflightIntegration \/ PrepareRelease
         \/ CandidateBrowserEvidence \/ PathMappingAudit
  PROVE  FreshInv'
  <1>1. SameFlags /\ DOMAIN evidence = Sections
    BY PreparationFlags DEF PhaseAB, FreshInv
  <1>2. CASE PreflightSchema
    <2>1. /\ pc = "preflight_schema" /\ pc' = "preflight_controls"
          /\ RecordEach([s \in SchemaSections \cup ClassificationSections |->
                            IF s \in SchemaSections THEN attempt
                            ELSE ReleaseGateClassification("before_mutation")])
      BY <1>2 DEF PreflightSchema
    <2>2. SchemaSections \cup ClassificationSections \subseteq Sections
      BY DEF Sections
    <2>3. DOMAIN evidence' = Sections
      BY <1>1, <2>1, <2>2 DEF RecordEach
    <2>4. \A s \in Gated : IF s \in SchemaSections \cup ClassificationSections
                           THEN evidence'[s] \in {0, attempt} ELSE evidence'[s] = evidence[s]
      <3> SUFFICES ASSUME NEW s \in Gated
                   PROVE  IF s \in SchemaSections \cup ClassificationSections
                          THEN evidence'[s] \in {0, attempt} ELSE evidence'[s] = evidence[s]
        OBVIOUS
      <3>1. CASE s \in SchemaSections
        BY <1>1, <2>1, <2>2, <3>1 DEF RecordEach
      <3>2. CASE s \in ClassificationSections \ SchemaSections
        <4>1. Production
          BY <3>2, OnlyProduction
        <4> QED
          BY <1>1, <2>1, <2>2, <3>2, <4>1 DEF RecordEach, ReleaseGateClassification
      <3>3. CASE s \notin SchemaSections \cup ClassificationSections
        BY <1>1, <2>1, <3>3, GatedSections DEF RecordEach
      <3> QED
        BY <3>1, <3>2, <3>3
    <2>5. \A s \in Gated : Due(s, "preflight_controls") =>
             Due(s, "preflight_schema") \/ s \in SchemaSections \cup ClassificationSections
      BY DueMoves
    <2> QED
      BY <1>1, <2>1, <2>3, <2>4, <2>5, PhaseBPlaces, RecordStep
  <1>3. CASE ConfigureReleaseControls
    <2>1. /\ pc = "preflight_controls" /\ UNCHANGED evidence
          /\ pc' \in {"refused", "preflight_host", "residue"}
          /\ pc' = "residue" => ~Production
      BY <1>3 DEF ConfigureReleaseControls, Refuse, manifestVars
    <2>2. CASE pc' = "residue"
      <3>1. \A s \in Gated : Due(s, "residue") => Due(s, "preflight_controls")
        BY <2>1, <2>2, OnlyProduction, DueMoves
      <3> QED
        BY <1>1, <2>1, <2>2, <3>1, PhaseBPlaces, PassStep
    <2>3. CASE pc' # "residue"
      <3>1. \A s \in Gated : Due(s, "preflight_host") => Due(s, "preflight_controls")
        BY DueMoves
      <3> QED
        BY <1>1, <2>1, <2>3, <3>1, PhaseBPlaces, PassStep
    <2> QED
      BY <2>2, <2>3
  <1>4. CASE PreflightIntegration
    <2>1. /\ pc = "preflight_host" /\ DOMAIN evidence' = Sections
          /\ \/ pc' = "refused"
             \/ /\ pc' = "residue"
                /\ \A s \in Gated : IF s \in IntegrationSections THEN evidence'[s] \in {0, attempt}
                                    ELSE evidence'[s] = evidence[s]
      BY <1>1, <1>4, GatedSections DEF PreflightIntegration, Refuse, Record
    <2>2. \A s \in Gated : Due(s, "residue") => Due(s, "preflight_host") \/ s \in IntegrationSections
      BY DueMoves
    <2> QED
      BY <1>1, <2>1, <2>2, PhaseBPlaces, RecordStep
  <1>5. CASE PrepareRelease
    <2>1. /\ pc = "prepare" /\ DOMAIN evidence' = Sections
          /\ \/ pc' = "fail"
             \/ /\ pc' \in {"gateway", "start_validation"} /\ (pc' = "start_validation" => ~Production)
                /\ \A s \in Gated : IF s \in {"candidate_release_prepared"}
                                    THEN evidence'[s] \in {0, attempt}
                                    ELSE evidence'[s] = evidence[s]
      BY <1>1, <1>5, GatedSections DEF PrepareRelease, Continue, Record
    <2>2. CASE pc' = "start_validation"
      <3>1. \A s \in Gated : Due(s, "start_validation") =>
               Due(s, "prepare") \/ s \in {"candidate_release_prepared"}
        BY <2>1, <2>2, OnlyProduction, DueMoves
      <3>3. /\ pc = "prepare" /\ DOMAIN evidence' = Sections
            /\ pc' = "start_validation"
            /\ \A s \in Gated : IF s \in {"candidate_release_prepared"}
                                THEN evidence'[s] \in {0, attempt}
                                ELSE evidence'[s] = evidence[s]
        BY <2>1, <2>2
      <3> QED
        BY <1>1, <3>1, <3>3, PhaseBPlaces, RecordStep
    <2>3. CASE pc' # "start_validation"
      <3>1. \A s \in Gated : Due(s, "gateway") =>
               Due(s, "prepare") \/ s \in {"candidate_release_prepared"}
        BY DueMoves
      <3> QED
        BY <1>1, <2>1, <2>3, <3>1, PhaseBPlaces, RecordStep
    <2> QED
      BY <2>2, <2>3
  <1>6. CASE CandidateBrowserEvidence
    <2>1. /\ pc = "candidate_browser_evidence" /\ DOMAIN evidence' = Sections
          /\ \/ pc' = "fail"
             \/ /\ pc' \in {"candidate_authenticated_mutation", "performance_benchmark"}
                /\ pc' = "performance_benchmark" => ~Production
                /\ \A s \in Gated : IF s \in {"candidate_browser_evidence"}
                                    THEN evidence'[s] \in {0, attempt}
                                    ELSE evidence'[s] = evidence[s]
      BY <1>1, <1>6, GatedSections
         DEF CandidateBrowserEvidence, ReadSessionArtifact, ReadArtifact, Continue, Record, BrowserIsExact
    <2>2. CASE pc' = "performance_benchmark"
      <3>1. \A s \in Gated : s # "candidate_authenticated_mutation"
        BY <2>1, <2>2, OnlyProduction DEF ProductionCheckSections
      <3>2. \A s \in Gated : Due(s, "performance_benchmark") =>
               Due(s, "candidate_browser_evidence") \/ s \in {"candidate_browser_evidence"}
        BY <3>1, DueChecks
      <3>3. /\ pc = "candidate_browser_evidence" /\ DOMAIN evidence' = Sections
            /\ pc' = "performance_benchmark"
            /\ \A s \in Gated : IF s \in {"candidate_browser_evidence"}
                                THEN evidence'[s] \in {0, attempt}
                                ELSE evidence'[s] = evidence[s]
        BY <2>1, <2>2
      <3> QED
        BY <1>1, <3>2, <3>3, PhaseBPlaces, RecordStep
    <2>3. CASE pc' # "performance_benchmark"
      <3>1. \A s \in Gated : Due(s, "candidate_authenticated_mutation") =>
               Due(s, "candidate_browser_evidence") \/ s \in {"candidate_browser_evidence"}
        BY DueChecks
      <3> QED
        BY <1>1, <2>1, <2>3, <3>1, PhaseBPlaces, RecordStep
    <2> QED
      BY <2>2, <2>3
  <1>7. CASE PathMappingAudit
    <2> DEFINE R == {"path_mapping_audit"} \cup ClassificationSections
    <2>1. /\ pc = "path_mapping_audit" /\ pc' \in {"sidecar_audit", "fail"}
          /\ \/ pc' = "fail" /\ UNCHANGED evidence
             \/ \E ok \in BOOLEAN :
                  RecordEach([s \in R |-> IF s = "path_mapping_audit" THEN IF ok THEN attempt ELSE 0
                                          ELSE ReleaseGateClassification("before_path_mapping")])
      BY <1>7, OutcomesAre DEF PathMappingAudit
    <2>2. R \subseteq Sections
      <3>1. "path_mapping_audit" \in CheckSections
        BY DEF CheckSections, AuditSections
      <3> QED
        BY <3>1 DEF Sections
    <2>3. CASE pc' = "fail" /\ UNCHANGED evidence
      BY <1>1, <2>1, <2>3, PhaseBPlaces, PassStep
    <2>4. ASSUME NEW ok \in BOOLEAN,
                 RecordEach([s \in R |-> IF s = "path_mapping_audit" THEN IF ok THEN attempt ELSE 0
                                         ELSE ReleaseGateClassification("before_path_mapping")])
          PROVE  FreshInv'
      <3>1. DOMAIN evidence' = Sections
        BY <1>1, <2>2, <2>4 DEF RecordEach
      <3>2. \A s \in Gated : IF s \in R THEN evidence'[s] \in {0, attempt}
                             ELSE evidence'[s] = evidence[s]
        <4> SUFFICES ASSUME NEW s \in Gated
                     PROVE  IF s \in R THEN evidence'[s] \in {0, attempt}
                            ELSE evidence'[s] = evidence[s]
          OBVIOUS
        <4>1. CASE s = "path_mapping_audit"
          BY <1>1, <2>2, <2>4, <4>1 DEF RecordEach
        <4>2. CASE s # "path_mapping_audit" /\ s \in ClassificationSections
          <5>1. Production
            BY <4>2, OnlyProduction
          <5> QED
            BY <1>1, <2>2, <2>4, <4>2, <5>1 DEF RecordEach, ReleaseGateClassification
        <4>3. CASE s \notin R
          BY <1>1, <2>4, <4>3, GatedSections DEF RecordEach
        <4> QED
          BY <4>1, <4>2, <4>3
      <3>3. \A s \in Gated : Due(s, "sidecar_audit") => Due(s, "path_mapping_audit") \/ s \in R
        BY DueChecks
      <3> HIDE DEF R
      <3> QED
        BY <1>1, <2>1, <3>1, <3>2, <3>3, PhaseBPlaces, RecordStep
    <2> QED
      BY <2>1, <2>3, <2>4
  <1> QED
    BY <1>2, <1>3, <1>4, <1>5, <1>6, <1>7

-----------------------------------------------------------------------------
(* The teardown and the gate *)

LEMMA PreparationFresh ==
  ASSUME FreshInv, PhaseAB
  PROVE  FreshInv'
  BY RecordsFresh, PassesFresh, ModesFresh DEF PhaseAB

(* A step of the teardown, before its record. *)
LEMMA TearStep ==
  ASSUME FreshInv, pc \in TeardownSteps, pc' \in TeardownSteps \ {"t_stop"},
         UNCHANGED <<attempt, setup, evidence>>, Fields \subseteq DOMAIN o',
         o'.phase_d_entered = o.phase_d_entered, o'.failed = o.failed, o'.teardown # None
  PROVE  FreshInv'
  <1>1. Gated' = Gated
    BY DEF Gated, Production
  <1>2. \A s \in Gated : Due(s, pc') => Due(s, pc)
    BY DueTeardown
  <1>3. (~o.failed => \A s \in Gated : Due(s, pc) => Fresh(s))'
    BY <1>1, <1>2 DEF FreshInv, Fresh
  <1>4. pc' \notin PhaseB /\ pc' # "confirm" /\ pc' \notin Rescue /\ ~o'.phase_d_entered
    BY PhaseBPlaces DEF FreshInv, TeardownSteps, Rescue, FailSteps, AbortSteps
  <1> QED
    BY <1>3, <1>4 DEF FreshInv, Fields

LEMMA TearingFresh ==
  ASSUME FreshInv, Tearing
  PROVE  FreshInv'
  <1>1. UNCHANGED <<attempt, setup>> /\ Fields \subseteq DOMAIN o
    BY DEF Tearing, StopValidationApi, TeardownSession, RestoreValidation, ReloadAfterValidation,
       RestoreGateway, lifecycleVars, FreshInv, Fields
  <1>2. CASE StopValidationApi
    <2>1. /\ pc = "t_stop" /\ pc' = "t_session" /\ UNCHANGED evidence
          /\ \E r \in {"PASSED", "FAILED"} : o' = [o EXCEPT !.teardown = r]
      BY <1>2 DEF StopValidationApi, manifestVars
    <2>2. /\ Fields \subseteq DOMAIN o' /\ o'.phase_d_entered = o.phase_d_entered
          /\ o'.failed = o.failed /\ o'.teardown # None
      BY <1>1, <2>1, TeardownAssumption DEF Fields
    <2> QED
      BY <1>1, <2>1, <2>2, TearStep DEF TeardownSteps
  <1>3. ASSUME NEW ok, Teardowns(ok), o.teardown # None
        PROVE  /\ Fields \subseteq DOMAIN o' /\ o'.phase_d_entered = o.phase_d_entered
               /\ o'.failed = o.failed /\ o'.teardown # None
    BY <1>1, <1>3, TeardownAssumption DEF Teardowns, Fields
  <1>4. CASE TeardownSession
    <2>1. /\ pc = "t_session" /\ pc' = "t_binding" /\ UNCHANGED evidence
          /\ Teardowns(TeardownPassed(mine))
      BY <1>4 DEF TeardownSession, manifestVars
    <2>2. o.teardown # None
      BY <2>1 DEF FreshInv, Torn, TeardownSteps
    <2>3. PICK ok : ok = TeardownPassed(mine)
      OBVIOUS
    <2>4. Teardowns(ok)
      BY <2>1, <2>3
    <2> QED
      BY <1>1, <1>3, <2>1, <2>2, <2>4, TearStep DEF TeardownSteps
  <1>5. CASE RestoreValidation
    <2>1. /\ pc = "t_binding" /\ pc' \in {"t_reload", "t_gateway"} /\ UNCHANGED evidence
          /\ o' = o \/ \E ok : Teardowns(ok)
      BY <1>5 DEF RestoreValidation, manifestVars
    <2>2. o.teardown # None
      BY <2>1 DEF FreshInv, Torn, TeardownSteps
    <2>3. /\ Fields \subseteq DOMAIN o' /\ o'.phase_d_entered = o.phase_d_entered
          /\ o'.failed = o.failed /\ o'.teardown # None
      BY <1>1, <1>3, <2>1, <2>2
    <2> QED
      BY <1>1, <2>1, <2>3, TearStep DEF TeardownSteps
  <1>6. CASE ReloadAfterValidation
    <2>1. /\ pc = "t_reload" /\ pc' = "t_gateway" /\ UNCHANGED evidence /\ \E ok : Teardowns(ok)
      BY <1>6 DEF ReloadAfterValidation, manifestVars
    <2>2. o.teardown # None
      BY <2>1 DEF FreshInv, Torn, TeardownSteps
    <2>3. /\ Fields \subseteq DOMAIN o' /\ o'.phase_d_entered = o.phase_d_entered
          /\ o'.failed = o.failed /\ o'.teardown # None
      BY <1>3, <2>1, <2>2
    <2> QED
      BY <1>1, <2>1, <2>3, TearStep DEF TeardownSteps
  <1>7. CASE RestoreGateway
    <2>1. PICK ok, n : n \in {0, attempt}
             /\ Teardowns(ok) /\ Record(n, SessionSections) /\ pc = "t_gateway"
             /\ pc' \in {"f_cleanup", "gate", "fail"} /\ (pc' = "f_cleanup" <=> o.failed)
      BY <1>7 DEF RestoreGateway, Continue
    <2>2. o.teardown # None /\ ~o.phase_d_entered
      BY <2>1 DEF FreshInv, Torn, TeardownSteps
    <2>3. /\ Fields \subseteq DOMAIN o' /\ o'.phase_d_entered = o.phase_d_entered
          /\ o'.failed = o.failed /\ o'.teardown # None
      BY <1>3, <2>1, <2>2
    <2>4. DOMAIN evidence' = Sections
      BY <2>1 DEF Record
    <2>5. CASE pc' # "gate"
      <3>1. pc' \notin PhaseB \cup TeardownSteps /\ (pc' \in Rescue => o'.failed)
        BY <2>1, <2>3, <2>5, PhaseBPlaces DEF TeardownSteps, Rescue, FailSteps, AbortSteps
      <3> QED
        BY <1>1, <2>2, <2>3, <2>4, <3>1, QuietStep
    <2>6. CASE pc' = "gate"
      <3>1. Gated' = Gated
        BY <1>1 DEF Gated, Production
      <3>2. \A s \in Gated : Due(s, pc') => evidence'[s] \in {0, attempt}
        <4> SUFFICES ASSUME NEW s \in Gated, Due(s, pc') PROVE evidence'[s] \in {0, attempt}
          OBVIOUS
        <4>1. s \in Sections
          BY GatedSections
        <4>2. CASE s \in SessionSections
          BY <2>1, <4>1, <4>2 DEF Record
        <4>3. CASE s \notin SessionSections
          <5>1. Due(s, "t_gateway")
            BY <2>6, <4>3, DueTeardown DEF TeardownSteps
          <5>2. evidence[s] \in {0, attempt}
            BY <2>1, <2>6, <5>1 DEF FreshInv, Fresh
          <5> QED
            BY <2>1, <4>1, <4>3, <5>2 DEF Record
        <4> QED
          BY <4>2, <4>3
      <3>3. (\A s \in Gated : Due(s, pc) => Fresh(s))'
        BY <1>1, <3>1, <3>2 DEF Fresh
      <3>4. ~o'.failed /\ ~o'.phase_d_entered /\ pc' # "confirm" /\ pc' \notin Rescue
        BY <2>1, <2>2, <2>3, <2>6 DEF Rescue, FailSteps, AbortSteps
      <3> QED
        BY <2>3, <2>4, <3>3, <3>4 DEF FreshInv, Fields
    <2> QED
      BY <2>5, <2>6
  <1> QED
    BY <1>2, <1>4, <1>5, <1>6, <1>7 DEF Tearing

(* The gate asks for everything, and everything is due there. *)
LEMMA GatedOnes ==
  ASSUME NEW s \in Gated
  PROVE  \/ s \in SeparationSections \/ s \in SchemaSections \/ s \in PreparationSections
         \/ s = "targeted_tests" \/ s \in CandidateSections \/ s \in AuditSections
         \/ s \in RollbackSections \/ s \in SessionSections
         \/ /\ Production
            /\ \/ s \in IntegrationSections \/ s \in ClassificationSections
               \/ s \in BindingSections \/ s \in ProductionCheckSections
  <1>1. s \in UNION {SeparationSections, SchemaSections, PreparationSections, RuntimeSections,
                     CheckSections, SessionSections}
        \/ /\ Production
           /\ s \in UNION {IntegrationSections, ClassificationSections, BindingSections,
                           ProductionCheckSections}
    BY DEF Gated, PreCutoverSections
  <1>2. s \notin RuntimeSections /\ s # "browser_fixture_regression"
    BY DEF Gated
  <1> QED
    BY <1>1, <1>2 DEF CheckSections, FixtureSections

LEMMA GateAsks ==
  ASSUME PreCutoverGate(Production), NEW s \in Gated
  PROVE  evidence[s] # 0
  <1>1. CASE s \in SeparationSections \/ s \in SchemaSections \/ s \in PreparationSections
    BY <1>1 DEF PreCutoverGate, PreparationGate, FileStateGate, Passed
  <1>2. CASE s = "targeted_tests" \/ s \in CandidateSections
    BY <1>2 DEF PreCutoverGate, CandidateGate, Passed, FixtureSections
  <1>3. CASE s \in AuditSections \/ (Production /\ s \in ClassificationSections)
    BY <1>3 DEF PreCutoverGate, AuditGate, Passed
  <1>4. CASE s \in RollbackSections \/ s \in SessionSections
    BY <1>4 DEF PreCutoverGate, SessionGate, Passed
  <1>5. CASE Production /\ (s \in IntegrationSections \/ s \in BindingSections)
    BY <1>5 DEF PreCutoverGate, HostGate, Passed
  <1>6. CASE Production /\ s \in ProductionCheckSections
    BY <1>6 DEF PreCutoverGate, ProductionCandidateGate, Passed
  <1> QED
    BY <1>1, <1>2, <1>3, <1>4, <1>5, <1>6, GatedOnes

LEMMA GateIsLast ==
  ASSUME NEW s \in Gated
  PROVE  Due(s, "gate")
  BY GatedOnes
     DEF Due, AfterIdentity, AfterSchema, AfterIntegration, AfterBackup, AfterTarget, AfterMigration,
         AfterRelease, AfterBinding, AfterTests, AfterBrowser, AfterMutation, AfterPerformance,
         AfterMapping, AfterSidecar, AfterSecurity, AfterRollback, PreparationSections,
         CandidateSections, AuditSections, ProductionCheckSections

LEMMA GateFresh ==
  ASSUME FreshInv, ValidatePreCutoverReady \/ Confirm
  PROVE  FreshInv'
  <1>1. Fields \subseteq DOMAIN o
    BY DEF FreshInv, Fields
  <1>2. CASE ValidatePreCutoverReady
    <2>1. /\ pc = "gate" /\ UNCHANGED <<attempt, setup, evidence, o>>
          /\ \/ pc' = "fail"
             \/ pc' = "confirm" /\ PreCutoverGate(Production)
      BY <1>2 DEF ValidatePreCutoverReady, Continue, manifestVars
    <2>2. ~o.failed /\ ~o.phase_d_entered /\ o.teardown # None
      BY <2>1, PhaseBPlaces DEF FreshInv, Torn
    <2>3. CASE pc' = "fail"
      <3>1. pc' \notin PhaseB \cup TeardownSteps /\ pc' \notin Rescue
        BY <2>3, PhaseBPlaces DEF TeardownSteps, Rescue, FailSteps, AbortSteps
      <3> QED
        BY <1>1, <2>1, <2>2, <3>1, QuietStep DEF FreshInv
    <2>4. CASE pc' = "confirm" /\ PreCutoverGate(Production)
      <3>1. \A s \in Gated : evidence[s] \in {0, attempt}
        BY <2>1, <2>2, GateIsLast DEF FreshInv, Fresh
      <3>2. \A s \in Gated : evidence[s] = attempt
        BY <2>4, <3>1, GateAsks
      <3>3. (\A s \in Gated : evidence[s] = attempt)'
        BY <2>1, <3>2 DEF Gated, Production
      <3>4. pc' \notin Rescue
        BY <2>4 DEF Rescue, FailSteps, AbortSteps
      <3>5. (\A s \in Gated : Due(s, pc) => Fresh(s))'
        BY <3>3 DEF Fresh
      <3> QED
        BY <1>1, <2>1, <2>2, <3>3, <3>4, <3>5 DEF FreshInv, Fields
    <2> QED
      BY <2>1, <2>3, <2>4
  <1>3. CASE Confirm
    <2>1. /\ pc = "confirm" /\ UNCHANGED <<attempt, setup, evidence>> /\ pc' \in {"freeze", "fail"}
          /\ \E ok : o' = [o EXCEPT !.phase_d_entered = ok]
      BY <1>3 DEF Confirm, Continue, manifestVars, lifecycleVars
    <2>2. Fields \subseteq DOMAIN o' /\ o'.teardown = o.teardown
      BY <1>1, <2>1 DEF Fields
    <2>3. pc' \notin PhaseB \cup TeardownSteps /\ pc' \notin Rescue
      BY <2>1, PhaseBPlaces DEF TeardownSteps, Rescue, FailSteps, AbortSteps
    <2> QED
      BY <2>1, <2>2, <2>3, QuietStep DEF FreshInv
  <1> QED
    BY <1>2, <1>3

(* What the cutover records, the gate has not looked at. *)
CutSections == UNION {CutoverSections, ProductionCutoverSections, OpenSections}

LEMMA CutIsApart ==
  ASSUME NEW s \in Gated
  PROVE  s \in Sections /\ s \notin CutSections
  <1>1. s \notin RuntimeSections
    BY DEF Gated
  <1> QED
    BY <1>1, GatedSections, GatedOnes
       DEF CutSections, CutoverSections, ProductionCutoverSections, OpenSections, SeparationSections,
           SchemaSections, PreparationSections, CandidateSections, AuditSections, RollbackSections,
           SessionSections, IntegrationSections, ClassificationSections, BindingSections,
           ProductionCheckSections, RuntimeSections

LEMMA CutStep ==
  ASSUME FreshInv, SameFlags, pc' \in PhaseD \cup {"fail", "READY"},
         evidence' = evidence \/ \E n, R : R \subseteq CutSections /\ Record(n, R)
  PROVE  FreshInv'
  <1>1. pc' \notin PhaseB \cup TeardownSteps /\ pc' \notin Rescue
    BY PhaseBPlaces DEF PhaseD, TeardownSteps, Rescue, FailSteps, AbortSteps
  <1>2. DOMAIN evidence' = Sections /\ \A s \in Gated : evidence'[s] = evidence[s]
    BY CutIsApart DEF FreshInv, Record
  <1>3. o'.phase_d_entered => o.phase_d_entered /\ o'.teardown = o.teardown
    BY DEF SameFlags
  <1> QED
    BY <1>1, <1>2, <1>3, QuietStep DEF SameFlags

LEMMA CutFlags ==
  ASSUME FreshInv, CuttingOver, ~ValidatePreCutoverReady, ~Confirm
  PROVE  SameFlags
  <1>1. Fields \subseteq DOMAIN o
    BY DEF FreshInv, Fields
  <1>2. UNCHANGED <<attempt, setup>>
    BY DEF CuttingOver, FreezeWrites, FreezeTraffic, FreezeAborts, Drain, ReconfirmCutoverIdentity, StopCurrent, EnsureFlatCurrentBaseline, Switch, BindRelease, BindDatabase, ReloadUnits, ActivateServing, ReloadGateway, VerifyReleaseEndpoint, ValidateFinalGate, Open, VerifyPostOpenServing, Finalize, RecordOpen, lifecycleVars
  <1>3. \/ o' = o \/ \E b : o' = [o EXCEPT !.layout = b] \/ o' = [o EXCEPT !.switch_attempted = b]
        \/ \E b : o' = [o EXCEPT !.release_bindings_changed = b]
        \/ \E b : o' = [o EXCEPT !.runtime_binding_attempted = TRUE, !.runtime_bound = b]
        \/ \E b : o' = [o EXCEPT !.traffic_open_attempted = b]
    BY DEF CuttingOver, FreezeWrites, FreezeTraffic, FreezeAborts, Drain, ReconfirmCutoverIdentity, StopCurrent, EnsureFlatCurrentBaseline, Switch, BindRelease, BindDatabase, ReloadUnits, ActivateServing, ReloadGateway, VerifyReleaseEndpoint, ValidateFinalGate, Open, VerifyPostOpenServing, Finalize, RecordOpen
  <1>4. /\ Fields \subseteq DOMAIN o' /\ o'.phase_d_entered = o.phase_d_entered
        /\ o'.teardown = o.teardown /\ o'.failed = o.failed
    BY <1>1, <1>3 DEF Fields
  <1> QED
    BY <1>2, <1>4 DEF SameFlags

LEMMA CuttingFresh ==
  ASSUME FreshInv, CuttingOver
  PROVE  FreshInv'
  <1>1. CASE ValidatePreCutoverReady \/ Confirm
    BY <1>1, GateFresh
  <1>2. ASSUME ~ValidatePreCutoverReady, ~Confirm PROVE FreshInv'
    <2>1. SameFlags
      BY <1>2, CutFlags
    <2>2. {"traffic_freeze", "job_drain", "api_stop", "api_start", "release_endpoint", "file_cutover",
           "production_runtime_binding", "production_nginx_reload", "traffic_open",
           "post_open_serving"} \subseteq CutSections
      BY DEF CutSections, CutoverSections, ProductionCutoverSections, OpenSections
    <2>3. CASE FreezeWrites
      <3>1. pc' \in {"freeze_command"} /\ evidence' = evidence
        BY <2>3 DEF FreezeWrites, manifestVars
      <3> QED
        BY <2>1, <2>2, <3>1, CutStep DEF PhaseD
    <2>4. CASE FreezeTraffic
      <3>1. pc' \in {"drain", "freeze_abort"} /\ (evidence' = evidence \/ \E n : Record(n, {"traffic_freeze"}))
        BY <2>4 DEF FreezeTraffic
      <3> QED
        BY <2>1, <2>2, <3>1, CutStep DEF PhaseD
    <2>5. CASE FreezeAborts
      <3>1. pc' \in {"fail"} /\ evidence' = evidence
        BY <2>5 DEF FreezeAborts, manifestVars
      <3> QED
        BY <2>1, <2>2, <3>1, CutStep DEF PhaseD
    <2>6. CASE Drain
      <3>1. pc' \in {"reconfirm", "fail"} /\ (evidence' = evidence \/ \E n : Record(n, {"job_drain"}))
        BY <2>6 DEF Drain, Continue
      <3> QED
        BY <2>1, <2>2, <3>1, CutStep DEF PhaseD
    <2>7. CASE ReconfirmCutoverIdentity
      <3>1. pc' \in {"stop", "fail"} /\ evidence' = evidence
        BY <2>7 DEF ReconfirmCutoverIdentity, manifestVars, Continue
      <3> QED
        BY <2>1, <2>2, <3>1, CutStep DEF PhaseD
    <2>8. CASE StopCurrent
      <3>1. pc' \in {"adopt", "switch", "fail"} /\ (evidence' = evidence \/ \E n : Record(n, {"api_stop"}))
        BY <2>8 DEF StopCurrent, Continue
      <3> QED
        BY <2>1, <2>2, <3>1, CutStep DEF PhaseD
    <2>9. CASE EnsureFlatCurrentBaseline
      <3>1. pc' \in {"switch", "fail"} /\ evidence' = evidence
        BY <2>9 DEF EnsureFlatCurrentBaseline, manifestVars, Continue
      <3> QED
        BY <2>1, <2>2, <3>1, CutStep DEF PhaseD
    <2>10. CASE Switch
      <3>1. pc' \in {"bind_release", "activate", "fail"} /\ (evidence' = evidence \/ \E n : Record(n, {"file_cutover"}))
        BY <2>10 DEF Switch, Continue
      <3> QED
        BY <2>1, <2>2, <3>1, CutStep DEF PhaseD
    <2>11. CASE BindRelease
      <3>1. pc' \in {"bind_database", "fail"} /\ evidence' = evidence
        BY <2>11 DEF BindRelease, manifestVars, Continue
      <3> QED
        BY <2>1, <2>2, <3>1, CutStep DEF PhaseD
    <2>12. CASE BindDatabase
      <3>1. pc' \in {"reload", "fail"} /\ evidence' = evidence
        BY <2>12 DEF BindDatabase, manifestVars, Continue
      <3> QED
        BY <2>1, <2>2, <3>1, CutStep DEF PhaseD
    <2>13. CASE ReloadUnits
      <3>1. pc' \in {"activate", "fail"} /\ (evidence' = evidence \/ \E n : Record(n, {"production_runtime_binding", "file_cutover"}))
        BY <2>13 DEF ReloadUnits, Continue
      <3> QED
        BY <2>1, <2>2, <3>1, CutStep DEF PhaseD
    <2>14. CASE ActivateServing
      <3>1. pc' \in {"nginx", "verify", "fail"} /\ evidence' = evidence
        BY <2>14 DEF ActivateServing, manifestVars, Continue
      <3> QED
        BY <2>1, <2>2, <3>1, CutStep DEF PhaseD
    <2>15. CASE ReloadGateway
      <3>1. pc' \in {"verify", "fail"} /\ (evidence' = evidence \/ \E n : Record(n, {"production_nginx_reload"}))
        BY <2>15 DEF ReloadGateway, Continue
      <3> QED
        BY <2>1, <2>2, <3>1, CutStep DEF PhaseD
    <2>16. CASE VerifyReleaseEndpoint
      <3>1. pc' \in {"final_gate", "fail"} /\ (evidence' = evidence \/ \E n : Record(n, {"api_start", "release_endpoint"}))
        BY <2>16 DEF VerifyReleaseEndpoint, Continue
      <3> QED
        BY <2>1, <2>2, <3>1, CutStep DEF PhaseD
    <2>17. CASE ValidateFinalGate
      <3>1. pc' \in {"finalize", "open", "fail"} /\ evidence' = evidence
        BY <2>17 DEF ValidateFinalGate, Continue
      <3> QED
        BY <2>1, <2>2, <3>1, CutStep DEF PhaseD
    <2>18. CASE Open
      <3>1. pc' \in {"post_open", "fail"} /\ (evidence' = evidence \/ \E n : Record(n, {"traffic_open"}))
        BY <2>18 DEF Open, Continue
      <3> QED
        BY <2>1, <2>2, <3>1, CutStep DEF PhaseD
    <2>19. CASE VerifyPostOpenServing
      <3>1. pc' \in {"open_gate", "fail"} /\ (evidence' = evidence \/ \E n : Record(n, {"post_open_serving"}))
        BY <2>19 DEF VerifyPostOpenServing, Continue
      <3> QED
        BY <2>1, <2>2, <3>1, CutStep DEF PhaseD
    <2>20. CASE Finalize
      <3>1. pc' \in {"record_open"} /\ evidence' = evidence
        BY <2>20 DEF Finalize, manifestVars
      <3> QED
        BY <2>1, <2>2, <3>1, CutStep DEF PhaseD
    <2>21. CASE RecordOpen
      <3>1. pc' \in {"READY", "fail"} /\ evidence' = evidence
        BY <2>21 DEF RecordOpen, manifestVars, Continue
      <3> QED
        BY <2>1, <2>2, <3>1, CutStep DEF PhaseD
    <2> QED
      BY <1>2, <2>3, <2>4, <2>5, <2>6, <2>7, <2>8, <2>9, <2>10, <2>11, <2>12, <2>13, <2>14, <2>15, <2>16, <2>17, <2>18, <2>19, <2>20, <2>21 DEF CuttingOver
  <1> QED
    BY <1>1, <1>2

(* The rollback records nothing, and tears down only what has not been torn down. *)
LEMMA FailingFresh ==
  ASSUME FreshInv, Failing
  PROVE  FreshInv'
  <1>1. UNCHANGED <<attempt, setup, evidence>> /\ Fields \subseteq DOMAIN o
    BY DEF Failing, Fail, FailStopServing, FailRollback, FailRestoreBindings, FailReloadBindings, FailRestoreDatabase, FailReloadDatabase, FailAbort, Refreeze, PreserveCurrent, StopCandidate, StartPrevious, LiftFreeze, FailReloadNginx, FailTeardown, FailCleanup, lifecycleVars, manifestVars, FreshInv, Fields
  <1>2. CASE Fail
    <2>1. pc' = "f_stop" /\ o' = [o EXCEPT !.failed = TRUE]
      BY <1>2 DEF Fail
    <2>2. /\ Fields \subseteq DOMAIN o' /\ o'.phase_d_entered = o.phase_d_entered
          /\ o'.teardown = o.teardown /\ o'.failed
      BY <1>1, <2>1 DEF Fields
    <2>3. pc' \notin PhaseB \cup TeardownSteps
      BY <2>1, PhaseBPlaces DEF TeardownSteps
    <2> QED
      BY <1>1, <2>2, <2>3, QuietStep DEF FreshInv
  <1>3. ASSUME ~Fail PROVE FreshInv'
    <2>1. pc \in Rescue
      BY <1>3 DEF Failing, FailStopServing, FailRollback, FailRestoreBindings, FailReloadBindings, FailRestoreDatabase, FailReloadDatabase, FailAbort, Refreeze, PreserveCurrent, StopCandidate, StartPrevious, LiftFreeze, FailReloadNginx, FailTeardown, FailCleanup, Rescue, FailSteps, AbortSteps
    <2>2. \/ o' = o \/ \E b : o' = [o EXCEPT !.release_bindings_changed = b]
          \/ \E b : o' = [o EXCEPT !.runtime_bound = b]
      BY <1>3 DEF Failing, FailStopServing, FailRollback, FailRestoreBindings, FailReloadBindings, FailRestoreDatabase, FailReloadDatabase, FailAbort, Refreeze, PreserveCurrent, StopCandidate, StartPrevious, LiftFreeze, FailReloadNginx, FailTeardown, FailCleanup
    <2>3. /\ Fields \subseteq DOMAIN o' /\ o'.phase_d_entered = o.phase_d_entered
          /\ o'.teardown = o.teardown /\ o'.failed = o.failed /\ o.failed
      BY <1>1, <2>1, <2>2 DEF Fields, FreshInv
    <2>4. CASE pc' = "t_stop"
      <3>1. FailTeardown
        BY <1>3, <2>4 DEF Failing, FailStopServing, FailRollback, FailRestoreBindings, FailReloadBindings, FailRestoreDatabase, FailReloadDatabase, FailAbort, Refreeze, PreserveCurrent, StopCandidate, StartPrevious, LiftFreeze, FailReloadNginx, FailTeardown, FailCleanup, AbortTo
      <3>2. o.teardown = None /\ o' = o
        BY <2>4, <3>1 DEF FailTeardown
      <3>3. ~o.phase_d_entered
        BY <3>2 DEF FreshInv
      <3>4. pc' \notin PhaseB /\ pc' \notin Rescue /\ pc' # "confirm" /\ pc' \notin Torn
        BY <2>4, PhaseBPlaces DEF Rescue, FailSteps, AbortSteps, Torn, TeardownSteps
      <3> QED
        BY <1>1, <2>3, <3>2, <3>3, <3>4 DEF FreshInv, Fields
    <2>5. CASE pc' # "t_stop"
      <3>1. pc' \in Rescue \cup {"failed"}
        BY <1>3, <2>5 DEF Failing, FailStopServing, FailRollback, FailRestoreBindings, FailReloadBindings, FailRestoreDatabase, FailReloadDatabase, FailAbort, Refreeze, PreserveCurrent, StopCandidate, StartPrevious, LiftFreeze, FailReloadNginx, FailTeardown, FailCleanup, AbortTo, Rescue, FailSteps, AbortSteps
      <3>2. pc' \notin PhaseB \cup TeardownSteps
        BY <3>1, PhaseBPlaces DEF TeardownSteps, Rescue, FailSteps, AbortSteps
      <3> QED
        BY <1>1, <2>3, <3>2, QuietStep DEF FreshInv
    <2> QED
      BY <2>4, <2>5
  <1> QED
    BY <1>2, <1>3

LEMMA FreshStep ==
  ASSUME FreshInv, [Next]_vars
  PROVE  FreshInv'
  <1>1. CASE PhaseAB
    BY <1>1, PreparationFresh
  <1>2. CASE Tearing
    BY <1>2, TearingFresh
  <1>3. CASE CuttingOver
    BY <1>3, CuttingFresh
  <1>4. CASE Failing
    BY <1>4, FailingFresh
  <1>5. CASE Crash
    <2>1. UNCHANGED <<attempt, setup, evidence, o>> /\ pc' = "crashed"
      BY <1>5 DEF Crash, lifecycleVars, manifestVars
    <2>2. pc' \notin PhaseB \cup TeardownSteps /\ pc' \notin Rescue
      BY <2>1, PhaseBPlaces DEF TeardownSteps, Rescue, FailSteps, AbortSteps
    <2> QED
      BY <2>1, <2>2, QuietStep DEF FreshInv, Fields
  <1>6. CASE NextAttempt
    <2>1. pc' = "preflight" /\ o' = NewFlags /\ UNCHANGED evidence
      BY <1>6 DEF NextAttempt, manifestVars
    <2>2. \A s : ~Due(s, pc')
      BY <2>1, DueMoves
    <2>3. pc' \notin Torn /\ pc' # "confirm" /\ pc' \notin Rescue
      BY <2>1 DEF Torn, TeardownSteps, Rescue, FailSteps, AbortSteps
    <2>4. /\ Fields \subseteq DOMAIN o' /\ ~o'.phase_d_entered /\ ~o'.failed
      BY <2>1 DEF NewFlags, Fields
    <2> QED
      BY <2>1, <2>2, <2>3, <2>4 DEF FreshInv, Fields
  <1>7. CASE UsersAct \/ UNCHANGED vars
    <2>1. UNCHANGED <<attempt, setup, evidence, o, pc>>
      BY <1>7 DEF UsersAct, vars, controlVars, manifestVars, lifecycleVars
    <2>2. Gated' = Gated
      BY <2>1 DEF Gated, Production
    <2> QED
      BY <2>1, <2>2 DEF FreshInv, Fresh
  <1> QED
    BY <1>1, <1>2, <1>3, <1>4, <1>5, <1>6, <1>7 DEF Next, Orchestrate

LEMMA FreshFirst == Init => FreshInv
  <1> SUFFICES ASSUME Init PROVE FreshInv
    OBVIOUS
  <1>1. pc = "preflight" /\ o = NewFlags /\ evidence = [s \in Sections |-> 0]
    BY DEF Init, ManifestInit
  <1>2. \A s : ~Due(s, pc)
    BY <1>1, DueMoves
  <1>3. pc \notin Torn /\ pc # "confirm" /\ pc \notin Rescue
    BY <1>1 DEF Torn, TeardownSteps, Rescue, FailSteps, AbortSteps
  <1> QED
    BY <1>1, <1>2, <1>3 DEF FreshInv, NewFlags

(* CutoverEvidenceIsFresh: the gate lets an attempt into the cutover on its  *)
(* own evidence, although the ledger of evidence_manifest.py keeps what      *)
(* earlier attempts of the same revision recorded: each call of Phase B      *)
(* replaces its section before the next one runs, and an attempt that is     *)
(* refused, fails or dies starts again from the first.                       *)
THEOREM EvidenceFresh == Spec => []CutoverEvidenceIsFresh
  <1>1. FreshInv => CutoverEvidenceIsFresh
    BY DEF FreshInv, CutoverEvidenceIsFresh, Gated
  <1> QED
    BY <1>1, FreshFirst, FreshStep, PTL DEF Spec

-----------------------------------------------------------------------------
(* One release *)

Switched == {"bind_release", "bind_database", "reload", "activate", "record_open", "READY"}
            \cup Started
Verified == {"final_gate", "open", "post_open", "open_gate", "finalize", "record_open", "READY"}
Quiet == {"gate", "confirm", "READY"} \cup PhaseD
ToBind == {"start_validation", "wait_ready", "t_stop", "t_session", "t_binding"}
          \cup CheckSections \cup ProductionCheckSections
Decided == {"open", "post_open", "open_gate", "finalize", "record_open", "READY"}

(* CURRENT names a candidate from the switch to its rollback, or else an     *)
(* upgrade has been left on hold.                                            *)
PointInv ==
    /\ pc \in Switched => current = attempt /\ o.switch_attempted
    /\ ~hold /\ current \notin {0, None} =>
          \/ pc \in Switched
          \/ pc \in {"fail", "f_stop", "f_pointer"} /\ o.switch_attempted /\ lc.active

(* What was bound stays bound, and what was verified goes on. *)
ServeInv ==
    /\ alias \in [file : Roots, loaded : Roots]
    /\ pc \in Verified => serving.up /\ serving.release = attempt
    /\ Production /\ pc \in Started \cup {"record_open", "READY"} =>
          unit.loaded = "current" /\ env = attempt
    /\ Production /\ pc \in {"bind_database", "reload", "activate", "nginx"} => alias.file = "current"
    /\ Production /\ pc \in (Started \ {"nginx"}) \cup {"record_open", "READY"} =>
          alias.loaded = "current"
    /\ pc \in {"record_open", "READY"} => ~marker

(* A teardown that passed left no validation process. *)
ValidInv ==
    /\ validation \in [up : BOOLEAN, db : Ids]
    /\ pc \in {"t_binding", "t_reload", "t_gateway"} /\ o.teardown = "PASSED" => ~validation.up
    /\ pc \in Quiet => ~validation.up

(* In production it also took back what the attempt had bound. *)
HandInv ==
    Production =>
      /\ ~o.failed /\ pc \in ToBind \cup {"bind_validation", "reload_validation", "t_reload", "t_gateway"} =>
            adapter.validation_gateway_bound
      /\ ~o.failed /\ pc \in ToBind \cup {"reload_validation"} => adapter.validation_binding_changed
      /\ ~o.failed /\ pc \in {"t_reload", "t_gateway"} /\ o.teardown = "PASSED" => valEnv = None
      /\ pc \in Quiet => valEnv = None /\ pointer = None

(* The ledger says READY from the final gate on, until a rollback or the     *)
(* next attempt begins.                                                      *)
DecisionInv ==
    /\ pc \in Decided => decision = "READY"
    /\ decision = "READY" =>
          /\ pc \in Decided \cup {"fail", "crashed", "preflight"}
          /\ current \in Attempts /\ (serving.up => serving.release = current) /\ ~validation.up

WholeInv == PointInv /\ ServeInv /\ ValidInv /\ HandInv /\ DecisionInv

LEMMA PreparationAlone ==
  ASSUME CutInv, PhaseAB \/ Tearing
  PROVE  Steady
  BY PhaseASteady, ControlsSteady, PreparationSteady, BindingSteady, CheckSteady, CheckPlaces,
     TearingSteady DEF PhaseAB, Checking

(* Where the steps of each phase lead. *)
Early == PhaseB \ {"gate", "confirm"}

LEMMA PreparationPlaces ==
  ASSUME PhaseAB
  PROVE  pc \in Early /\ pc' \in Early \cup {"t_stop", "fail", "refused"}
  <1>1. CASE Checking
    <2>1. pc \in CheckSections \cup ProductionCheckSections
      BY <1>1 DEF Checking, TargetedTests, BrowserFixtureRegression, CandidateBrowserEvidence,
         CandidateAuthenticatedMutation, ReleasePerformance, PathMappingAudit, SidecarAudit,
         SecurityAudit, RollbackEvidence, CheckSections, ProductionCheckSections, FixtureSections,
         CandidateSections, AuditSections, RollbackSections
    <2>2. pc' \in CheckSections \cup ProductionCheckSections \cup {"fail", "t_stop"}
      BY <1>1 DEF Checking, TargetedTests, BrowserFixtureRegression, CandidateBrowserEvidence,
         CandidateAuthenticatedMutation, ReleasePerformance, PathMappingAudit, SidecarAudit,
         SecurityAudit, RollbackEvidence, CheckSections, ProductionCheckSections, FixtureSections,
         CandidateSections, AuditSections, RollbackSections, ReadArtifact, ReadSessionArtifact, Continue
    <2>3. CheckSections \cup ProductionCheckSections \subseteq Early
      BY DEF Early, PhaseB, CheckSections, ProductionCheckSections, FixtureSections,
         CandidateSections, AuditSections, RollbackSections
    <2> QED
      BY <2>1, <2>2, <2>3
  <1>2. CASE ~Checking
    BY <1>2, PhaseBPlaces
       DEF PhaseAB, Checking, Early, ValidateIdentityAndTarget, PreflightSchema,
           ConfigureReleaseControls, PreflightIntegration, ScanResidue, Backup, PrepareTarget, Migrate,
           PrepareRelease, BindGateway, BindValidation, ReloadValidation, StartValidationApi,
           ValidationRuntimePreflightFails, WaitCandidateValidationReady, Continue, Refuse
  <1> QED
    BY <1>1, <1>2

LEMMA TearingPlaces ==
  ASSUME Tearing
  PROVE  pc \in TeardownSteps /\ pc' \in TeardownSteps \cup {"gate", "fail", "f_cleanup"}
  BY DEF Tearing, StopValidationApi, TeardownSession, RestoreValidation, ReloadAfterValidation,
         RestoreGateway, Continue, TeardownSteps

(* Freezing the previous release, and what follows the pointer in _fail. *)
Closing ==
    \/ ValidatePreCutoverReady \/ Confirm \/ FreezeWrites \/ FreezeTraffic \/ FreezeAborts \/ Drain
    \/ ReconfirmCutoverIdentity \/ StopCurrent
Exchange == EnsureFlatCurrentBaseline \/ Switch
Serve ==
    \/ BindRelease \/ BindDatabase \/ ReloadUnits \/ ActivateServing \/ ReloadGateway
    \/ VerifyReleaseEndpoint \/ ValidateFinalGate \/ Open \/ VerifyPostOpenServing \/ Finalize
    \/ RecordOpen
Restore ==
    \/ FailRestoreBindings \/ FailReloadBindings \/ FailRestoreDatabase \/ FailReloadDatabase
    \/ FailAbort \/ Refreeze \/ PreserveCurrent \/ StopCandidate \/ StartPrevious \/ LiftFreeze
    \/ FailReloadNginx \/ FailTeardown \/ FailCleanup

LEMMA ClosingPlaces ==
  ASSUME Closing
  PROVE  /\ pc \in {"gate", "confirm", "freeze"} \cup Freezing
         /\ pc' \in {"confirm", "freeze", "adopt", "switch", "fail"} \cup Freezing
         /\ UNCHANGED <<current, attempt, setup, hold, unit, alias, env, valEnv, pointer, validation,
                        decision, adapter>>
  BY DEF Closing, ValidatePreCutoverReady, Confirm, FreezeWrites, FreezeTraffic, FreezeAborts, Drain,
     ReconfirmCutoverIdentity, StopCurrent, Continue, Freezing, publisherVars, vfoswindVars, bindingVars,
     validationBindingVars, hostVars, procVars, lifecycleVars, manifestVars

LEMMA RestorePlaces ==
  ASSUME Restore
  PROVE  /\ pc \in (FailSteps \ {"fail", "f_stop", "f_pointer"}) \cup AbortSteps
         /\ pc' \in (FailSteps \ {"fail", "f_stop", "f_pointer"}) \cup AbortSteps \cup {"t_stop", "failed"}
         /\ UNCHANGED <<current, attempt, setup, valEnv, pointer, validation, decision>>
  <1>1. CASE FailRestoreBindings \/ FailReloadBindings \/ FailRestoreDatabase \/ FailReloadDatabase
             \/ FailAbort
    BY <1>1 DEF FailRestoreBindings, FailReloadBindings, FailRestoreDatabase, FailReloadDatabase,
       FailAbort, FailSteps, AbortSteps, publisherVars, vfoswindVars, validationBindingVars, hostVars,
       procVars, lifecycleVars, manifestVars, RestoreReleaseBindings, DaemonReload, RestoreDatabaseBinding
  <1>2. CASE Refreeze \/ PreserveCurrent \/ StopCandidate \/ StartPrevious \/ LiftFreeze
    BY <1>2 DEF Refreeze, PreserveCurrent, StopCandidate, StartPrevious, LiftFreeze, AbortTo, FailSteps,
       AbortSteps, publisherVars, vfoswindVars, validationBindingVars, procVars, lifecycleVars,
       manifestVars
  <1>3. CASE FailReloadNginx \/ FailTeardown \/ FailCleanup
    BY <1>3 DEF FailReloadNginx, FailTeardown, FailCleanup, FailSteps, AbortSteps, publisherVars,
       vfoswindVars, validationBindingVars, hostVars, procVars, lifecycleVars, manifestVars, ReloadNginx
  <1> QED
    BY <1>1, <1>2, <1>3 DEF Restore

LEMMA ServePlaces ==
  ASSUME "record_open" \notin Fallible, Serve
  PROVE  /\ pc \in Switched \ {"READY"} /\ pc' \in Switched \cup {"fail"}
         /\ pc = "record_open" => pc' = "READY"
         /\ UNCHANGED <<current, attempt, setup, hold, valEnv, pointer, validation>>
  <1>1. CASE BindRelease \/ BindDatabase \/ ReloadUnits \/ ActivateServing \/ ReloadGateway
    <2>1. /\ pc \in {"bind_release", "bind_database", "reload", "activate", "nginx"}
          /\ pc' \in {"bind_database", "reload", "activate", "nginx", "verify", "fail"}
      BY <1>1 DEF BindRelease, BindDatabase, ReloadUnits, ActivateServing, ReloadGateway, Continue
    <2>2. UNCHANGED <<current, attempt, setup, hold, validation>>
      BY <1>1 DEF BindRelease, BindDatabase, ReloadUnits, ActivateServing, ReloadGateway, publisherVars,
         procVars, lifecycleVars
    <2>3. CASE BindRelease \/ BindDatabase
      BY <2>1, <2>2, <2>3 DEF BindRelease, BindDatabase, BindCurrentRelease, BindCandidateDatabase,
         validationBindingVars, Switched, Started
    <2>4. CASE ReloadUnits \/ ActivateServing \/ ReloadGateway
      BY <2>1, <2>2, <2>4 DEF ReloadUnits, ActivateServing, ReloadGateway, DaemonReload, ReloadNginx,
         vfoswindVars, validationBindingVars, Switched, Started
    <2> QED
      BY <1>1, <2>3, <2>4
  <1>2. CASE \/ VerifyReleaseEndpoint \/ ValidateFinalGate \/ Open \/ VerifyPostOpenServing \/ Finalize
             \/ RecordOpen
    BY <1>2 DEF VerifyReleaseEndpoint, ValidateFinalGate, Open, VerifyPostOpenServing, Finalize, RecordOpen,
       Continue, Outcomes, Switched, Started, publisherVars, vfoswindVars, validationBindingVars, procVars,
       lifecycleVars, hostVars
  <1> QED
    BY <1>1, <1>2 DEF Serve

(* The pointer *)

LEMMA PointElsewhere ==
  ASSUME PointInv, hold \in BOOLEAN, hold' \in {hold, TRUE}, UNCHANGED current,
         pc \notin Switched \cup {"fail", "f_stop", "f_pointer"}, pc' \notin Switched
  PROVE  PointInv'
  BY DEF PointInv

LEMMA PointPreparation ==
  ASSUME CutInv, PointInv, PhaseAB \/ Tearing \/ Closing \/ Restore
  PROVE  PointInv'
  <1>1. hold \in BOOLEAN /\ hold' \in {hold, TRUE}
    BY HoldStays DEF CutInv, HostTypes, Next, Orchestrate, CuttingOver, Failing, Closing, Restore
  <1>2. UNCHANGED current
    BY PreparationAlone, ClosingPlaces, RestorePlaces DEF Steady, SameHost
  <1>3. CASE PhaseAB \/ Tearing
    <2>1. /\ pc \in Early \cup TeardownSteps
          /\ pc' \in Early \cup TeardownSteps \cup {"gate", "fail", "refused", "f_cleanup"}
      BY <1>3, PreparationPlaces, TearingPlaces DEF TeardownSteps
    <2>2. pc \notin Switched \cup {"fail", "f_stop", "f_pointer"} /\ pc' \notin Switched
      BY <2>1, PhaseBPlaces DEF Early, TeardownSteps, Switched, Started
    <2> QED
      BY <1>1, <1>2, <2>2, PointElsewhere
  <1>4. CASE Closing
    <2>1. pc \notin Switched \cup {"fail", "f_stop", "f_pointer"} /\ pc' \notin Switched
      BY <1>4, ClosingPlaces DEF Freezing, Switched, Started
    <2> QED
      BY <1>1, <1>2, <2>1, PointElsewhere
  <1>5. CASE Restore
    <2>1. pc \notin Switched \cup {"fail", "f_stop", "f_pointer"} /\ pc' \notin Switched
      BY <1>5, RestorePlaces DEF FailSteps, AbortSteps, Switched, Started
    <2> QED
      BY <1>1, <1>2, <2>1, PointElsewhere
  <1> QED
    BY <1>3, <1>4, <1>5

LEMMA PointExchange ==
  ASSUME CutInv, PointInv, Exchange
  PROVE  PointInv'
  <1>1. hold \in BOOLEAN /\ hold' = hold /\ attempt' = attempt /\ o \in Flags
    BY DEF CutInv, HostTypes, OwnTypes, Exchange, EnsureFlatCurrentBaseline, Switch
  <1>2. hold \/ current \in {0, None}
    BY DEF PointInv, Exchange, EnsureFlatCurrentBaseline, Switch, Switched, Started
  <1>3. CASE EnsureFlatCurrentBaseline
    <2>1. current' \in {current, 0} /\ pc' \in {"switch", "fail"}
      BY <1>3 DEF EnsureFlatCurrentBaseline, AdoptFlat, Continue, publisherVars
    <2> QED
      BY <1>1, <1>2, <2>1 DEF PointInv, Switched, Started
  <1>4. CASE Switch
    <2>1. /\ \/ pc' \in {"bind_release", "activate"} /\ current' = attempt
             \/ pc' = "fail" /\ current' = current
          /\ o' = [o EXCEPT !.switch_attempted = TRUE]
      BY <1>4 DEF Switch, SwitchCurrent, Continue
    <2>2. o'.switch_attempted
      BY <1>1, <2>1 DEF Flags
    <2>3. CASE pc' = "fail" /\ current' = current
      BY <1>1, <1>2, <2>3 DEF PointInv, Switched, Started
    <2>4. CASE pc' \in {"bind_release", "activate"} /\ current' = attempt
      BY <1>1, <2>2, <2>4 DEF PointInv, Switched, Started
    <2> QED
      BY <2>1, <2>3, <2>4
  <1> QED
    BY <1>3, <1>4 DEF Exchange

LEMMA PointServe ==
  ASSUME "record_open" \notin Fallible, CutInv, PointInv, Serve
  PROVE  PointInv'
  <1>1. /\ pc \in Switched \ {"READY"} /\ pc' \in Switched \cup {"fail"}
        /\ pc = "record_open" => pc' = "READY"
        /\ UNCHANGED <<current, attempt, hold>>
    BY ServePlaces
  <1>2. o \in Flags /\ lc \in Lifecycles
    BY DEF CutInv, OwnTypes
  <1>3. \/ o' = o \/ \E b : o' = [o EXCEPT !.release_bindings_changed = b]
        \/ \E b : o' = [o EXCEPT !.runtime_binding_attempted = TRUE, !.runtime_bound = b]
        \/ o' = [o EXCEPT !.traffic_open_attempted = TRUE]
    <2>1. CASE BindRelease
      <3>1. PICK ok : o' = [o EXCEPT !.release_bindings_changed =
                                        IF ok THEN adapter'.release_bindings_changed ELSE @]
        BY <2>1 DEF BindRelease
      <3>2. PICK b : b = IF ok THEN adapter'.release_bindings_changed ELSE o.release_bindings_changed
        OBVIOUS
      <3> QED
        BY <3>1, <3>2
    <2>2. CASE BindDatabase
      BY <2>2 DEF BindDatabase
    <2>3. CASE Open
      BY <2>3 DEF Open
    <2>4. CASE ~BindRelease /\ ~BindDatabase /\ ~Open
      BY <2>4 DEF Serve, ReloadUnits, ActivateServing, ReloadGateway,
         VerifyReleaseEndpoint, ValidateFinalGate, VerifyPostOpenServing, Finalize, RecordOpen
    <2> QED
      BY <2>1, <2>2, <2>3, <2>4
  <1>4. o'.switch_attempted
    <2>1. o.switch_attempted
      BY <1>1 DEF PointInv
    <2>2. CASE o' = o
      BY <2>1, <2>2
    <2>3. CASE \E b : o' = [o EXCEPT !.release_bindings_changed = b]
      BY <1>2, <2>1, <2>3 DEF Flags
    <2>4. CASE \E b : o' = [o EXCEPT !.runtime_binding_attempted = TRUE, !.runtime_bound = b]
      BY <1>2, <2>1, <2>4 DEF Flags
    <2>5. CASE o' = [o EXCEPT !.traffic_open_attempted = TRUE]
      BY <1>2, <2>1, <2>5 DEF Flags
    <2> QED
      BY <1>3, <2>2, <2>3, <2>4, <2>5
  <1>5. ASSUME pc' = "fail" PROVE lc'.active
    <2>1. pc \in Window
      BY <1>1, <1>5 DEF Switched, Started, Window, Stopped
    <2>2. lc.active
      BY <2>1 DEF CutInv, FreezeInv
    <2>3. \/ lc' = lc \/ lc' = [lc EXCEPT !.serving_api_started = TRUE]
          \/ \E b : lc' = [lc EXCEPT !.traffic_opened = b]
      <3>1. ~Finalize
        BY <1>5 DEF Finalize
      <3>2. CASE ActivateServing \/ Open
        BY <3>2 DEF ActivateServing, Open, StartServingApi, OpenTraffic
      <3>3. CASE ~ActivateServing /\ ~Open
        BY <3>1, <3>3 DEF Serve, BindRelease, BindDatabase, ReloadUnits, ReloadGateway,
           VerifyReleaseEndpoint, ValidateFinalGate, VerifyPostOpenServing, RecordOpen, lifecycleVars
      <3> QED
        BY <3>2, <3>3
    <2> QED
      BY <1>2, <2>2, <2>3 DEF Lifecycles
  <1> QED
    BY <1>1, <1>4, <1>5 DEF PointInv

LEMMA PointRollback ==
  ASSUME CutInv, PointInv, Fail \/ FailStopServing \/ FailRollback
  PROVE  PointInv'
  <1>1. o \in Flags /\ lc \in Lifecycles /\ hold \in BOOLEAN
    BY DEF CutInv, OwnTypes, HostTypes
  <1>2. attempt' = attempt /\ hold' \in {hold, TRUE}
    BY <1>1, HoldStays DEF Fail, FailStopServing, FailRollback, Next, Orchestrate, Failing
  <1>3. CASE Fail
    <2>1. /\ pc = "fail" /\ pc' = "f_stop" /\ UNCHANGED <<current, lc>>
          /\ o' = [o EXCEPT !.failed = TRUE]
      BY <1>3 DEF Fail, publisherVars, lifecycleVars
    <2>2. o'.switch_attempted <=> o.switch_attempted
      BY <1>1, <2>1 DEF Flags
    <2> QED
      BY <1>1, <1>2, <2>1, <2>2 DEF PointInv, Switched, Started
  <1>4. CASE FailStopServing
    <2>1. pc = "f_stop" /\ pc' = "f_pointer" /\ UNCHANGED <<current, o>>
      BY <1>4 DEF FailStopServing, publisherVars
    <2>2. lc' = lc \/ \E b : lc' = [lc EXCEPT !.serving_api_started = b]
      BY <1>4 DEF FailStopServing, StopServingApi
    <2>3. lc'.active <=> lc.active
      BY <1>1, <2>2 DEF Lifecycles
    <2> QED
      BY <1>1, <1>2, <2>1, <2>3 DEF PointInv, Switched, Started
  <1>5. CASE FailRollback
    <2>1. pc = "f_pointer" /\ pc' = "f_bindings"
      BY <1>5 DEF FailRollback
    <2>2. hold' \/ current' = 0 \/ (current' = current /\ ~o.switch_attempted)
      BY <1>5 DEF FailRollback, Rollback, SwitchCurrent, Logged, publisherVars
    <2>3. hold' \/ current' \in {0, None}
      BY <1>1, <1>2, <2>1, <2>2 DEF PointInv, Switched, Started
    <2> QED
      BY <2>1, <2>3 DEF PointInv, Switched, Started
  <1> QED
    BY <1>3, <1>4, <1>5

Others == Crash \/ NextAttempt \/ UsersAct \/ UNCHANGED vars

LEMMA OtherFrames ==
  ASSUME Others
  PROVE  UNCHANGED <<current, setup, serving, validation, marker, unit, alias, env, valEnv, pointer,
                     decision>>
  BY DEF Others, Crash, NextAttempt, UsersAct, Users, AdmitWrite, CommitWrite, FinishJob, vars, hostVars,
     procVars, publisherVars, vfoswindVars, bindingVars, validationBindingVars, lifecycleVars,
     manifestVars, controlVars

LEMMA OtherPlaces ==
  ASSUME Others
  PROVE  \/ pc' = "crashed" /\ hold' = TRUE /\ pc \notin Ended
         \/ pc' = "preflight" /\ hold' = hold /\ pc \in Gone
         \/ UNCHANGED <<pc, hold, attempt, o, lc, adapter>>
  BY DEF Others, Crash, NextAttempt, UsersAct, vars, controlVars, lifecycleVars, vfoswindVars, Ended, Gone

LEMMA PointOthers ==
  ASSUME CutInv, PointInv, Others
  PROVE  PointInv'
  <1>1. UNCHANGED current
    BY OtherFrames
  <1>2. CASE pc' = "crashed" /\ hold' = TRUE
    BY <1>2 DEF PointInv, Switched, Started
  <1>3. CASE pc' = "preflight" /\ hold' = hold /\ pc \in Gone
    BY <1>1, <1>3 DEF PointInv, Switched, Started, Gone
  <1>4. CASE UNCHANGED <<pc, hold, attempt, o, lc, adapter>>
    BY <1>1, <1>4 DEF PointInv
  <1> QED
    BY <1>2, <1>3, <1>4, OtherPlaces

LEMMA NextParts ==
  ASSUME [Next]_vars
  PROVE  \/ PhaseAB \/ Tearing \/ Closing \/ Exchange \/ Serve
         \/ Fail \/ FailStopServing \/ FailRollback \/ Restore \/ Others
  BY DEF Next, Orchestrate, CuttingOver, Failing, Closing, Exchange, Serve, Restore, Others

LEMMA PointStep ==
  ASSUME "record_open" \notin Fallible, CutInv, PointInv, [Next]_vars
  PROVE  PointInv'
  BY NextParts, PointPreparation, PointExchange, PointServe, PointRollback, PointOthers

(* The bindings *)

LEMMA AliasTyped ==
  ASSUME alias \in [file : Roots, loaded : Roots], [Next]_vars
  PROVE  alias' \in [file : Roots, loaded : Roots]
  <1>1. CASE PhaseAB
    <2>1. CASE Checking
      BY <2>1, CheckPlaces DEF CheckFrame, releaseVars, bindingVars
    <2>2. CASE ReloadValidation \/ BindGateway \/ BindValidation
      BY <2>2 DEF ReloadValidation, BindGateway, BindValidation, DaemonReload, BindValidationGateway,
         BindValidationCandidate, bindingVars
    <2>3. CASE ~Checking /\ ~ReloadValidation /\ ~BindGateway /\ ~BindValidation
      BY <1>1, <2>3 DEF PhaseAB, Checking, ValidateIdentityAndTarget, PreflightSchema,
         ConfigureReleaseControls, PreflightIntegration, ScanResidue, PhaseAFrame, Backup, PrepareTarget,
         Migrate, PrepareRelease, StartValidationApi, ValidationRuntimePreflightFails,
         WaitCandidateValidationReady, releaseVars, vfoswindVars, bindingVars
    <2> QED
      BY <2>1, <2>2, <2>3
  <1>2. CASE Tearing
    BY <1>2 DEF Tearing, StopValidationApi, TeardownSession, RestoreValidation, ReloadAfterValidation,
       RestoreGateway, releaseVars, vfoswindVars, bindingVars, DaemonReload, RestoreValidationBinding,
       RestoreValidationGateway
  <1>3. CASE Closing \/ Others
    BY <1>3, ClosingPlaces, OtherFrames
  <1>4. CASE Exchange
    BY <1>4 DEF Exchange, EnsureFlatCurrentBaseline, Switch, vfoswindVars, bindingVars
  <1>5. CASE Serve
    <2>1. CASE BindRelease
      BY <2>1 DEF BindRelease, BindCurrentRelease, Roots
    <2>2. CASE ReloadGateway
      <3>1. PICK ok : ReloadNginx(ok)
        BY <2>2 DEF ReloadGateway
      <3> QED
        BY <3>1 DEF ReloadNginx
    <2>3. CASE ~BindRelease /\ ~ReloadGateway
      BY <1>5, <2>3 DEF Serve, BindDatabase, ReloadUnits, ActivateServing, VerifyReleaseEndpoint,
         ValidateFinalGate, Open, VerifyPostOpenServing, Finalize, RecordOpen, BindCandidateDatabase,
         DaemonReload, vfoswindVars, bindingVars
    <2> QED
      BY <2>1, <2>2, <2>3
  <1>6. CASE Fail \/ FailStopServing \/ FailRollback
    BY <1>6 DEF Fail, FailStopServing, FailRollback, vfoswindVars, bindingVars
  <1>7. CASE Restore
    <2>1. CASE FailRestoreBindings
      <3>1. alias' = alias \/ alias' = [alias EXCEPT !.file = "flat"]
        BY <2>1 DEF FailRestoreBindings, RestoreReleaseBindings, vfoswindVars, bindingVars
      <3> QED
        BY <3>1 DEF Roots
    <2>2. CASE FailReloadNginx
      <3>1. alias' = alias \/ \E ok : ReloadNginx(ok)
        BY <2>2 DEF FailReloadNginx, vfoswindVars, bindingVars
      <3> QED
        BY <3>1 DEF ReloadNginx
    <2>3. CASE FailReloadBindings \/ FailRestoreDatabase \/ FailReloadDatabase
      BY <2>3 DEF FailReloadBindings, FailRestoreDatabase, FailReloadDatabase, DaemonReload,
         RestoreDatabaseBinding, vfoswindVars, bindingVars
    <2>4. CASE ~FailRestoreBindings /\ ~FailReloadNginx /\ ~FailReloadBindings /\ ~FailRestoreDatabase
               /\ ~FailReloadDatabase
      BY <1>7, <2>4 DEF Restore, FailAbort, Refreeze, PreserveCurrent, StopCandidate, StartPrevious,
         LiftFreeze, FailTeardown, FailCleanup, vfoswindVars, bindingVars
    <2> QED
      BY <2>1, <2>2, <2>3, <2>4
  <1> QED
    BY <1>1, <1>2, <1>3, <1>4, <1>5, <1>6, <1>7, NextParts

LEMMA ServeElsewhere ==
  ASSUME alias' \in [file : Roots, loaded : Roots], pc' \notin Switched
  PROVE  ServeInv'
  BY DEF ServeInv, Verified, Switched, Started

(* Nothing that is served changes. *)
LEMMA ServeOn ==
  ASSUME ServeInv, UNCHANGED <<serving, unit, alias, env, attempt, setup>>,
         pc \in Verified, pc' \in Verified \cup {"fail"},
         pc' \in {"record_open", "READY"} => ~marker'
  PROVE  ServeInv'
  <1>1. Production' <=> Production
    BY DEF Production
  <1> QED
    BY <1>1 DEF ServeInv, Verified, Started

LEMMA ServeServe ==
  ASSUME "record_open" \notin Fallible, CutInv, ServeInv, Serve
  PROVE  ServeInv'
  <1>1. /\ attempt' = attempt /\ setup' = setup /\ (Production' <=> Production)
        /\ alias \in [file : Roots, loaded : Roots]
    BY ServePlaces DEF Production, ServeInv
  <1>2. alias' \in [file : Roots, loaded : Roots]
    BY <1>1, AliasTyped DEF Next, Orchestrate, CuttingOver, Serve
  <1>3. CASE BindRelease
    <2>1. pc' \in {"bind_database", "fail"} /\ (pc' = "bind_database" => alias'.file = "current")
      BY <1>1, <1>3 DEF BindRelease, BindCurrentRelease, Continue
    <2> QED
      BY <1>2, <2>1 DEF ServeInv, Verified, Started
  <1>4. CASE BindDatabase \/ ReloadUnits
    <2>1. /\ pc \in {"bind_database", "reload"} /\ pc' \in {"reload", "activate", "fail"}
          /\ UNCHANGED alias
      BY <1>4 DEF BindDatabase, ReloadUnits, BindCandidateDatabase, DaemonReload, Continue
    <2> QED
      BY <1>1, <1>2, <2>1 DEF ServeInv, Verified, Started
  <1>5. CASE ActivateServing
    <2>1. /\ pc = "activate" /\ pc' \in {"nginx", "verify", "fail"} /\ (pc' = "verify" => ~Production)
          /\ UNCHANGED <<alias, unit, env>>
      BY <1>5 DEF ActivateServing, Continue, vfoswindVars, bindingVars
    <2>2. Production => unit.loaded = "current" /\ env = attempt /\ alias.file = "current"
      BY <2>1 DEF CutInv, BoundInv, ServeInv
    <2> QED
      BY <1>1, <1>2, <2>1, <2>2 DEF ServeInv, Verified, Started
  <1>6. CASE ReloadGateway
    <2>1. PICK ok : /\ ReloadNginx(ok) /\ Continue(ok, "verify") /\ pc = "nginx"
      BY <1>6 DEF ReloadGateway
    <2>2. /\ UNCHANGED <<unit, env>> /\ pc' \in {"verify", "fail"}
          /\ pc' = "verify" => alias'.loaded = alias.file
      BY <1>1, <2>1 DEF ReloadNginx, Continue
    <2>3. Production => unit.loaded = "current" /\ env = attempt /\ alias.file = "current"
      BY <2>1 DEF ServeInv, Started
    <2> QED
      BY <1>1, <1>2, <2>2, <2>3 DEF ServeInv, Verified, Started
  <1>7. CASE VerifyReleaseEndpoint
    <2>1. /\ pc = "verify" /\ pc' \in {"final_gate", "fail"} /\ UNCHANGED <<serving, unit, alias, env>>
          /\ pc' = "final_gate" => serving.up /\ serving.release = attempt
      BY <1>7 DEF VerifyReleaseEndpoint, EndpointIsCandidate, Continue, procVars, vfoswindVars, bindingVars
    <2>2. Production => unit.loaded = "current" /\ env = attempt /\ alias.loaded = "current"
      BY <2>1 DEF ServeInv, Started
    <2> QED
      BY <1>1, <1>2, <2>1, <2>2 DEF ServeInv, Verified, Started
  <1>8. CASE ValidateFinalGate \/ Open \/ VerifyPostOpenServing \/ Finalize \/ RecordOpen
    <2>1. UNCHANGED <<serving, unit, alias, env>> /\ pc \in Verified /\ pc' \in Verified \cup {"fail"}
      BY <1>8 DEF ValidateFinalGate, Open, VerifyPostOpenServing, Finalize, RecordOpen, Continue, hostVars,
         procVars, vfoswindVars, bindingVars, Verified
    <2>2. pc' \in {"record_open", "READY"} => ~marker'
      <3>1. CASE ValidateFinalGate \/ Open \/ VerifyPostOpenServing
        BY <3>1 DEF ValidateFinalGate, Open, VerifyPostOpenServing, Continue
      <3>2. CASE Finalize
        BY <3>2 DEF Finalize, FinalizeTrafficOpen
      <3>3. CASE RecordOpen
        BY <3>3 DEF RecordOpen, ServeInv
      <3> QED
        BY <1>8, <3>1, <3>2, <3>3
    <2> QED
      BY <1>1, <2>1, <2>2, ServeOn
  <1> QED
    BY <1>3, <1>4, <1>5, <1>6, <1>7, <1>8 DEF Serve

LEMMA ServeStep ==
  ASSUME "record_open" \notin Fallible, CutInv, ServeInv, [Next]_vars
  PROVE  ServeInv'
  <1>1. alias' \in [file : Roots, loaded : Roots]
    BY AliasTyped DEF ServeInv
  <1>2. CASE PhaseAB \/ Tearing
    <2>1. pc' \in Early \cup TeardownSteps \cup {"gate", "fail", "refused", "f_cleanup"}
      BY <1>2, PreparationPlaces, TearingPlaces DEF TeardownSteps
    <2>2. pc' \notin Switched
      BY <2>1, PhaseBPlaces DEF Early, TeardownSteps, Switched, Started
    <2> QED
      BY <1>1, <2>2, ServeElsewhere
  <1>3. CASE Closing \/ Fail \/ FailStopServing \/ FailRollback \/ Restore
    <2>1. pc' \notin Switched
      BY <1>3, ClosingPlaces, RestorePlaces DEF Fail, FailStopServing, FailRollback, Freezing, FailSteps,
         AbortSteps, Switched, Started
    <2> QED
      BY <1>1, <2>1, ServeElsewhere
  <1>4. CASE Exchange
    <2>1. /\ pc' \in {"switch", "bind_release", "activate", "fail"} /\ setup' = setup
          /\ pc' = "activate" => ~Production
      BY <1>4 DEF Exchange, EnsureFlatCurrentBaseline, Switch, Continue, lifecycleVars
    <2>2. pc' = "activate" => ~Production'
      BY <2>1 DEF Production
    <2> QED
      BY <1>1, <2>1, <2>2 DEF ServeInv, Verified, Started
  <1>5. CASE Serve
    BY <1>5, ServeServe
  <1>6. CASE Others
    <2>1. CASE pc' \in {"crashed", "preflight"}
      <3>1. pc' \notin Switched
        BY <2>1 DEF Switched, Started
      <3> QED
        BY <1>1, <3>1, ServeElsewhere
    <2>2. CASE UNCHANGED <<pc, hold, attempt, o, lc, adapter>>
      <3>1. UNCHANGED <<serving, marker, unit, alias, env, setup>>
        BY <1>6, OtherFrames
      <3> QED
        BY <2>2, <3>1 DEF ServeInv, Production
    <2> QED
      BY <1>6, <2>1, <2>2, OtherPlaces
  <1> QED
    BY <1>2, <1>3, <1>4, <1>5, <1>6, NextParts

(* The validation process *)

LEMMA PreparationValid ==
  ASSUME CutInv, ValidInv, PhaseAB
  PROVE  ValidInv'
  <1>1. validation \in [up : BOOLEAN, db : Ids] /\ attempt \in Ids
    BY IdFacts DEF ValidInv, CutInv, HostTypes
  <1>2. validation' \in [up : BOOLEAN, db : Ids]
    <2>1. CASE Checking
      BY <1>1, <2>1, CheckPlaces DEF CheckFrame, procVars
    <2>2. CASE ScanResidue
      <3>1. validation' = validation \/ validation' = [validation EXCEPT !.up = FALSE]
        BY <2>2 DEF ScanResidue, TeardownResidue
      <3> QED
        BY <1>1, <3>1
    <2>3. CASE StartValidationApi
      <3>1. \E up \in BOOLEAN : validation' = [up |-> up, db |-> attempt]
        BY <2>3, OutcomesAre DEF StartValidationApi, StartLocal, StartUnit, StartValidation
      <3> QED
        BY <1>1, <3>1
    <2>4. CASE ~Checking /\ ~ScanResidue /\ ~StartValidationApi
      BY <1>1, <2>4 DEF PhaseAB, Checking, ValidateIdentityAndTarget, PreflightSchema,
         ConfigureReleaseControls, PreflightIntegration, PhaseAFrame, Backup, PrepareTarget, Migrate,
         PrepareRelease, BindGateway, BindValidation, ReloadValidation, ValidationRuntimePreflightFails,
         WaitCandidateValidationReady, procVars
    <2> QED
      BY <2>1, <2>2, <2>3, <2>4
  <1>3. pc' \notin {"t_binding", "t_reload", "t_gateway"} /\ pc' \notin Quiet
    BY PreparationPlaces, PhaseBPlaces DEF Early, Quiet, PhaseD
  <1> QED
    BY <1>2, <1>3 DEF ValidInv

LEMMA TearingValid ==
  ASSUME CutInv, ValidInv, Tearing
  PROVE  ValidInv'
  <1>1. validation \in [up : BOOLEAN, db : Ids] /\ o \in Flags
    BY DEF ValidInv, CutInv, OwnTypes
  <1>2. CASE StopValidationApi
    <2>1. pc' = "t_session"
      BY <1>2 DEF StopValidationApi
    <2>2. validation' = validation \/ \E up \in BOOLEAN : validation' = [validation EXCEPT !.up = up]
      <3>1. CASE UNCHANGED validation
        BY <3>1
      <3>2. CASE StopLocal(attempt)
        BY <1>1, <3>2 DEF StopLocal, TeardownStops
      <3>3. ASSUME NEW ok \in BOOLEAN, StopUnit(ok) PROVE \E up \in BOOLEAN : validation' = [validation EXCEPT !.up = up]
        BY <1>1, <3>3 DEF StopUnit, StopValidation
      <3>4. UNCHANGED validation \/ StopLocal(attempt) \/ \E ok \in BOOLEAN : StopUnit(ok)
        <4>1. CASE ~lc.api_started
          BY <1>2, <4>1 DEF StopValidationApi
        <4>2. CASE lc.api_started
          <5>1. \E ok \in Outcomes("stop_validation") :
                   IF setup.control = "local" THEN StopLocal(attempt) ELSE StopUnit(ok)
            BY <1>2, <4>2 DEF StopValidationApi
          <5> QED
            BY <5>1, OutcomesAre
        <4> QED
          BY <4>1, <4>2
      <3> QED
        BY <3>1, <3>2, <3>3, <3>4
    <2>3. validation' \in [up : BOOLEAN, db : Ids]
      BY <1>1, <2>2
    <2> QED
      BY <2>1, <2>3 DEF ValidInv, Quiet, PhaseD
  <1>3. CASE TeardownSession
    <2>1. /\ pc' = "t_binding"
          /\ o' = [o EXCEPT !.teardown = IF TeardownPassed(mine) THEN @ ELSE "FAILED"]
          /\ validation' = [validation EXCEPT !.up = validation.up /\ ~mine]
      BY <1>3 DEF TeardownSession, Teardowns, Teardown, TeardownStops
    <2>2. validation' \in [up : BOOLEAN, db : Ids] /\ (validation'.up => validation.up /\ ~mine)
      BY <1>1, <2>1
    <2>3. o'.teardown = "PASSED" => (validation.up => mine)
      BY <1>1, <2>1 DEF Flags, TeardownPassed
    <2> QED
      BY <2>1, <2>2, <2>3 DEF ValidInv, Quiet, PhaseD
  <1>4. ASSUME NEW ok, Teardowns(ok), o'.teardown = "PASSED" PROVE o.teardown = "PASSED"
    BY <1>1, <1>4 DEF Flags, Teardowns
  <1>5. CASE RestoreValidation
    <2>1. /\ pc = "t_binding" /\ pc' \in {"t_reload", "t_gateway"} /\ UNCHANGED validation
          /\ o' = o \/ \E ok : Teardowns(ok)
      BY <1>5 DEF RestoreValidation, procVars
    <2>2. o'.teardown = "PASSED" => ~validation.up
      BY <1>4, <2>1 DEF ValidInv
    <2> QED
      BY <1>1, <2>1, <2>2 DEF ValidInv, Quiet, PhaseD
  <1>6. CASE ReloadAfterValidation
    <2>1. /\ pc = "t_reload" /\ pc' = "t_gateway" /\ UNCHANGED validation /\ \E ok : Teardowns(ok)
      BY <1>6 DEF ReloadAfterValidation, procVars
    <2>2. o'.teardown = "PASSED" => ~validation.up
      BY <1>4, <2>1 DEF ValidInv
    <2> QED
      BY <1>1, <2>1, <2>2 DEF ValidInv, Quiet, PhaseD
  <1>7. CASE RestoreGateway
    <2>1. /\ pc = "t_gateway" /\ pc' \in {"gate", "fail", "f_cleanup"} /\ UNCHANGED validation
          /\ pc' = "gate" => o.teardown = "PASSED"
      BY <1>7 DEF RestoreGateway, Continue, procVars
    <2>2. pc' = "gate" => ~validation.up
      BY <2>1 DEF ValidInv
    <2> QED
      BY <1>1, <2>1, <2>2 DEF ValidInv, Quiet, PhaseD
  <1> QED
    BY <1>2, <1>3, <1>5, <1>6, <1>7 DEF Tearing

LEMMA LaterPlaces ==
  ASSUME "record_open" \notin Fallible, Closing \/ Exchange \/ Serve
  PROVE  /\ pc \in Quiet /\ pc' \in Quiet \cup {"fail"}
         /\ UNCHANGED <<setup, validation, valEnv, pointer>>
  <1>1. CASE Closing
    BY <1>1, ClosingPlaces DEF Quiet, PhaseD, Freezing
  <1>2. CASE Exchange
    BY <1>2 DEF Exchange, EnsureFlatCurrentBaseline, Switch, Continue, procVars, vfoswindVars,
       validationBindingVars, lifecycleVars, Quiet, PhaseD
  <1>3. CASE Serve
    BY <1>3, ServePlaces DEF Quiet, PhaseD, Switched, Started
  <1> QED
    BY <1>1, <1>2, <1>3

LEMMA RollbackPlaces ==
  ASSUME Fail \/ FailStopServing \/ FailRollback \/ Restore
  PROVE  /\ pc \in Restoring \cup FailSteps \cup AbortSteps
         /\ pc' \in FailSteps \cup AbortSteps \cup {"t_stop", "failed"}
         /\ UNCHANGED <<setup, validation, valEnv, pointer>>
  <1>1. CASE Fail \/ FailStopServing \/ FailRollback
    BY <1>1 DEF Fail, FailStopServing, FailRollback, FailSteps, procVars, hostVars, vfoswindVars,
       validationBindingVars, lifecycleVars, Restoring
  <1>2. CASE Restore
    BY <1>2, RestorePlaces
  <1> QED
    BY <1>1, <1>2

LEMMA ValidStep ==
  ASSUME "record_open" \notin Fallible, CutInv, ValidInv, [Next]_vars
  PROVE  ValidInv'
  <1>1. CASE PhaseAB
    BY <1>1, PreparationValid
  <1>2. CASE Tearing
    BY <1>2, TearingValid
  <1>3. CASE Closing \/ Exchange \/ Serve
    <2>1. pc \in Quiet /\ pc' \in Quiet \cup {"fail"} /\ UNCHANGED validation
      BY <1>3, LaterPlaces
    <2>2. pc' \notin {"t_binding", "t_reload", "t_gateway"}
      BY <2>1 DEF Quiet, PhaseD
    <2> QED
      BY <2>1, <2>2 DEF ValidInv
  <1>4. CASE Fail \/ FailStopServing \/ FailRollback \/ Restore
    <2>1. pc' \in FailSteps \cup AbortSteps \cup {"t_stop", "failed"} /\ UNCHANGED validation
      BY <1>4, RollbackPlaces
    <2>2. pc' \notin {"t_binding", "t_reload", "t_gateway"} /\ pc' \notin Quiet
      BY <2>1 DEF Quiet, PhaseD, FailSteps, AbortSteps
    <2> QED
      BY <2>1, <2>2 DEF ValidInv
  <1>5. CASE Others
    <2>1. UNCHANGED validation
      BY <1>5, OtherFrames
    <2>2. CASE pc' \in {"crashed", "preflight"}
      BY <2>1, <2>2 DEF ValidInv, Quiet, PhaseD
    <2>3. CASE UNCHANGED <<pc, hold, attempt, o, lc, adapter>>
      BY <2>1, <2>3 DEF ValidInv
    <2> QED
      BY <1>5, <2>2, <2>3, OtherPlaces
  <1> QED
    BY <1>1, <1>2, <1>3, <1>4, <1>5, NextParts

(* What the validation was bound to *)

(* What is bound stays bound, between two places that need it. *)
LEMMA HandOn ==
  ASSUME CutInv, HandInv, UNCHANGED <<setup, adapter>>, o'.failed <=> o.failed,
         \/ pc' \in {"fail", "refused"}
         \/ pc \in ToBind \cup {"reload_validation"} /\ pc' \in ToBind
  PROVE  HandInv'
  <1>1. Production' <=> Production
    BY DEF Production
  <1>2. CASE pc' \in {"fail", "refused"}
    BY <1>2 DEF HandInv, ToBind, Quiet, PhaseD, CheckSections, ProductionCheckSections, FixtureSections,
       CandidateSections, AuditSections, RollbackSections
  <1>3. CASE pc \in ToBind \cup {"reload_validation"} /\ pc' \in ToBind
    <2>1. pc' \notin {"t_reload", "t_gateway"} /\ pc' \notin Quiet
      BY <1>3 DEF ToBind, Quiet, PhaseD, CheckSections, ProductionCheckSections, FixtureSections,
         CandidateSections, AuditSections, RollbackSections
    <2> QED
      BY <1>1, <1>3, <2>1 DEF HandInv
  <1> QED
    BY <1>2, <1>3

LEMMA PreparationHand ==
  ASSUME CutInv, HandInv, PhaseAB
  PROVE  HandInv'
  <1>1. setup' = setup /\ (Production' <=> Production)
    BY PreparationAlone DEF Steady, SameHost, Production
  <1>2. adapter \in Adapters
    BY DEF CutInv, OwnTypes
  <1>3. CASE Checking
    <2>1. UNCHANGED <<adapter, o>>
      BY <1>3, CheckPlaces DEF CheckFrame
    <2>2. /\ pc \in CheckSections \cup ProductionCheckSections
          /\ pc' \in CheckSections \cup ProductionCheckSections \cup {"fail", "t_stop"}
      BY <1>3 DEF Checking, TargetedTests, BrowserFixtureRegression, CandidateBrowserEvidence,
         CandidateAuthenticatedMutation, ReleasePerformance, PathMappingAudit, SidecarAudit,
         SecurityAudit, RollbackEvidence, CheckSections, ProductionCheckSections, FixtureSections,
         CandidateSections, AuditSections, RollbackSections, ReadArtifact, ReadSessionArtifact, Continue
    <2> QED
      BY <1>1, <2>1, <2>2, HandOn DEF ToBind
  <1>4. CASE \/ ReloadValidation \/ StartValidationApi \/ ValidationRuntimePreflightFails
             \/ WaitCandidateValidationReady
    <2>1. UNCHANGED <<adapter, o>>
      BY <1>4 DEF ReloadValidation, StartValidationApi, ValidationRuntimePreflightFails,
         WaitCandidateValidationReady, DaemonReload
    <2>2. /\ pc \in {"reload_validation", "start_validation", "wait_ready"}
          /\ pc' \in {"start_validation", "wait_ready", "targeted_tests", "fail"}
      BY <1>4 DEF ReloadValidation, StartValidationApi, ValidationRuntimePreflightFails,
         WaitCandidateValidationReady, Continue
    <2> QED
      BY <1>1, <2>1, <2>2, HandOn DEF ToBind, CheckSections, FixtureSections
  <1>5. CASE BindGateway
    <2>1. PICK ok : BindValidationGateway(attempt, ok) /\ Continue(ok, "bind_validation")
      BY <1>5 DEF BindGateway
    <2>2. pc' \in {"bind_validation", "fail"} /\ (pc' = "bind_validation" => adapter'.validation_gateway_bound)
      BY <1>2, <2>1 DEF BindValidationGateway, Continue, Adapters
    <2> QED
      BY <2>2 DEF HandInv, ToBind, Quiet, PhaseD, CheckSections, ProductionCheckSections, FixtureSections,
         CandidateSections, AuditSections, RollbackSections
  <1>6. CASE BindValidation
    <2>1. PICK ok : /\ BindValidationCandidate(attempt, ok) /\ Continue(ok, "reload_validation")
                    /\ pc = "bind_validation" /\ UNCHANGED o
      BY <1>6 DEF BindValidation
    <2>2. /\ pc' \in {"reload_validation", "fail"}
          /\ pc' = "reload_validation" => /\ adapter'.validation_binding_changed
                                          /\ adapter'.validation_gateway_bound <=> adapter.validation_gateway_bound
      BY <1>2, <2>1 DEF BindValidationCandidate, Continue, Adapters
    <2>3. Production /\ ~o.failed => adapter.validation_gateway_bound
      BY <2>1 DEF HandInv
    <2> QED
      BY <1>1, <2>1, <2>2, <2>3 DEF HandInv, ToBind, Quiet, PhaseD, CheckSections, ProductionCheckSections,
         FixtureSections, CandidateSections, AuditSections, RollbackSections
  <1>7. CASE PrepareRelease
    <2>1. pc' \in {"gateway", "start_validation", "fail"} /\ (pc' = "start_validation" => ~Production)
      BY <1>7 DEF PrepareRelease, Continue
    <2> QED
      BY <1>1, <2>1 DEF HandInv, ToBind, Quiet, PhaseD, CheckSections, ProductionCheckSections,
         FixtureSections, CandidateSections, AuditSections, RollbackSections
  <1>8. CASE \/ ValidateIdentityAndTarget \/ PreflightSchema \/ ConfigureReleaseControls
             \/ PreflightIntegration \/ ScanResidue \/ Backup \/ PrepareTarget \/ Migrate
    <2>1. pc' \in {"preflight_schema", "preflight_controls", "preflight_host", "residue", "backup", "target",
                   "migrate", "prepare", "fail", "refused"}
      BY <1>8 DEF ValidateIdentityAndTarget, PreflightSchema, ConfigureReleaseControls,
         PreflightIntegration, ScanResidue, Backup, PrepareTarget, Migrate, Continue, Refuse
    <2> QED
      BY <2>1 DEF HandInv, ToBind, Quiet, PhaseD, CheckSections, ProductionCheckSections,
         FixtureSections, CandidateSections, AuditSections, RollbackSections
  <1> QED
    BY <1>3, <1>4, <1>5, <1>6, <1>7, <1>8 DEF PhaseAB, Checking

LEMMA TearingHand ==
  ASSUME CutInv, HandInv, Tearing
  PROVE  HandInv'
  <1>1. setup' = setup /\ (Production' <=> Production)
    BY PreparationAlone DEF Steady, SameHost, Production
  <1>2. adapter \in Adapters /\ o \in Flags
    BY DEF CutInv, OwnTypes
  <1>3. CASE StopValidationApi \/ TeardownSession
    <2>1. /\ pc \in {"t_stop", "t_session"} /\ pc' \in {"t_session", "t_binding"} /\ UNCHANGED adapter
          /\ \E b : o' = [o EXCEPT !.teardown = b]
      BY <1>3 DEF StopValidationApi, TeardownSession, Teardowns
    <2>2. o'.failed <=> o.failed
      BY <1>2, <2>1 DEF Flags
    <2> QED
      BY <1>1, <2>1, <2>2, HandOn DEF ToBind
  <1>4. ASSUME NEW ok, Teardowns(ok)
        PROVE  /\ o'.failed <=> o.failed
               /\ o'.teardown = "PASSED" => ok /\ o.teardown = "PASSED"
    BY <1>2, <1>4 DEF Flags, Teardowns
  <1>5. CASE RestoreValidation
    <2>1. pc = "t_binding" /\ pc' \in {"t_reload", "t_gateway"}
      BY <1>5 DEF RestoreValidation
    <2>2. Production /\ ~o.failed => adapter.validation_gateway_bound /\ adapter.validation_binding_changed
      BY <2>1 DEF HandInv, ToBind
    <2>3. CASE o.teardown = "PASSED" /\ adapter.validation_binding_changed
      <3>1. PICK ok : RestoreValidationBinding(ok) /\ Teardowns(ok)
        BY <1>5, <2>3 DEF RestoreValidation
      <3>2. adapter'.validation_gateway_bound <=> adapter.validation_gateway_bound
        BY <1>2, <3>1 DEF RestoreValidationBinding, Adapters
      <3>3. (o'.failed <=> o.failed) /\ (o'.teardown = "PASSED" => valEnv' = None)
        BY <1>4, <3>1 DEF RestoreValidationBinding
      <3> QED
        BY <1>1, <2>1, <2>2, <3>2, <3>3 DEF HandInv, ToBind, Quiet, PhaseD, CheckSections,
           ProductionCheckSections, FixtureSections, CandidateSections, AuditSections, RollbackSections
    <2>4. CASE ~(o.teardown = "PASSED" /\ adapter.validation_binding_changed)
      <3>1. UNCHANGED <<adapter, o>>
        BY <1>5, <2>4 DEF RestoreValidation, vfoswindVars
      <3> QED
        BY <1>1, <2>1, <2>2, <2>4, <3>1 DEF HandInv, ToBind, Quiet, PhaseD, CheckSections,
           ProductionCheckSections, FixtureSections, CandidateSections, AuditSections, RollbackSections
    <2> QED
      BY <2>3, <2>4
  <1>6. CASE ReloadAfterValidation
    <2>1. PICK ok : DaemonReload(ok) /\ Teardowns(ok) /\ pc = "t_reload" /\ pc' = "t_gateway"
      BY <1>6 DEF ReloadAfterValidation
    <2>2. UNCHANGED <<adapter, valEnv>>
      BY <2>1 DEF DaemonReload, validationBindingVars
    <2>3. (o'.failed <=> o.failed) /\ (o'.teardown = "PASSED" => o.teardown = "PASSED")
      BY <1>4, <2>1
    <2> QED
      BY <1>1, <2>1, <2>2, <2>3 DEF HandInv, ToBind, Quiet, PhaseD, CheckSections,
         ProductionCheckSections, FixtureSections, CandidateSections, AuditSections, RollbackSections
  <1>7. CASE RestoreGateway
    <2>1. pc = "t_gateway" /\ pc' \in {"gate", "fail", "f_cleanup"}
      BY <1>7 DEF RestoreGateway, Continue
    <2>2. ASSUME pc' = "gate", Production PROVE valEnv' = None /\ pointer' = None
      <3>1. ~o.failed /\ o.teardown = "PASSED"
        BY <1>7, <2>2 DEF RestoreGateway, Continue
      <3>2. adapter.validation_gateway_bound /\ valEnv = None
        BY <2>1, <2>2, <3>1 DEF HandInv
      <3>3. PICK ok : RestoreValidationGateway(ok) /\ Continue(ok /\ o.teardown = "PASSED", "gate")
        BY <1>7, <3>1, <3>2 DEF RestoreGateway
      <3> QED
        BY <2>2, <3>2, <3>3 DEF RestoreValidationGateway, Continue
    <2> QED
      BY <1>1, <2>1, <2>2 DEF HandInv, ToBind, Quiet, PhaseD, CheckSections,
         ProductionCheckSections, FixtureSections, CandidateSections, AuditSections, RollbackSections
  <1> QED
    BY <1>3, <1>5, <1>6, <1>7 DEF Tearing

LEMMA HandStep ==
  ASSUME "record_open" \notin Fallible, CutInv, HandInv, [Next]_vars
  PROVE  HandInv'
  <1>1. CASE PhaseAB
    BY <1>1, PreparationHand
  <1>2. CASE Tearing
    BY <1>2, TearingHand
  <1>3. CASE Closing \/ Exchange \/ Serve
    <2>1. /\ pc \in Quiet /\ pc' \in Quiet \cup {"fail"}
          /\ UNCHANGED <<setup, valEnv, pointer>>
      BY <1>3, LaterPlaces
    <2>2. pc' \notin ToBind \cup {"bind_validation", "reload_validation", "t_reload", "t_gateway"}
      BY <2>1 DEF Quiet, PhaseD, ToBind, CheckSections, ProductionCheckSections, FixtureSections,
         CandidateSections, AuditSections, RollbackSections
    <2> QED
      BY <2>1, <2>2 DEF HandInv, Production, Quiet, PhaseD
  <1>4. CASE Fail \/ FailStopServing \/ FailRollback \/ Restore
    <2>1. pc' \in FailSteps \cup AbortSteps \cup {"t_stop", "failed"}
      BY <1>4, RollbackPlaces
    <2>2. ASSUME pc' = "t_stop" PROVE o'.failed
      <3>1. FailTeardown
        BY <1>4, <2>2 DEF Fail, FailStopServing, FailRollback, Restore, FailRestoreBindings,
           FailReloadBindings, FailRestoreDatabase, FailReloadDatabase, FailAbort, Refreeze,
           PreserveCurrent, StopCandidate, StartPrevious, LiftFreeze, FailReloadNginx, FailCleanup, AbortTo
      <3> QED
        BY <3>1 DEF FailTeardown, CutInv, FreezeInv
    <2>3. /\ pc' = "t_stop" \/ pc' \notin ToBind
          /\ pc' \notin Quiet \cup {"bind_validation", "reload_validation", "t_reload", "t_gateway"}
      BY <2>1 DEF FailSteps, AbortSteps, Quiet, PhaseD, ToBind, CheckSections, ProductionCheckSections,
         FixtureSections, CandidateSections, AuditSections, RollbackSections
    <2> QED
      BY <2>2, <2>3 DEF HandInv
  <1>5. CASE Others
    <2>1. UNCHANGED <<setup, valEnv, pointer>>
      BY <1>5, OtherFrames
    <2>2. CASE pc' \in {"crashed", "preflight"}
      BY <2>2 DEF HandInv, Quiet, PhaseD, ToBind, CheckSections, ProductionCheckSections,
         FixtureSections, CandidateSections, AuditSections, RollbackSections
    <2>3. CASE UNCHANGED <<pc, hold, attempt, o, lc, adapter>>
      BY <2>1, <2>3 DEF HandInv, Production
    <2> QED
      BY <1>5, <2>2, <2>3, OtherPlaces
  <1> QED
    BY <1>1, <1>2, <1>3, <1>4, <1>5, NextParts

(* The decision *)

MayBeReady == Decided \cup {"fail", "crashed", "preflight"}

LEMMA Undecided ==
  ASSUME DecisionInv, UNCHANGED decision, pc \notin MayBeReady, pc' \notin Decided
  PROVE  DecisionInv'
  BY DEF DecisionInv, MayBeReady

LEMMA DecidedServe ==
  ASSUME "record_open" \notin Fallible, CutInv, PointInv, ServeInv, ValidInv, DecisionInv, Serve
  PROVE  DecisionInv'
  <1>1. CASE \/ BindRelease \/ BindDatabase \/ ReloadUnits \/ ActivateServing \/ ReloadGateway
             \/ VerifyReleaseEndpoint
    <2>1. UNCHANGED decision
      BY <1>1 DEF BindRelease, BindDatabase, ReloadUnits, ActivateServing, ReloadGateway,
         VerifyReleaseEndpoint, manifestVars
    <2>2. /\ pc \in {"bind_release", "bind_database", "reload", "activate", "nginx", "verify"}
          /\ pc' \in {"bind_database", "reload", "activate", "nginx", "verify", "final_gate", "fail"}
      BY <1>1 DEF BindRelease, BindDatabase, ReloadUnits, ActivateServing, ReloadGateway,
         VerifyReleaseEndpoint, Continue
    <2>3. pc \notin MayBeReady /\ pc' \notin Decided
      BY <2>2 DEF MayBeReady, Decided
    <2> QED
      BY <2>1, <2>3, Undecided
  <1>2. CASE ValidateFinalGate
    <2>1. /\ pc \in {"final_gate", "open_gate"} /\ UNCHANGED <<serving, validation, current, attempt>>
          /\ \/ decision' = "READY" /\ pc' \in {"finalize", "open"}
             \/ decision' = "NOT_READY" /\ pc' = "fail"
      BY <1>2 DEF ValidateFinalGate, Decide, Continue, hostVars, procVars, publisherVars
    <2>2. current \in Attempts /\ serving.release = current /\ ~validation.up
      BY <2>1 DEF PointInv, ServeInv, ValidInv, Switched, Started, Verified, Quiet, PhaseD, CutInv, HostTypes
    <2> QED
      BY <2>1, <2>2 DEF DecisionInv, Decided
  <1>3. CASE Open \/ VerifyPostOpenServing \/ Finalize \/ RecordOpen
    <2>1. UNCHANGED <<serving, validation, current, decision>>
      BY <1>3 DEF Open, VerifyPostOpenServing, Finalize, RecordOpen, procVars, publisherVars, manifestVars
    <2>2. pc \in Decided /\ pc' \in Decided \cup {"fail"}
      BY <1>3 DEF Open, VerifyPostOpenServing, Finalize, RecordOpen, Continue, Decided
    <2> QED
      BY <2>1, <2>2 DEF DecisionInv
  <1> QED
    BY <1>1, <1>2, <1>3 DEF Serve

LEMMA DecisionStep ==
  ASSUME "record_open" \notin Fallible, CutInv, PointInv, ServeInv, ValidInv, DecisionInv, [Next]_vars
  PROVE  DecisionInv'
  <1>1. CASE PhaseAB
    <2>1. pc \in Early /\ pc' \in Early \cup {"t_stop", "fail", "refused"}
      BY <1>1, PreparationPlaces
    <2>2. pc' \notin Decided
      BY <2>1, PhaseBPlaces DEF Early, Decided
    <2>3. CASE ValidateIdentityAndTarget
      BY <2>2, <2>3 DEF ValidateIdentityAndTarget, Decide, DecisionInv
    <2>4. CASE Checking
      <3>1. UNCHANGED decision
        BY <2>4, CheckPlaces DEF CheckFrame
      <3>2. pc \in CheckSections \cup ProductionCheckSections
        BY <2>4 DEF Checking, TargetedTests, BrowserFixtureRegression, CandidateBrowserEvidence,
           CandidateAuthenticatedMutation, ReleasePerformance, PathMappingAudit, SidecarAudit,
           SecurityAudit, RollbackEvidence, CheckSections, ProductionCheckSections, FixtureSections,
           CandidateSections, AuditSections, RollbackSections
      <3>3. pc \notin MayBeReady
        BY <3>2 DEF MayBeReady, Decided, CheckSections, ProductionCheckSections, FixtureSections,
           CandidateSections, AuditSections, RollbackSections
      <3> QED
        BY <2>2, <3>1, <3>3, Undecided
    <2>5. CASE ~ValidateIdentityAndTarget /\ ~Checking
      <3>1. UNCHANGED decision
        BY <1>1, <2>5 DEF PhaseAB, Checking, PreflightSchema, ConfigureReleaseControls,
           PreflightIntegration, ScanResidue, Backup, PrepareTarget, Migrate, PrepareRelease, BindGateway,
           BindValidation, ReloadValidation, StartValidationApi, ValidationRuntimePreflightFails,
           WaitCandidateValidationReady, manifestVars
      <3>2. pc \notin MayBeReady
        BY <1>1, <2>5 DEF PhaseAB, Checking, PreflightSchema, ConfigureReleaseControls,
           PreflightIntegration, ScanResidue, Backup, PrepareTarget, Migrate, PrepareRelease, BindGateway,
           BindValidation, ReloadValidation, StartValidationApi, ValidationRuntimePreflightFails,
           WaitCandidateValidationReady, MayBeReady, Decided
      <3> QED
        BY <2>2, <3>1, <3>2, Undecided
    <2> QED
      BY <2>3, <2>4, <2>5
  <1>2. CASE Tearing
    <2>1. UNCHANGED decision
      BY <1>2 DEF Tearing, StopValidationApi, TeardownSession, RestoreValidation, ReloadAfterValidation,
         RestoreGateway, manifestVars
    <2>2. pc \notin MayBeReady /\ pc' \notin Decided
      BY <1>2, TearingPlaces DEF TeardownSteps, MayBeReady, Decided
    <2> QED
      BY <2>1, <2>2, Undecided
  <1>3. CASE Closing
    <2>1. pc \notin MayBeReady /\ pc' \notin Decided /\ UNCHANGED decision
      BY <1>3, ClosingPlaces DEF Freezing, MayBeReady, Decided
    <2> QED
      BY <2>1, Undecided
  <1>4. CASE Exchange
    <2>1. pc \notin MayBeReady /\ pc' \notin Decided /\ UNCHANGED decision
      BY <1>4 DEF Exchange, EnsureFlatCurrentBaseline, Switch, Continue, manifestVars, MayBeReady, Decided
    <2> QED
      BY <2>1, Undecided
  <1>5. CASE Serve
    BY <1>5, DecidedServe
  <1>6. CASE Fail
    BY <1>6 DEF Fail, Decide, DecisionInv, Decided
  <1>7. CASE FailStopServing \/ FailRollback \/ Restore
    <2>1. /\ pc \in (FailSteps \ {"fail"}) \cup AbortSteps
          /\ pc' \in FailSteps \cup AbortSteps \cup {"t_stop", "failed"}
          /\ UNCHANGED decision
      BY <1>7, RestorePlaces DEF FailStopServing, FailRollback, FailSteps, manifestVars
    <2>2. pc \notin MayBeReady /\ pc' \notin Decided
      BY <2>1 DEF FailSteps, AbortSteps, MayBeReady, Decided
    <2> QED
      BY <2>1, <2>2, Undecided
  <1>8. CASE Others
    <2>1. UNCHANGED <<decision, current, serving, validation>>
      BY <1>8, OtherFrames
    <2>2. CASE pc' \in {"crashed", "preflight"}
      BY <2>1, <2>2 DEF DecisionInv, Decided
    <2>3. CASE UNCHANGED <<pc, hold, attempt, o, lc, adapter>>
      BY <2>1, <2>3 DEF DecisionInv
    <2> QED
      BY <1>8, <2>2, <2>3, OtherPlaces
  <1> QED
    BY <1>1, <1>2, <1>3, <1>4, <1>5, <1>6, <1>7, <1>8, NextParts

LEMMA WholeFirst == Init => WholeInv
  <1> SUFFICES ASSUME Init PROVE WholeInv
    OBVIOUS
  <1>1. /\ pc = "preflight" /\ current \in {None, 0} /\ decision = "NOT_READY"
        /\ alias = [file |-> LayoutRoot, loaded |-> LayoutRoot]
        /\ validation = [up |-> FALSE, db |-> 0]
    BY DEF Init, HostInit, PublisherInit, VfoswindInit, ManifestInit
  <1>2. PointInv /\ DecisionInv
    BY <1>1 DEF PointInv, DecisionInv, Switched, Started, Decided
  <1>3. ServeInv /\ ValidInv
    BY <1>1, IdFacts DEF ServeInv, ValidInv, LayoutRoot, Roots, Verified, Started, Quiet, PhaseD
  <1>4. HandInv
    BY <1>1 DEF HandInv, Quiet, PhaseD, ToBind, CheckSections, ProductionCheckSections,
       FixtureSections, CandidateSections, AuditSections, RollbackSections
  <1> QED
    BY <1>2, <1>3, <1>4 DEF WholeInv

LEMMA WholeIsOne ==
  ASSUME CutInv, WholeInv
  PROVE  OneRelease
  <1>1. /\ PointInv /\ ServeInv /\ ValidInv /\ HandInv /\ DecisionInv
        /\ serving \in [up : BOOLEAN, release : Ids, db : Ids] /\ attempt \in Attempts
    BY DEF WholeInv, CutInv, HostTypes
  <1>2. NeverMixed
    <2> SUFFICES ASSUME Accepting
                 PROVE  /\ serving.release = serving.db
                        /\ Production /\ ~hold => ReleaseAt(alias.loaded) = serving.release
      BY DEF NeverMixed
    <2>1. ~marker /\ ~lc.active /\ pc \notin Window
      BY DEF Accepting, CutInv, FreezeInv
    <2>2. serving.release = serving.db
      BY <2>1 DEF CutInv, MixedInv
    <2>3. ASSUME Production, ~hold, current \in {0, None} PROVE ReleaseAt(alias.loaded) = serving.release
      <3>1. ReleaseAt(alias.loaded) = 0
        BY <2>3 DEF ReleaseAt
      <3>2. pc \in {"record_open", "READY"} => FALSE
        BY <1>1, <2>3, IdFacts DEF PointInv, Switched
      <3>3. serving.release = 0
        BY <2>1, <2>3, <3>2 DEF CutInv, CandidateInv
      <3> QED
        BY <3>1, <3>3
    <2>4. ASSUME Production, ~hold, current \notin {0, None} PROVE ReleaseAt(alias.loaded) = serving.release
      <3>1. pc \in Switched
        BY <1>1, <2>1, <2>4 DEF PointInv
      <3>2. pc \in {"record_open", "READY"}
        BY <2>1, <3>1 DEF Switched, Window, Stopped
      <3>3. current = attempt /\ alias.loaded = "current" /\ serving.release = attempt
        BY <1>1, <2>4, <3>1, <3>2 DEF PointInv, ServeInv, Verified
      <3> QED
        BY <2>4, <3>3 DEF ReleaseAt
    <2> QED
      BY <2>2, <2>3, <2>4
  <1>3. ReadyIsWhole
    <2> SUFFICES ASSUME pc = "READY"
                 PROVE  /\ current = attempt /\ serving = [up |-> TRUE, release |-> attempt, db |-> attempt]
                        /\ ~marker /\ ~validation.up /\ decision = "READY"
                        /\ Production => /\ ReleaseAt(unit.loaded) = attempt /\ env = attempt
                                         /\ valEnv = None /\ pointer = None
      BY DEF ReadyIsWhole
    <2>1. current = attempt
      BY <1>1 DEF PointInv, Switched
    <2>2. serving.up /\ serving.release = attempt /\ ~marker
      BY <1>1 DEF ServeInv, Verified
    <2>3. serving.db = attempt
      BY <2>2 DEF CutInv, MixedInv
    <2>4. ~validation.up /\ decision = "READY"
      BY <1>1 DEF ValidInv, DecisionInv, Quiet, Decided
    <2>5. Production => unit.loaded = "current" /\ env = attempt /\ valEnv = None /\ pointer = None
      BY <1>1 DEF ServeInv, HandInv, Quiet
    <2>6. ReleaseAt("current") = attempt
      BY <1>1, <2>1, IdFacts DEF ReleaseAt
    <2> QED
      BY <1>1, <2>1, <2>2, <2>3, <2>4, <2>5, <2>6
  <1>4. ReadyIsTrue
    BY <1>1 DEF ReadyIsTrue, DecisionInv
  <1> QED
    BY <1>2, <1>3, <1>4 DEF OneRelease

(* OneRelease: for any setups, writes and number of attempts and faults,     *)
(* whatever users reach and whatever release_decision calls READY is one     *)
(* release, with its database and, in production, its unit, nginx alias and  *)
(* EnvironmentFile, although execute_upgrade changes each of these in a call *)
(* of its own that may fail, and may die between any two of them.  Under the *)
(* hypotheses of Implements.                                                 *)
THEOREM OneReleaseHolds ==
  ASSUME "record_open" \notin Fallible, "restore_database" \notin Fallible
  PROVE  Spec => []OneRelease
  <1>1. Init => CutInv /\ WholeInv
    BY CutBegins, WholeFirst
  <1>2. CutInv /\ WholeInv /\ [Next]_vars => CutInv' /\ WholeInv'
    BY NextKeeps, PointStep, ServeStep, ValidStep, HandStep, DecisionStep DEF WholeInv
  <1>3. CutInv /\ WholeInv => OneRelease
    BY WholeIsOne
  <1> QED
    BY <1>1, <1>2, <1>3, PTL DEF Spec

-----------------------------------------------------------------------------
(* What a rollback restores, and what its cleanup takes away *)

AtHome == PhaseB \cup TeardownSteps \cup {"freeze", "f_nginx", "f_teardown", "f_cleanup", "refused",
                                          "failed"}
Undoing == RollingBack \cup {"a_refreeze", "a_current"}

(* The previous release, as users knew it. *)
Home == serving = [up |-> TRUE, release |-> 0, db |-> 0]
Untouched == ~lc.current_api_stopped /\ ~lc.current_api_stop_attempted

(* Unless an upgrade was left on hold, the previous release serves until it  *)
(* is stopped behind the freeze and from the end of the rollback on; the     *)
(* freeze is lifted over nothing else.                                       *)
HomeInv ==
    /\ pc \in Started => lc.current_api_stopped
    /\ pc = "crashed" => hold
    /\ ~hold =>
        /\ pc \in AtHome => Home /\ ~marker
        /\ pc \in Freezing => Home
        /\ pc \in Undoing /\ lc.active /\ Untouched => Home
        /\ pc \in Undoing /\ ~lc.active => Home /\ ~marker

(* Until users are let in to the candidate every write is in the source: the *)
(* candidate runs behind the freeze, and no request came over to it.         *)
DataInv ==
    ~hold /\ pc \notin {"record_open", "READY"} =>
        /\ acked \subseteq rows[0]
        /\ serving.release # 0 => ~inflight /\ ~job

(* The target of an attempt is a copy of the source, and nothing serves      *)
(* from it, before the attempt enters Phase D.                               *)
TargetInv ==
    /\ rows = [d \in Ids |-> rows[d]]
    /\ 0 \in exists
    /\ pc \in PhaseD => o.phase_d_entered
    /\ serving.db <= attempt
    /\ serving.db = attempt => o.phase_d_entered
    /\ \A d \in Ids : d > attempt => rows[d] = {}
    /\ ~o.phase_d_entered => rows[attempt] \subseteq rows[0]
    /\ pc = "target" => backup \subseteq rows[0]

(* The validation is torn down before the target goes. *)
TornInv ==
    /\ pc \in Early \cup {"t_stop"} => o.teardown = None
    /\ pc = "f_cleanup" => o.teardown # None
    /\ o.teardown = "PASSED" /\ pc \notin {"t_session", "crashed"} => ~validation.up

SafeInv == HomeInv /\ DataInv /\ TargetInv /\ TornInv

LEMMA HomePlaces ==
  /\ AtHome \cap (Started \cup Freezing \cup Undoing \cup {"crashed"}) = {}
  /\ Started \cap (Freezing \cup Undoing \cup {"crashed"}) = {}
  /\ Undoing \cap (Freezing \cup {"crashed"}) = {} /\ "crashed" \notin Freezing
  /\ Early \cup TeardownSteps \cup {"gate", "confirm", "freeze", "refused", "f_cleanup"} \subseteq AtHome
  BY PhaseBPlaces
     DEF AtHome, Started, Freezing, Undoing, RollingBack, Restoring, TeardownSteps, Early

LEMMA HomeStays ==
  ASSUME HomeInv, hold' \/ ~hold, UNCHANGED <<serving, marker>>, pc \in AtHome,
         pc' \notin Started \cup {"crashed"}
  PROVE  HomeInv'
  BY DEF HomeInv, Home

LEMMA UndoStays ==
  ASSUME HomeInv, hold' \/ ~hold, UNCHANGED <<serving, marker>>, pc \in Undoing, pc' \in Undoing,
         lc'.active <=> lc.active, lc'.current_api_stopped <=> lc.current_api_stopped,
         lc'.current_api_stop_attempted <=> lc.current_api_stop_attempted
  PROVE  HomeInv'
  BY HomePlaces DEF HomeInv, Home, Untouched

(* Behind the freeze, after the previous release was stopped, nothing is     *)
(* promised.                                                                 *)
LEMMA HomeLeft ==
  ASSUME HomeInv, pc' \notin AtHome \cup Freezing \cup {"crashed"},
         pc' \in Started \cup Undoing => lc'.active /\ lc'.current_api_stopped
  PROVE  HomeInv'
  BY DEF HomeInv, Untouched

LEMMA HomePreparation ==
  ASSUME CutInv, HomeInv, PhaseAB \/ Tearing
  PROVE  HomeInv'
  <1>1. UNCHANGED <<serving, marker, hold>>
    BY PreparationAlone DEF Steady, SameHost
  <1>2. /\ pc \in Early \cup TeardownSteps
        /\ pc' \in Early \cup TeardownSteps \cup {"gate", "fail", "refused", "f_cleanup"}
    BY PreparationPlaces, TearingPlaces DEF TeardownSteps
  <1>3. pc \in AtHome /\ pc' \notin Started \cup {"crashed"}
    BY <1>2, HomePlaces DEF Started
  <1> QED
    BY <1>1, <1>3, HomeStays

LEMMA HomeClosing ==
  ASSUME CutInv, HomeInv, Closing
  PROVE  HomeInv'
  <1>1. hold' = hold /\ lc \in Lifecycles
    BY ClosingPlaces DEF CutInv, OwnTypes
  <1>2. CASE ValidatePreCutoverReady \/ Confirm
    <2>1. UNCHANGED <<serving, marker>> /\ pc \in {"gate", "confirm"} /\ pc' \in {"confirm", "freeze", "fail"}
      BY <1>2 DEF ValidatePreCutoverReady, Confirm, Continue, hostVars, procVars
    <2>2. pc \in AtHome /\ pc' \notin Started \cup {"crashed"}
      BY <2>1, HomePlaces DEF Started
    <2> QED
      BY <1>1, <2>1, <2>2, HomeStays
  <1>3. CASE FreezeWrites
    <2>1. UNCHANGED serving /\ pc = "freeze" /\ pc' = "freeze_command"
      BY <1>3 DEF FreezeWrites, procVars
    <2>2. hold \/ Home
      BY <2>1, HomePlaces DEF HomeInv
    <2>3. pc' \in Freezing
      BY <2>1 DEF Freezing
    <2> QED
      BY <1>1, <2>1, <2>2, <2>3, HomePlaces DEF HomeInv, Home
  <1>4. ASSUME pc \in Freezing PROVE lc.active /\ (hold \/ Home)
    BY <1>4 DEF CutInv, FreezeInv, Window, HomeInv
  <1>5. CASE FreezeTraffic \/ Drain \/ ReconfirmCutoverIdentity
    <2>1. UNCHANGED <<serving, marker, lc>> /\ pc' \in Freezing \cup {"fail"} /\ pc \in Freezing
      BY <1>5 DEF FreezeTraffic, Drain, ReconfirmCutoverIdentity, procVars, lifecycleVars, Continue,
                  Freezing
    <2>2. "fail" \in Undoing
      BY DEF Undoing, RollingBack, Restoring
    <2>3. (hold' \/ Home') /\ lc'.active
      BY <1>1, <1>4, <2>1 DEF Home
    <2>4. pc' \notin AtHome \cup Started \cup {"crashed"}
      BY <2>1, <2>2, HomePlaces
    <2> QED
      BY <2>3, <2>4 DEF HomeInv
  <1>6. CASE FreezeAborts
    <2>1. /\ serving' = serving /\ pc = "freeze_abort" /\ pc' = "fail"
          /\ \/ UNCHANGED <<marker, lc>>
             \/ marker' = FALSE /\ lc' = [lc EXCEPT !.active = FALSE]
      BY <1>6 DEF FreezeAborts, AbortPreserve, procVars
    <2>2. hold \/ Home
      BY <1>4, <2>1 DEF Freezing
    <2>3. lc'.active \/ ~marker'
      BY <1>1, <1>4, <2>1 DEF Freezing, Lifecycles
    <2>4. pc' \in Undoing
      BY <2>1 DEF Undoing, RollingBack, Restoring
    <2> QED
      BY <1>1, <2>1, <2>2, <2>3, <2>4, HomePlaces DEF HomeInv, Home
  <1>7. CASE StopCurrent
    <2>1. PICK ok \in BOOLEAN :
             /\ StopCurrentApi(ok) /\ pc = "stop" /\ pc' \in {"adopt", "switch", "fail"}
      BY <1>7, OutcomesAre DEF StopCurrent, Continue
    <2>2. lc' = [lc EXCEPT !.current_api_stop_attempted = TRUE, !.current_api_stopped = ok]
      BY <2>1 DEF StopCurrentApi
    <2>3. lc'.current_api_stop_attempted /\ lc'.active
      BY <1>1, <1>4, <2>1, <2>2 DEF Lifecycles, Freezing
    <2>4. pc' \notin AtHome \cup Freezing \cup Started \cup {"crashed"}
      BY <2>1, PhaseBPlaces DEF AtHome, Freezing, Started, TeardownSteps
    <2> QED
      BY <2>3, <2>4 DEF HomeInv, Untouched
  <1> QED
    BY <1>2, <1>3, <1>5, <1>6, <1>7 DEF Closing

(* What the cutover and the rollback do to what the lifecycle knows. *)
LEMMA ServeKeepsFreeze ==
  ASSUME CutInv, HomeInv, Exchange \/ Serve, pc \in Stopped \cup Started, pc' # "record_open"
  PROVE  lc'.active /\ lc'.current_api_stopped
  <1>1. lc \in Lifecycles /\ lc.active /\ lc.current_api_stopped
    BY DEF CutInv, OwnTypes, FreezeInv, Window, HomeInv
  <1>2. \/ lc' = lc \/ lc' = [lc EXCEPT !.serving_api_started = TRUE]
        \/ \E b : lc' = [lc EXCEPT !.traffic_opened = b]
    <2>1. ~Finalize
      BY DEF Finalize
    <2>2. CASE ActivateServing \/ Open
      BY <2>2 DEF ActivateServing, Open, StartServingApi, OpenTraffic
    <2>3. CASE ~ActivateServing /\ ~Open
      BY <2>1, <2>3 DEF Exchange, EnsureFlatCurrentBaseline, Switch, Serve, BindRelease, BindDatabase,
         ReloadUnits, ReloadGateway, VerifyReleaseEndpoint, ValidateFinalGate, VerifyPostOpenServing,
         RecordOpen, lifecycleVars
    <2> QED
      BY <2>2, <2>3
  <1> QED
    BY <1>1, <1>2 DEF Lifecycles

LEMMA HomeServe ==
  ASSUME "record_open" \notin Fallible, CutInv, HomeInv, Exchange \/ Serve
  PROVE  HomeInv'
  <1>1. /\ pc \in Stopped \cup Started \cup {"record_open"}
        /\ pc' \in Stopped \cup Started \cup {"record_open", "READY", "fail"}
        /\ pc = "record_open" => pc' = "READY"
    <2>1. CASE Exchange
      BY <2>1 DEF Exchange, EnsureFlatCurrentBaseline, Switch, Continue, Stopped
    <2>2. CASE Serve
      BY <2>2, ServePlaces DEF Switched, Stopped
    <2> QED
      BY <2>1, <2>2
  <1>2. pc' \notin AtHome \cup Freezing \cup {"crashed"}
    BY <1>1, PhaseBPlaces DEF Stopped, Started, AtHome, Freezing, TeardownSteps
  <1>3. pc' \in Started \cup Undoing => lc'.active /\ lc'.current_api_stopped
    <2>1. CASE pc = "record_open" \/ pc' = "record_open"
      BY <1>1, <2>1 DEF Started, Undoing, RollingBack, Restoring
    <2>2. CASE pc # "record_open" /\ pc' # "record_open"
      BY <1>1, <2>2, ServeKeepsFreeze
    <2> QED
      BY <2>1, <2>2
  <1> QED
    BY <1>2, <1>3, HomeLeft

(* The rollback. *)
LEMMA HomeUndoing ==
  ASSUME CutInv, HomeInv,
         \/ Fail \/ FailStopServing \/ FailRollback \/ FailRestoreBindings \/ FailReloadBindings
         \/ FailRestoreDatabase \/ FailReloadDatabase
  PROVE  HomeInv'
  <1>1. hold \in BOOLEAN /\ lc \in Lifecycles
    BY DEF CutInv, HostTypes, OwnTypes
  <1>2. hold' \/ ~hold
    BY <1>1, HoldStays DEF Next, Orchestrate, Failing
  <1>3. pc \in Undoing /\ pc' \in Undoing
    BY DEF Fail, FailStopServing, FailRollback, FailRestoreBindings, FailReloadBindings,
       FailRestoreDatabase, FailReloadDatabase, Undoing, RollingBack, Restoring
  <1>4. CASE ~FailStopServing
    <2>1. UNCHANGED <<serving, marker, lc>>
      BY <1>4 DEF Fail, FailRollback, FailRestoreBindings, FailReloadBindings, FailRestoreDatabase,
         FailReloadDatabase, hostVars, procVars, lifecycleVars
    <2> QED
      BY <1>2, <1>3, <2>1, UndoStays
  <1>5. CASE FailStopServing
    <2>1. CASE o.runtime_bound /\ lc.serving_api_started
      <3>1. PICK ok : lc' = [lc EXCEPT !.serving_api_started = ~ok]
        BY <1>5, <2>1 DEF FailStopServing, StopServingApi
      <3>2. pc = "f_stop"
        BY <1>5 DEF FailStopServing
      <3>3. lc.active /\ lc.current_api_stopped
        BY <2>1, <3>2 DEF CutInv, StartedInv, Ended
      <3>4. lc'.active /\ lc'.current_api_stopped
        BY <1>1, <3>1, <3>3 DEF Lifecycles
      <3> QED
        BY <1>3, <3>4, HomePlaces, HomeLeft
    <2>2. CASE ~(o.runtime_bound /\ lc.serving_api_started)
      <3>1. UNCHANGED <<serving, marker, lc>>
        BY <1>5, <2>2 DEF FailStopServing
      <3> QED
        BY <1>2, <1>3, <3>1, UndoStays
    <2> QED
      BY <2>1, <2>2
  <1> QED
    BY <1>4, <1>5

(* abort: whatever raises is logged. *)
LEMMA HomeHeld ==
  ASSUME HomeInv, hold', pc' \notin Started
  PROVE  HomeInv'
  BY DEF HomeInv

LEMMA HomeAbort ==
  ASSUME CutInv, HomeInv,
         FailAbort \/ Refreeze \/ PreserveCurrent \/ StopCandidate \/ StartPrevious \/ LiftFreeze
  PROVE  HomeInv'
  <1>1. /\ hold \in BOOLEAN /\ lc \in Lifecycles
        /\ serving \in [up : BOOLEAN, release : Ids, db : Ids]
    BY DEF CutInv, HostTypes, OwnTypes
  <1>2. hold' \/ ~hold
    BY <1>1, HoldStays DEF Next, Orchestrate, Failing
  <1>3. {"f_abort", "a_refreeze", "a_current"} \subseteq Undoing
    BY DEF Undoing, RollingBack
  <1>4. {"f_teardown", "f_nginx"} \subseteq AtHome /\ {"a_stop", "a_start", "a_lift"} \cap AtHome = {}
    BY PhaseBPlaces DEF AtHome, TeardownSteps
  <1>5. /\ {"f_teardown", "f_nginx", "a_stop", "a_start", "a_lift"} \cap (Started \cup Freezing) = {}
        /\ {"a_stop", "a_start", "a_lift"} \cap Undoing = {}
    BY DEF Undoing, RollingBack, Restoring, Started, Freezing
  <1>6. CASE FailAbort
    <2>1. /\ pc = "f_abort" /\ UNCHANGED <<serving, marker, lc, hold>>
          /\ pc' = IF ~lc.active THEN "f_teardown" ELSE IF lc.traffic_opened THEN "a_refreeze" ELSE "a_current"
      BY <1>6 DEF FailAbort, hostVars, procVars, lifecycleVars
    <2>2. CASE lc.active
      BY <1>2, <1>3, <2>1, <2>2, UndoStays
    <2>3. CASE ~lc.active
      <3>1. hold \/ (Home /\ ~marker)
        BY <1>3, <2>1, <2>3 DEF HomeInv
      <3> QED
        BY <1>4, <2>1, <2>3, <3>1, HomePlaces DEF HomeInv, Home
    <2> QED
      BY <2>2, <2>3
  <1>7. CASE Refreeze
    <2>1. PICK ok : /\ AbortRefreeze(ok) /\ AbortTo(ok, "a_current") /\ pc = "a_refreeze"
                    /\ UNCHANGED <<serving, marker>>
      BY <1>7 DEF Refreeze, procVars
    <2>2. CASE ok
      <3>1. pc' = "a_current"
        BY <2>1, <2>2 DEF AbortTo
      <3>2. PICK b : lc' = [lc EXCEPT !.traffic_opened = b]
        BY <2>1 DEF AbortRefreeze
      <3>3. /\ lc'.active <=> lc.active
            /\ lc'.current_api_stopped <=> lc.current_api_stopped
            /\ lc'.current_api_stop_attempted <=> lc.current_api_stop_attempted
        BY <1>1, <3>2 DEF Lifecycles
      <3> QED
        BY <1>2, <1>3, <2>1, <3>1, <3>3, UndoStays
    <2>3. CASE ~ok
      BY <1>5, <2>1, <2>3, HomeHeld DEF AbortTo, Logged
    <2> QED
      BY <2>2, <2>3
  <1>8. CASE PreserveCurrent
    <2>1. pc = "a_current" /\ UNCHANGED serving
      BY <1>8 DEF PreserveCurrent, procVars
    <2>2. CASE CurrentUntouched
      <3>1. PICK lifted : /\ AbortPreserve(lifted) /\ AbortTo(lifted, "f_nginx")
                          /\ lifted => ~StopOutcomeUnknown
        <4>1. PICK ok \in Outcomes("reopen") :
                 LET lifted == ok /\ ~StopOutcomeUnknown
                 IN  Charge(ok) /\ AbortPreserve(lifted) /\ AbortTo(lifted, "f_nginx")
          BY <1>8, <2>2 DEF PreserveCurrent
        <4>2. PICK b : b = (ok /\ ~StopOutcomeUnknown)
          OBVIOUS
        <4> QED
          BY <4>1, <4>2
      <3>2. CASE lifted
        <4>1. marker' = FALSE /\ pc' = "f_nginx" /\ (hold' <=> hold)
          BY <1>1, <3>1, <3>2 DEF AbortPreserve, AbortTo, Logged
        <4>2. Untouched /\ lc.active
          BY <2>1, <2>2, <3>1, <3>2 DEF StopOutcomeUnknown, CurrentUntouched, Untouched, CutInv,
             FreezeInv, AbortSteps
        <4>3. hold \/ Home
          BY <1>3, <2>1, <4>2 DEF HomeInv
        <4> QED
          BY <1>4, <1>5, <2>1, <4>1, <4>3, HomePlaces DEF HomeInv, Home
      <3>3. CASE ~lifted
        BY <1>5, <3>1, <3>3, HomeHeld DEF AbortTo, Logged
      <3> QED
        BY <3>2, <3>3
    <2>3. CASE ~CurrentUntouched
      <3>1. pc' = "a_stop"
        BY <1>8, <2>3 DEF PreserveCurrent
      <3> QED
        BY <1>4, <1>5, <3>1, HomeLeft
    <2> QED
      BY <2>2, <2>3
  <1>9. CASE StopCandidate \/ StartPrevious
    <2>1. pc' \in {"a_start", "a_lift"} \/ (pc' = "f_teardown" /\ hold')
      BY <1>9 DEF StopCandidate, StartPrevious, AbortTo, Logged
    <2>2. CASE pc' \in {"a_start", "a_lift"}
      BY <1>4, <1>5, <2>2, HomeLeft
    <2>3. CASE pc' = "f_teardown" /\ hold'
      BY <1>5, <2>3, HomeHeld
    <2> QED
      BY <2>1, <2>2, <2>3
  <1>10. CASE LiftFreeze
    <2>1. PICK b \in BOOLEAN : b <=> PreviousVerified
      BY DEF PreviousVerified
    <2>2. pc = "a_lift" /\ UNCHANGED serving /\ AbortTo(b, "f_nginx")
      <3>1. pc = "a_lift" /\ UNCHANGED serving /\ AbortTo(PreviousVerified, "f_nginx")
        BY <1>10 DEF LiftFreeze, procVars
      <3> QED
        BY <2>1, <3>1 DEF AbortTo, Logged
    <2>3. CASE b
      <3>1. marker' = FALSE /\ pc' = "f_nginx" /\ (hold' <=> hold) /\ serving.up /\ serving.release = 0
        BY <1>1, <1>10, <2>1, <2>2, <2>3 DEF LiftFreeze, AbortLift, AbortTo, Logged, PreviousVerified
      <3>2. serving.db = 0
        BY <3>1 DEF CutInv, MixedInv
      <3>3. Home
        BY <1>1, <3>1, <3>2 DEF Home
      <3> QED
        BY <1>4, <1>5, <2>2, <3>1, <3>3, HomePlaces DEF HomeInv, Home
    <2>4. CASE ~b
      BY <1>5, <2>2, <2>4, HomeHeld DEF AbortTo, Logged
    <2> QED
      BY <2>1, <2>3, <2>4
  <1> QED
    BY <1>6, <1>7, <1>8, <1>9, <1>10

LEMMA HomeStep ==
  ASSUME "record_open" \notin Fallible, CutInv, HomeInv, [Next]_vars
  PROVE  HomeInv'
  <1>1. hold \in BOOLEAN
    BY DEF CutInv, HostTypes
  <1>2. hold' \/ ~hold
    BY <1>1, HoldStays
  <1>3. CASE FailReloadNginx \/ FailTeardown \/ FailCleanup
    <2>1. /\ UNCHANGED <<serving, marker>> /\ pc \in {"f_nginx", "f_teardown", "f_cleanup"}
          /\ pc' \in {"f_teardown", "t_stop", "f_cleanup", "failed"}
      BY <1>3 DEF FailReloadNginx, FailTeardown, FailCleanup, hostVars, procVars
    <2>2. pc \in AtHome /\ pc' \notin Started \cup {"crashed"}
      BY <2>1 DEF AtHome, Started
    <2> QED
      BY <1>2, <2>1, <2>2, HomeStays
  <1>4. CASE Others
    <2>1. UNCHANGED <<serving, marker>>
      BY <1>4, OtherFrames
    <2>2. CASE pc' = "crashed" /\ hold' = TRUE
      BY <2>2, HomeHeld DEF Started
    <2>3. CASE pc' = "preflight" /\ hold' = hold /\ pc \in Gone
      <3>1. CASE pc = "crashed"
        BY <2>3, <3>1, HomeHeld DEF HomeInv, Started
      <3>2. CASE pc # "crashed"
        BY <1>2, <2>1, <2>3, <3>2, HomeStays DEF Gone, AtHome, Started
      <3> QED
        BY <3>1, <3>2
    <2>4. CASE UNCHANGED <<pc, hold, attempt, o, lc, adapter>>
      BY <2>1, <2>4 DEF HomeInv, Home, Untouched
    <2> QED
      BY <1>4, <2>2, <2>3, <2>4, OtherPlaces
  <1>5. CASE Restore
    BY <1>3, <1>5, HomeUndoing, HomeAbort DEF Restore
  <1> QED
    BY <1>4, <1>5, HomePreparation, HomeClosing, HomeServe, HomeUndoing, NextParts

(* The validation is torn down. *)
LEMMA TornStep ==
  ASSUME "record_open" \notin Fallible, CutInv, FreshInv, ValidInv, ValidInv', TornInv, [Next]_vars
  PROVE  TornInv'
  <1>1. Fields \subseteq DOMAIN o /\ o \in Flags
    BY DEF FreshInv, Fields, CutInv, OwnTypes
  <1>2. CASE PhaseAB
    <2>1. /\ pc \in Early /\ pc' \in Early \cup {"t_stop", "fail", "refused"}
          /\ o'.teardown = o.teardown
      BY <1>2, PreparationPlaces, PreparationFlags DEF SameFlags
    <2>2. o'.teardown = None /\ o'.teardown # "PASSED"
      BY <2>1, TeardownAssumption DEF TornInv
    <2>3. pc' # "f_cleanup"
      BY <2>1, PhaseBPlaces DEF Early
    <2> QED
      BY <2>2, <2>3 DEF TornInv
  <1>3. CASE Tearing
    <2>1. pc \in TeardownSteps /\ pc' \notin Early \cup {"t_stop"}
      <3>1. pc' \in (TeardownSteps \ {"t_stop"}) \cup {"gate", "fail", "f_cleanup"}
        BY <1>3 DEF Tearing, StopValidationApi, TeardownSession, RestoreValidation,
           ReloadAfterValidation, RestoreGateway, Continue, TeardownSteps
      <3> QED
        BY <1>3, <3>1, TearingPlaces, PhaseBPlaces DEF Early, TeardownSteps
    <2>2. CASE RestoreGateway
      <3>1. PICK ok : /\ Teardowns(ok) /\ pc = "t_gateway" /\ UNCHANGED validation
        BY <2>2 DEF RestoreGateway, procVars
      <3>2. o'.teardown \in {o.teardown, "FAILED"} /\ o.teardown # None
        BY <1>1, <3>1 DEF Teardowns, Flags, FreshInv, Torn, TeardownSteps
      <3>3. o'.teardown # None /\ (o'.teardown = "PASSED" => ~validation.up)
        BY <3>1, <3>2, TeardownAssumption DEF ValidInv
      <3> QED
        BY <2>1, <3>1, <3>3 DEF TornInv
    <2>3. CASE ~RestoreGateway
      <3>1. pc' \in {"t_session", "t_binding", "t_reload", "t_gateway"}
        BY <1>3, <2>3 DEF Tearing, StopValidationApi, TeardownSession, RestoreValidation,
           ReloadAfterValidation
      <3> QED
        BY <2>1, <3>1 DEF TornInv, ValidInv
    <2> QED
      BY <2>2, <2>3
  <1>4. CASE Closing \/ Exchange \/ Serve
    <2>1. pc \in Quiet /\ pc' \in Quiet \cup {"fail"} /\ UNCHANGED validation
      BY <1>4, LaterPlaces
    <2>2. ~validation.up
      BY <2>1 DEF ValidInv
    <2>3. pc' \notin Early \cup {"t_stop", "f_cleanup"}
      BY <2>1, PhaseBPlaces DEF Quiet, PhaseD, Early
    <2> QED
      BY <2>1, <2>2, <2>3 DEF TornInv
  <1>5. CASE Fail \/ FailStopServing \/ FailRollback \/ Restore
    <2>1. pc \in Restoring \cup FailSteps \cup AbortSteps /\ UNCHANGED validation
      BY <1>5, RollbackPlaces
    <2>2. \/ o' = o \/ o' = [o EXCEPT !.failed = TRUE]
          \/ \E b : o' = [o EXCEPT !.release_bindings_changed = b]
          \/ \E b : o' = [o EXCEPT !.runtime_bound = b]
      BY <1>5 DEF Restore, Fail, FailStopServing, FailRollback, FailRestoreBindings, FailReloadBindings,
         FailRestoreDatabase, FailReloadDatabase, FailAbort, Refreeze, PreserveCurrent, StopCandidate,
         StartPrevious, LiftFreeze, FailReloadNginx, FailTeardown, FailCleanup
    <2>3. o'.teardown = o.teardown
      BY <1>1, <2>2 DEF Flags
    <2>4. pc \notin {"t_session", "crashed"}
      BY <2>1 DEF Restoring, FailSteps, AbortSteps
    <2>5. CASE FailTeardown
      <3>1. pc' = IF o.teardown = None THEN "t_stop" ELSE "f_cleanup"
        BY <2>5 DEF FailTeardown
      <3> QED
        BY <2>1, <2>3, <2>4, <3>1, PhaseBPlaces DEF TornInv, Early
    <2>6. CASE ~FailTeardown
      <3>1. pc' \notin Early \cup {"t_stop", "f_cleanup"}
        <4>1. CASE Fail \/ FailStopServing \/ FailRollback
          BY <4>1, PhaseBPlaces DEF Early, Fail, FailStopServing, FailRollback
        <4>2. CASE FailRestoreBindings \/ FailReloadBindings
          BY <4>2, PhaseBPlaces DEF Early, FailRestoreBindings, FailReloadBindings
        <4>3. CASE FailRestoreDatabase \/ FailReloadDatabase
          BY <4>3, PhaseBPlaces DEF Early, FailRestoreDatabase, FailReloadDatabase
        <4>4. CASE FailAbort \/ Refreeze \/ PreserveCurrent
          BY <4>4, PhaseBPlaces DEF Early, FailAbort, Refreeze, PreserveCurrent, AbortTo
        <4>5. CASE StopCandidate \/ StartPrevious \/ LiftFreeze
          BY <4>5, PhaseBPlaces DEF Early, StopCandidate, StartPrevious, LiftFreeze, AbortTo
        <4>6. CASE FailReloadNginx \/ FailCleanup
          BY <4>6, PhaseBPlaces DEF Early, FailReloadNginx, FailCleanup
        <4> QED
          BY <1>5, <2>6, <4>1, <4>2, <4>3, <4>4, <4>5, <4>6 DEF Restore
      <3> QED
        BY <2>1, <2>3, <2>4, <3>1 DEF TornInv
    <2> QED
      BY <2>5, <2>6
  <1>6. CASE Others
    <2>1. UNCHANGED validation
      BY <1>6, OtherFrames
    <2>2. CASE pc' = "crashed"
      BY <2>2, PhaseBPlaces DEF TornInv, Early
    <2>3. CASE NextAttempt
      <3>1. pc' = "preflight" /\ o'.teardown = None
        BY <2>3 DEF NextAttempt, NewFlags
      <3> QED
        BY <3>1, TeardownAssumption DEF TornInv
    <2>4. CASE UNCHANGED <<pc, hold, attempt, o, lc, adapter>>
      BY <2>1, <2>4 DEF TornInv
    <2>5. pc' = "crashed" \/ NextAttempt \/ UNCHANGED <<pc, hold, attempt, o, lc, adapter>>
      BY <1>6 DEF Others, Crash, UsersAct, vars, controlVars, lifecycleVars, vfoswindVars
    <2> QED
      BY <2>2, <2>3, <2>4, <2>5
  <1> QED
    BY <1>2, <1>3, <1>4, <1>5, <1>6, NextParts

(* Which steps touch the databases, and which the users' requests. *)
LEMMA DataFrame ==
  ASSUME \/ PhaseAB /\ ~PrepareTarget /\ ~Migrate
         \/ Tearing \/ Closing \/ Exchange \/ Serve
         \/ Fail \/ FailStopServing \/ FailRollback
         \/ Restore /\ ~FailCleanup
         \/ Crash \/ NextAttempt
  PROVE  UNCHANGED dataVars
  <1>1. CASE PhaseAB /\ ~PrepareTarget /\ ~Migrate
    <2>1. CASE Checking
      BY <2>1, CheckPlaces DEF CheckFrame, usersAndData
    <2>2. CASE ~Checking
      BY <1>1, <2>2 DEF PhaseAB, Checking, ValidateIdentityAndTarget, PreflightSchema,
         ConfigureReleaseControls, PreflightIntegration, PhaseAFrame, ScanResidue, Backup, PrepareRelease,
         BindGateway, BindValidation, ReloadValidation, StartValidationApi,
         ValidationRuntimePreflightFails, WaitCandidateValidationReady, usersAndData
    <2> QED
      BY <2>1, <2>2
  <1>2. CASE Tearing
    BY <1>2 DEF Tearing, StopValidationApi, TeardownSession, RestoreValidation, ReloadAfterValidation,
       RestoreGateway, usersAndData
  <1>3. CASE Closing \/ Exchange
    BY <1>3 DEF Closing, ValidatePreCutoverReady, Confirm, FreezeWrites, FreezeTraffic, FreezeAborts,
       Drain, ReconfirmCutoverIdentity, StopCurrent, Exchange, EnsureFlatCurrentBaseline, Switch,
       usersAndData, hostVars
  <1>4. CASE Serve
    BY <1>4 DEF Serve, BindRelease, BindDatabase, ReloadUnits, ActivateServing, ReloadGateway,
       VerifyReleaseEndpoint, ValidateFinalGate, Open, VerifyPostOpenServing, Finalize, RecordOpen,
       usersAndData, hostVars
  <1>5. CASE Fail \/ FailStopServing \/ FailRollback
    BY <1>5 DEF Fail, FailStopServing, FailRollback, usersAndData, hostVars
  <1>6. CASE Restore /\ ~FailCleanup
    BY <1>6 DEF Restore, FailRestoreBindings, FailReloadBindings, FailRestoreDatabase,
       FailReloadDatabase, FailAbort, Refreeze, PreserveCurrent, StopCandidate, StartPrevious,
       LiftFreeze, FailReloadNginx, FailTeardown, usersAndData, hostVars
  <1>7. CASE Crash \/ NextAttempt
    BY <1>7 DEF Crash, NextAttempt, usersAndData, hostVars
  <1> QED
    BY <1>1, <1>2, <1>3, <1>4, <1>5, <1>6, <1>7

(* Requests and jobs only go, and they go with the process. *)
Leaving ==
    /\ inflight' => inflight
    /\ job' => job
    /\ serving'.release = serving.release \/ (~inflight' /\ ~job')

LEMMA ProcessLeaves ==
  ASSUME serving \in [up : BOOLEAN, release : Ids, db : Ids], NEW ok \in BOOLEAN,
         \/ StopServing(ok)
         \/ \E release, db \in Ids : StartServing(ok, release, db)
  PROVE  Leaving
  <1>1. CASE StopServing(ok)
    <2>1. PICK up \in BOOLEAN : /\ serving' = [serving EXCEPT !.up = up]
                                /\ inflight' = (inflight /\ up) /\ job' = (job /\ up)
      BY <1>1 DEF StopServing
    <2> QED
      BY <2>1 DEF Leaving
  <1>2. CASE \E release, db \in Ids : StartServing(ok, release, db)
    BY <1>2 DEF StartServing, Leaving
  <1> QED
    BY <1>1, <1>2

LEMMA StartsLeave ==
  ASSUME CutInv, NEW ok \in BOOLEAN, NEW r \in Ids, NEW d \in Ids, RunStart(ok, r, d)
  PROVE  Leaving
  <1>1. /\ serving \in [up : BOOLEAN, release : Ids, db : Ids] /\ env \in Ids
        /\ ReleaseAt(unit.loaded) \in Ids
    BY IdFacts DEF CutInv, HostTypes, ReleaseAt
  <1>2. \E release, db \in Ids : StartServing(ok, release, db)
    BY <1>1 DEF RunStart, RestartService
  <1> QED
    BY <1>1, <1>2, ProcessLeaves

LEMMA RequestFrame ==
  ASSUME CutInv, Orchestrate \/ Crash \/ NextAttempt
  PROVE  Leaving
  <1>1. serving \in [up : BOOLEAN, release : Ids, db : Ids] /\ attempt \in Ids /\ 0 \in Ids
    BY IdFacts DEF CutInv, HostTypes
  <1>2. ASSUME UNCHANGED <<serving, userVars>> PROVE Leaving
    BY <1>2 DEF Leaving, userVars
  <1>3. CASE PhaseAB \/ Tearing
    <2>1. UNCHANGED serving
      BY <1>3, PreparationAlone DEF Steady, SameHost
    <2>2. UNCHANGED userVars
      <3>1. CASE Checking
        BY <3>1, CheckPlaces DEF CheckFrame, usersAndData
      <3>2. CASE Tearing
        BY <3>2 DEF Tearing, StopValidationApi, TeardownSession, RestoreValidation,
           ReloadAfterValidation, RestoreGateway, usersAndData
      <3>3. CASE PhaseAB /\ ~Checking
        BY <3>3 DEF PhaseAB, Checking, ValidateIdentityAndTarget, PreflightSchema,
           ConfigureReleaseControls, PreflightIntegration, PhaseAFrame, ScanResidue, Backup,
           PrepareTarget, Migrate, PrepareRelease, BindGateway, BindValidation, ReloadValidation,
           StartValidationApi, ValidationRuntimePreflightFails, WaitCandidateValidationReady,
           usersAndData
      <3> QED
        BY <1>3, <3>1, <3>2, <3>3
    <2> QED
      BY <1>2, <2>1, <2>2
  <1>4. CASE CuttingOver /\ ~StopCurrent /\ ~ActivateServing
    <2>1. UNCHANGED <<serving, userVars>>
      BY <1>4 DEF CuttingOver, ValidatePreCutoverReady, Confirm, FreezeWrites, FreezeTraffic,
         FreezeAborts, Drain, ReconfirmCutoverIdentity, EnsureFlatCurrentBaseline, Switch, BindRelease,
         BindDatabase, ReloadUnits, ReloadGateway, VerifyReleaseEndpoint, ValidateFinalGate, Open,
         VerifyPostOpenServing, Finalize, RecordOpen, usersAndData, hostVars, procVars
    <2> QED
      BY <1>2, <2>1
  <1>5. CASE StopCurrent
    <2>1. PICK ok \in BOOLEAN : StopServing(ok)
      BY <1>5, OutcomesAre DEF StopCurrent, StopCurrentApi
    <2> QED
      BY <1>1, <2>1, ProcessLeaves
  <1>6. CASE ActivateServing
    <2>1. PICK ok \in BOOLEAN : RunStart(ok, attempt, attempt)
      BY <1>6, OutcomesAre DEF ActivateServing, StartServingApi
    <2> QED
      BY <1>1, <2>1, StartsLeave
  <1>7. CASE FailStopServing \/ StopCandidate
    <2>1. UNCHANGED <<serving, userVars>> \/ \E ok \in BOOLEAN : StopServing(ok)
      BY <1>7, OutcomesAre DEF FailStopServing, StopCandidate, AbortStopServing, StopServingApi
    <2> QED
      BY <1>1, <1>2, <2>1, ProcessLeaves
  <1>8. CASE StartPrevious
    <2>1. PICK ok \in BOOLEAN : RunStart(ok, 0, 0)
      BY <1>8, OutcomesAre DEF StartPrevious, AbortStartPrevious
    <2> QED
      BY <1>1, <2>1, StartsLeave
  <1>9. CASE Failing /\ ~FailStopServing /\ ~StopCandidate /\ ~StartPrevious
    <2>1. UNCHANGED <<serving, userVars>>
      BY <1>9 DEF Failing, Fail, FailRollback, FailRestoreBindings, FailReloadBindings,
         FailRestoreDatabase, FailReloadDatabase, FailAbort, Refreeze, PreserveCurrent, LiftFreeze,
         FailReloadNginx, FailTeardown, FailCleanup, usersAndData, hostVars, procVars
    <2> QED
      BY <1>2, <2>1
  <1>10. CASE Crash \/ NextAttempt
    <2>1. UNCHANGED <<serving, userVars>>
      BY <1>10 DEF Crash, NextAttempt, usersAndData, hostVars, procVars
    <2> QED
      BY <1>2, <2>1
  <1> QED
    BY <1>3, <1>4, <1>5, <1>6, <1>7, <1>8, <1>9, <1>10 DEF Orchestrate

(* What serves after a step is on the same database, on the source, or on    *)
(* the target of an attempt in Phase D.                                      *)
LEMMA ServesFrom ==
  ASSUME CutInv, [Next]_vars
  PROVE  serving'.db \in {serving.db, 0} \/ (pc = "activate" /\ serving'.db = attempt)
  <1>1. serving \in [up : BOOLEAN, release : Ids, db : Ids]
    BY DEF CutInv, HostTypes
  <1>2. CASE PhaseAB \/ Tearing
    BY <1>2, PreparationAlone DEF Steady, SameHost
  <1>3. ASSUME NEW ok \in BOOLEAN, StopServing(ok) PROVE serving'.db = serving.db
    BY <1>1, <1>3 DEF StopServing
  <1>4. CASE CuttingOver /\ ~StopCurrent /\ ~ActivateServing
    BY <1>4 DEF CuttingOver, ValidatePreCutoverReady, Confirm, FreezeWrites, FreezeTraffic,
       FreezeAborts, Drain, ReconfirmCutoverIdentity, EnsureFlatCurrentBaseline, Switch, BindRelease,
       BindDatabase, ReloadUnits, ReloadGateway, VerifyReleaseEndpoint, ValidateFinalGate, Open,
       VerifyPostOpenServing, Finalize, RecordOpen, hostVars, procVars
  <1>5. CASE StopCurrent \/ FailStopServing \/ StopCandidate
    <2>1. CASE StopCurrent
      <3>1. PICK ok \in BOOLEAN : StopServing(ok)
        BY <2>1, OutcomesAre DEF StopCurrent, StopCurrentApi
      <3> QED
        BY <1>3, <3>1
    <2>2. CASE FailStopServing \/ StopCandidate
      <3>1. UNCHANGED <<serving, userVars>> \/ \E ok \in BOOLEAN : StopServing(ok)
        BY <2>2, OutcomesAre DEF FailStopServing, StopCandidate, AbortStopServing, StopServingApi
      <3> QED
        BY <1>3, <3>1
    <2> QED
      BY <1>5, <2>1, <2>2
  <1>6. CASE ActivateServing
    <2>1. pc = "activate" /\ \E ok : RunStart(ok, attempt, attempt)
      BY <1>6 DEF ActivateServing, StartServingApi
    <2>2. Production => env = attempt
      BY <2>1 DEF CutInv, BoundInv
    <2> QED
      BY <2>1, <2>2 DEF RunStart, RestartService, StartServing
  <1>7. CASE StartPrevious
    <2>1. pc = "a_start" /\ \E ok : RunStart(ok, 0, 0)
      BY <1>7 DEF StartPrevious, AbortStartPrevious
    <2>2. env = 0
      BY <2>1, AbortFacts DEF AbortSteps
    <2> QED
      BY <2>1, <2>2 DEF RunStart, RestartService, StartServing
  <1>8. CASE Failing /\ ~FailStopServing /\ ~StopCandidate /\ ~StartPrevious
    BY <1>8 DEF Failing, Fail, FailRollback, FailRestoreBindings, FailReloadBindings,
       FailRestoreDatabase, FailReloadDatabase, FailAbort, Refreeze, PreserveCurrent, LiftFreeze,
       FailReloadNginx, FailTeardown, FailCleanup, hostVars, procVars
  <1>9. CASE Others
    BY <1>9, OtherFrames
  <1> QED
    BY <1>2, <1>4, <1>5, <1>6, <1>7, <1>8, <1>9 DEF Next, Orchestrate, Others

(* Within an attempt Phase D is entered once, by the confirmation. *)
LEMMA PhaseDEntered ==
  ASSUME FreshInv, TargetInv, [Next]_vars, ~NextAttempt
  PROVE  /\ attempt' = attempt
         /\ o.phase_d_entered => o'.phase_d_entered
         /\ pc' \in PhaseD => o'.phase_d_entered
  <1>1. Fields \subseteq DOMAIN o
    BY DEF FreshInv, Fields
  <1>2. CASE PhaseAB
    <2>1. pc' \notin PhaseD
      BY <1>2, PreparationPlaces, PhaseBPlaces DEF Early, PhaseD
    <2> QED
      BY <1>2, <2>1, PreparationFlags DEF SameFlags
  <1>3. CASE Tearing
    <2>1. pc' \notin PhaseD /\ pc \in TeardownSteps
      BY <1>3, TearingPlaces DEF TeardownSteps, PhaseD
    <2>2. ~o.phase_d_entered /\ attempt' = attempt
      BY <1>3, <2>1 DEF FreshInv, Tearing, StopValidationApi, TeardownSession, RestoreValidation,
         ReloadAfterValidation, RestoreGateway
    <2> QED
      BY <2>1, <2>2
  <1>4. CASE ValidatePreCutoverReady
    <2>1. pc' \notin PhaseD /\ o' = o /\ attempt' = attempt
      BY <1>4 DEF ValidatePreCutoverReady, Continue, PhaseD
    <2> QED
      BY <2>1
  <1>5. CASE Confirm
    <2>1. PICK ok : /\ o' = [o EXCEPT !.phase_d_entered = ok] /\ Continue(ok, "freeze")
                    /\ pc = "confirm" /\ attempt' = attempt
      BY <1>5 DEF Confirm
    <2>2. ~o.phase_d_entered
      BY <2>1, PhaseBPlaces DEF FreshInv
    <2>3. pc' \in PhaseD => ok
      BY <2>1 DEF Continue, PhaseD
    <2>4. o'.phase_d_entered = ok
      BY <1>1, <2>1 DEF Fields
    <2> QED
      BY <2>1, <2>2, <2>3, <2>4
  <1>6. CASE CuttingOver /\ ~ValidatePreCutoverReady /\ ~Confirm
    <2>1. SameFlags
      BY <1>6, CutFlags
    <2>2. pc \in PhaseD
      BY <1>6 DEF CuttingOver, FreezeWrites, FreezeTraffic, FreezeAborts, Drain,
         ReconfirmCutoverIdentity, StopCurrent, EnsureFlatCurrentBaseline, Switch, BindRelease,
         BindDatabase, ReloadUnits, ActivateServing, ReloadGateway, VerifyReleaseEndpoint,
         ValidateFinalGate, Open, VerifyPostOpenServing, Finalize, RecordOpen, PhaseD
    <2> QED
      BY <2>1, <2>2 DEF SameFlags, TargetInv
  <1>7. CASE Fail \/ FailStopServing \/ FailRollback \/ Restore
    <2>1. pc' \notin PhaseD
      BY <1>7, RollbackPlaces DEF FailSteps, AbortSteps, PhaseD
    <2>2. \/ o' = o \/ o' = [o EXCEPT !.failed = TRUE]
          \/ \E b : o' = [o EXCEPT !.release_bindings_changed = b]
          \/ \E b : o' = [o EXCEPT !.runtime_bound = b]
      BY <1>7 DEF Restore, Fail, FailStopServing, FailRollback, FailRestoreBindings, FailReloadBindings,
         FailRestoreDatabase, FailReloadDatabase, FailAbort, Refreeze, PreserveCurrent, StopCandidate,
         StartPrevious, LiftFreeze, FailReloadNginx, FailTeardown, FailCleanup
    <2>3. o'.phase_d_entered = o.phase_d_entered
      BY <1>1, <2>2 DEF Fields
    <2>4. attempt' = attempt
      BY <1>7, RestorePlaces DEF Fail, FailStopServing, FailRollback
    <2> QED
      BY <2>1, <2>3, <2>4
  <1>8. CASE Crash
    BY <1>8 DEF Crash, PhaseD
  <1>9. CASE UsersAct \/ UNCHANGED vars
    <2>1. UNCHANGED <<pc, o, attempt>>
      BY <1>9 DEF UsersAct, vars, controlVars
    <2> QED
      BY <2>1 DEF TargetInv
  <1> QED
    BY <1>2, <1>3, <1>4, <1>5, <1>6, <1>7, <1>8, <1>9
       DEF Next, Orchestrate, CuttingOver, Failing, Restore

(* The databases change only where they hold a copy, or where users write. *)
LEMMA RowsChange ==
  ASSUME CutInv, TargetInv, [Next]_vars
  PROVE  /\ rows' = [d \in Ids |-> rows'[d]] /\ 0 \in exists'
         /\ rows[0] \subseteq rows'[0]
         /\ \A d \in Ids : d \notin {serving.db, attempt} => rows'[d] = rows[d]
         /\ UsersAct \/ (rows'[0] = rows[0] /\ acked' = acked)
         /\ serving.db # attempt => rows'[attempt] \subseteq rows[attempt] \cup rows[0]
  <1>1. /\ attempt \in Ids /\ attempt # 0 /\ 0 \in Ids /\ serving.db \in Ids
        /\ rows = [d \in Ids |-> rows[d]] /\ 0 \in exists
    BY IdFacts DEF CutInv, HostTypes, TargetInv
  <1>2. CASE UNCHANGED dataVars
    BY <1>1, <1>2 DEF dataVars
  <1>3. ASSUME NEW S, rows' = [rows EXCEPT ![attempt] = S], S \subseteq rows[attempt] \cup rows[0],
               0 \in exists', acked' = acked
        PROVE  /\ rows' = [d \in Ids |-> rows'[d]] /\ 0 \in exists'
               /\ rows[0] \subseteq rows'[0]
               /\ \A d \in Ids : d \notin {serving.db, attempt} => rows'[d] = rows[d]
               /\ UsersAct \/ (rows'[0] = rows[0] /\ acked' = acked)
               /\ serving.db # attempt => rows'[attempt] \subseteq rows[attempt] \cup rows[0]
    BY <1>1, <1>3
  <1>4. CASE PrepareTarget
    <2>1. /\ pc = "target" /\ acked' = acked
          /\ \E ok : LET contents == IF setup.plan = "empty" THEN {} ELSE backup IN
                \/ /\ exists' = exists \cup {attempt}
                   /\ rows' = [rows EXCEPT ![attempt] = contents]
                \/ CreateTarget(attempt, contents, ok)
                \/ CreateTarget(attempt, contents, TRUE)
      BY <1>4 DEF PrepareTarget
    <2>2. PICK contents : contents = IF setup.plan = "empty" THEN {} ELSE backup
      OBVIOUS
    <2>3. contents \subseteq rows[0]
      BY <2>1, <2>2 DEF TargetInv
    <2>4. \/ /\ exists' = exists \cup {attempt}
             /\ rows' = [rows EXCEPT ![attempt] = contents]
          \/ UNCHANGED <<exists, rows>>
      BY <2>1, <2>2 DEF CreateTarget, targetVars
    <2>5. CASE UNCHANGED <<exists, rows>>
      BY <1>1, <2>1, <2>5
    <2> QED
      BY <1>1, <1>3, <2>1, <2>3, <2>4, <2>5
  <1>5. CASE Migrate
    <2>1. /\ UNCHANGED <<exists, acked>>
          /\ \E ok : LET copied == IF setup.plan = "empty" THEN rows[0] ELSE rows[attempt]
                     IN  rows' = [rows EXCEPT ![attempt] = IF ok THEN copied ELSE @]
      BY <1>5 DEF Migrate
    <2>2. PICK S : S \in {rows[0], rows[attempt]} /\ rows' = [rows EXCEPT ![attempt] = S]
      BY <2>1
    <2> QED
      BY <1>1, <1>3, <2>1, <2>2
  <1>6. CASE FailCleanup
    <2>1. acked' = acked
      BY <1>6 DEF FailCleanup
    <2>2. \/ UNCHANGED <<exists, rows>>
          \/ exists' = exists \ {attempt} /\ rows' = [rows EXCEPT ![attempt] = {}]
      BY <1>6 DEF FailCleanup, CleanupTarget, targetVars
    <2>3. CASE UNCHANGED <<exists, rows>>
      BY <1>1, <2>1, <2>3
    <2> QED
      BY <1>1, <1>3, <2>1, <2>2, <2>3
  <1>7. CASE UsersAct
    <2>1. UNCHANGED exists /\ (rows' = rows \/ \E w : rows' = [rows EXCEPT ![serving.db] = @ \cup {w}])
      BY <1>7 DEF UsersAct, Users, AdmitWrite, CommitWrite, FinishJob, Commit, dataVars
    <2>2. CASE rows' = rows
      BY <1>1, <1>7, <2>1, <2>2
    <2>3. ASSUME NEW w, rows' = [rows EXCEPT ![serving.db] = @ \cup {w}]
          PROVE  /\ rows' = [d \in Ids |-> rows'[d]]
                 /\ \A d \in Ids : d # serving.db => rows'[d] = rows[d]
                 /\ rows'[serving.db] = rows[serving.db] \cup {w}
      BY <1>1, <2>3
    <2>4. CASE \E w : rows' = [rows EXCEPT ![serving.db] = @ \cup {w}]
      BY <1>1, <1>7, <2>1, <2>3, <2>4
    <2> QED
      BY <2>1, <2>2, <2>4
  <1>8. CASE UNCHANGED vars
    BY <1>2, <1>8 DEF vars, hostVars
  <1> QED
    BY <1>2, <1>4, <1>5, <1>6, <1>7, <1>8, DataFrame, NextParts DEF Others

LEMMA TargetStep ==
  ASSUME CutInv, CutInv', FreshInv, TargetInv, [Next]_vars
  PROVE  TargetInv'
  <1>1. /\ attempt \in Nat /\ attempt \in Ids /\ attempt' \in Nat /\ attempt' \in Ids /\ attempt # 0
        /\ serving.db \in Nat /\ serving'.db \in Nat /\ serving.db <= attempt
    <2>1. Ids \subseteq Nat /\ Attempts \subseteq Nat
      BY AttemptsAssumption DEF Ids, Attempts
    <2>2. /\ attempt \in Ids /\ attempt # 0 /\ attempt' \in Ids
          /\ serving.db \in Ids /\ serving'.db \in Ids
      BY IdFacts DEF CutInv, HostTypes
    <2> QED
      BY <2>1, <2>2 DEF TargetInv
  <1>2. rows' = [d \in Ids |-> rows'[d]] /\ 0 \in exists'
    BY RowsChange
  <1>3. pc' = "target" => backup' \subseteq rows'[0]
    <2>1. CASE Backup
      <3>1. PICK ok : PerformBackup(ok) /\ Continue(ok, "target")
        BY <2>1 DEF Backup
      <3>2. UNCHANGED rows
        BY <2>1, DataFrame DEF PhaseAB, Backup, PrepareTarget, Migrate, dataVars
      <3> QED
        BY <3>1, <3>2 DEF PerformBackup, Continue
    <2>2. ASSUME ~Backup, pc' = "target" PROVE pc = "target" /\ backup' = backup
      <3>1. CASE PhaseAB
        <4>1. ~Checking
          BY <2>2, CheckPlaces DEF Checking, TargetedTests, BrowserFixtureRegression,
             CandidateBrowserEvidence, CandidateAuthenticatedMutation, ReleasePerformance,
             PathMappingAudit, SidecarAudit, SecurityAudit, RollbackEvidence, ReadArtifact,
             ReadSessionArtifact, Continue
        <4> QED
          BY <2>2, <3>1, <4>1 DEF PhaseAB, Checking, ValidateIdentityAndTarget, PreflightSchema,
             ConfigureReleaseControls, PreflightIntegration, ScanResidue, PrepareTarget, Migrate,
             PrepareRelease, BindGateway, BindValidation, ReloadValidation, StartValidationApi,
             ValidationRuntimePreflightFails, WaitCandidateValidationReady, Continue, Refuse
      <3>2. CASE Tearing \/ Closing \/ Exchange \/ Fail \/ FailStopServing \/ FailRollback \/ Restore
        BY <2>2, <3>2, TearingPlaces, ClosingPlaces, RollbackPlaces
           DEF Exchange, EnsureFlatCurrentBaseline, Switch, Continue, TeardownSteps, Freezing,
               FailSteps, AbortSteps
      <3>3. CASE Serve
        BY <2>2, <3>3 DEF Serve, BindRelease, BindDatabase, ReloadUnits, ActivateServing, ReloadGateway,
           VerifyReleaseEndpoint, ValidateFinalGate, Open, VerifyPostOpenServing, Finalize, RecordOpen,
           Continue
      <3>4. CASE Others
        BY <2>2, <3>4 DEF Others, Crash, NextAttempt, UsersAct, vars, controlVars, preparationVars
      <3> QED
        BY <3>1, <3>2, <3>3, <3>4, NextParts
    <2>3. CASE ~Backup
      BY <2>2, <2>3, RowsChange DEF TargetInv
    <2> QED
      BY <2>1, <2>3
  <1>4. CASE NextAttempt
    <2>1. /\ attempt' = attempt + 1 /\ UNCHANGED <<serving, rows>> /\ pc' = "preflight"
      BY <1>4 DEF NextAttempt, hostVars, dataVars, procVars
    <2>2. serving'.db <= attempt' /\ serving'.db # attempt'
      BY <1>1, <2>1
    <2>3. \A d \in Ids : d > attempt' => rows'[d] = {}
      <3>1. Ids \subseteq Nat
        BY AttemptsAssumption DEF Ids
      <3>2. \A d \in Ids : d > attempt' => d > attempt
        BY <1>1, <2>1, <3>1
      <3> QED
        BY <2>1, <3>2 DEF TargetInv
    <2>4. rows'[attempt'] = {}
      <3>1. attempt' > attempt
        BY <1>1, <2>1
      <3> QED
        BY <1>1, <2>1, <3>1 DEF TargetInv
    <2>5. pc' \notin PhaseD
      BY <2>1 DEF PhaseD
    <2> QED
      BY <1>2, <1>3, <2>2, <2>3, <2>4, <2>5 DEF TargetInv
  <1>5. CASE ~NextAttempt
    <2>1. /\ attempt' = attempt
          /\ o.phase_d_entered => o'.phase_d_entered
          /\ pc' \in PhaseD => o'.phase_d_entered
      BY <1>5, PhaseDEntered
    <2>2. serving'.db <= attempt' /\ (serving'.db = attempt' => o'.phase_d_entered)
      <3>1. CASE serving'.db \in {serving.db, 0}
        BY <1>1, <2>1, <3>1 DEF TargetInv
      <3>2. CASE pc = "activate" /\ serving'.db = attempt
        BY <1>1, <2>1, <3>2 DEF TargetInv, PhaseD
      <3> QED
        BY <3>1, <3>2, ServesFrom
    <2>3. \A d \in Ids : d > attempt' => rows'[d] = {}
      <3> SUFFICES ASSUME NEW d \in Ids, d > attempt' PROVE rows'[d] = {}
        OBVIOUS
      <3>1. d \in Nat
        BY AttemptsAssumption DEF Ids
      <3>2. d \notin {serving.db, attempt} /\ d > attempt
        BY <1>1, <2>1, <3>1
      <3> QED
        BY <3>2, RowsChange DEF TargetInv
    <2>4. ~o'.phase_d_entered => rows'[attempt'] \subseteq rows'[0]
      <3> SUFFICES ASSUME ~o'.phase_d_entered PROVE rows'[attempt'] \subseteq rows'[0]
        OBVIOUS
      <3>1. serving.db # attempt /\ rows[attempt] \subseteq rows[0]
        BY <2>1 DEF TargetInv
      <3> QED
        BY <2>1, <3>1, RowsChange
    <2> QED
      BY <1>2, <1>3, <2>1, <2>2, <2>3, <2>4 DEF TargetInv
  <1> QED
    BY <1>4, <1>5

(* The writes that users were promised are in the source. *)
LEMMA OpenStays ==
  ASSUME "record_open" \notin Fallible, [Next]_vars, pc \in {"record_open", "READY"}, ~hold'
  PROVE  pc' \in {"record_open", "READY"}
  <1>1. pc \notin Early \cup TeardownSteps \cup FailSteps \cup AbortSteps
    BY PhaseBPlaces DEF Early, TeardownSteps, FailSteps, AbortSteps
  <1>2. ~PhaseAB /\ ~Tearing
    BY <1>1, PreparationPlaces, TearingPlaces DEF TeardownSteps
  <1>3. ~Closing /\ ~Exchange
    BY DEF Closing, ValidatePreCutoverReady, Confirm, FreezeWrites, FreezeTraffic, FreezeAborts, Drain,
       ReconfirmCutoverIdentity, StopCurrent, Exchange, EnsureFlatCurrentBaseline, Switch
  <1>4. ~Fail /\ ~FailStopServing /\ ~FailRollback /\ ~Restore
    BY DEF Fail, FailStopServing, FailRollback, Restore, FailRestoreBindings, FailReloadBindings,
       FailRestoreDatabase, FailReloadDatabase, FailAbort, Refreeze, PreserveCurrent, StopCandidate,
       StartPrevious, LiftFreeze, FailReloadNginx, FailTeardown, FailCleanup
  <1>5. CASE Serve
    BY <1>5, ServePlaces
  <1>6. CASE Others
    BY <1>6, OtherPlaces DEF Gone
  <1> QED
    BY <1>2, <1>3, <1>4, <1>5, <1>6, NextParts

LEMMA DataUsers ==
  ASSUME CutInv, DataInv, TargetInv, UsersAct
  PROVE  DataInv'
  <1>1. UNCHANGED <<pc, hold, serving>> /\ Users
    BY DEF UsersAct, Users, AdmitWrite, CommitWrite, FinishJob, procVars, controlVars
  <1> SUFFICES ASSUME ~hold, pc \notin {"record_open", "READY"}
               PROVE  /\ acked' \subseteq rows'[0]
                      /\ serving.release # 0 => ~inflight' /\ ~job'
    BY <1>1 DEF DataInv
  <1>2. acked \subseteq rows[0] /\ (serving.release # 0 => ~inflight /\ ~job)
    BY DEF DataInv
  <1>3. serving.release = 0
    <2> SUFFICES ASSUME serving.release # 0 PROVE FALSE
      OBVIOUS
    <2>1. marker
      BY DEF CutInv, CandidateInv, FreezeInv
    <2> QED
      BY <1>1, <1>2, <2>1 DEF Users, AdmitWrite, CommitWrite, FinishJob
  <1>4. serving.db = 0
    BY <1>3 DEF CutInv, MixedInv
  <1>5. CASE UNCHANGED <<acked, rows>>
    BY <1>2, <1>3, <1>5
  <1>6. CASE Commit
    <2>1. PICK w : acked' = acked \cup {w} /\ rows' = [rows EXCEPT ![0] = @ \cup {w}]
      BY <1>4, <1>6 DEF Commit
    <2>2. rows'[0] = rows[0] \cup {w}
      BY <2>1, IdFacts DEF TargetInv
    <2> QED
      BY <1>2, <1>3, <2>1, <2>2
  <1> QED
    BY <1>1, <1>5, <1>6 DEF Users, AdmitWrite, CommitWrite, FinishJob, dataVars

LEMMA DataStep ==
  ASSUME "record_open" \notin Fallible, CutInv, DataInv, TargetInv, [Next]_vars
  PROVE  DataInv'
  <1>1. CASE UsersAct
    BY <1>1, DataUsers
  <1>2. CASE UNCHANGED vars
    <2>1. UNCHANGED <<pc, hold, serving, acked, rows, inflight, job>>
      BY <1>2 DEF vars, hostVars, procVars, dataVars, userVars, controlVars
    <2> QED
      BY <2>1 DEF DataInv
  <1>3. CASE ~UsersAct /\ (Orchestrate \/ Crash \/ NextAttempt)
    <2> SUFFICES ASSUME ~hold', pc' \notin {"record_open", "READY"}
                 PROVE  /\ acked' \subseteq rows'[0]
                        /\ serving'.release # 0 => ~inflight' /\ ~job'
      BY DEF DataInv
    <2>1. hold \in BOOLEAN
      BY DEF CutInv, HostTypes
    <2>2. ~hold /\ pc \notin {"record_open", "READY"}
      BY <2>1, HoldStays, OpenStays
    <2>3. acked \subseteq rows[0] /\ (serving.release # 0 => ~inflight /\ ~job)
      BY <2>2 DEF DataInv
    <2>4. rows'[0] = rows[0] /\ acked' = acked
      BY <1>3, RowsChange
    <2>5. Leaving
      BY <1>3, RequestFrame
    <2> QED
      BY <2>3, <2>4, <2>5 DEF Leaving
  <1> QED
    BY <1>1, <1>2, <1>3 DEF Next

LEMMA SafeFirst == Init => SafeInv
  <1> SUFFICES ASSUME Init PROVE SafeInv
    OBVIOUS
  <1>1. /\ pc = "preflight" /\ attempt = 1 /\ ~hold /\ ~marker /\ acked = {} /\ exists = {0}
        /\ rows = [d \in Ids |-> {}] /\ serving = [up |-> TRUE, release |-> 0, db |-> 0]
        /\ ~inflight /\ ~job /\ ~validation.up /\ o.teardown = None /\ ~o.phase_d_entered
    BY DEF Init, HostInit, NewFlags
  <1>2. HomeInv
    BY <1>1, HomePlaces, PhaseBPlaces DEF HomeInv, Home, Started, Freezing, Undoing, RollingBack, Restoring
  <1>3. DataInv
    BY <1>1 DEF DataInv
  <1>4. TargetInv
    <2>1. 1 \in Ids /\ 0 \in Ids
      BY AttemptsAssumption, IdFacts DEF Ids
    <2>2. \A d \in Ids : rows[d] = {}
      BY <1>1
    <2> QED
      BY <1>1, <2>1, <2>2 DEF TargetInv, PhaseD
  <1>5. TornInv
    BY <1>1 DEF TornInv
  <1> QED
    BY <1>2, <1>3, <1>4, <1>5 DEF SafeInv

(* What the end of a rollback has put back. *)
LEMMA RestoredStep ==
  ASSUME CutInv, CutInv', PointInv', SafeInv', FailureRestores, [Next]_vars
  PROVE  FailureRestores'
  <1> SUFFICES ASSUME pc' = "failed", ~hold'
               PROVE  /\ current' \in {None, 0} /\ env' = 0 /\ ReleaseAt(unit.loaded)' = 0
                      /\ serving' = [up |-> TRUE, release |-> 0, db |-> 0] /\ ~marker'
                      /\ acked' \subseteq rows'[0]
    BY DEF FailureRestores
  <1>1. current' \in {None, 0}
    BY DEF PointInv, Switched, Started
  <1>2. ReleaseAt(unit.loaded)' = 0
    BY <1>1 DEF ReleaseAt
  <1>3. serving' = [up |-> TRUE, release |-> 0, db |-> 0] /\ ~marker'
    BY DEF SafeInv, HomeInv, AtHome, Home
  <1>4. acked' \subseteq rows'[0]
    BY DEF SafeInv, DataInv
  <1>5. env' = 0
    <2>1. CASE FailCleanup
      <3>1. env' = env /\ pc = "f_cleanup"
        BY <2>1 DEF FailCleanup, vfoswindVars, bindingVars
      <3> QED
        BY <3>1 DEF CutInv, EnvInv, Ended, PreControls, Started, Restoring
    <2>2. CASE Others
      <3>1. UNCHANGED <<pc, hold>> /\ env' = env
        BY <2>2, OtherPlaces, OtherFrames
      <3> QED
        BY <3>1 DEF FailureRestores
    <2>3. ASSUME ~FailCleanup, ~Others PROVE FALSE
      <3>1. ~PhaseAB /\ ~Tearing /\ ~Closing
        BY PreparationPlaces, TearingPlaces, ClosingPlaces, PhaseBPlaces
           DEF Early, TeardownSteps, Freezing
      <3>2. ~Exchange /\ ~Serve
        BY DEF Exchange, EnsureFlatCurrentBaseline, Switch, Serve, BindRelease, BindDatabase,
           ReloadUnits, ActivateServing, ReloadGateway, VerifyReleaseEndpoint, ValidateFinalGate,
           Open, VerifyPostOpenServing, Finalize, RecordOpen, Continue
      <3>3. ~Fail /\ ~FailStopServing /\ ~FailRollback /\ ~Restore
        BY <2>3 DEF Fail, FailStopServing, FailRollback, Restore, FailRestoreBindings,
           FailReloadBindings, FailRestoreDatabase, FailReloadDatabase, FailAbort, Refreeze,
           PreserveCurrent, StopCandidate, StartPrevious, LiftFreeze, FailReloadNginx, FailTeardown,
           AbortTo
      <3> QED
        BY <2>3, <3>1, <3>2, <3>3, NextParts
    <2> QED
      BY <2>1, <2>2, <2>3
  <1> QED
    BY <1>1, <1>2, <1>3, <1>4, <1>5

(* What is dropped is the target of an attempt that never served from it. *)
LEMMA CleanupStaysSafe ==
  ASSUME CutInv, TargetInv, TornInv, [Next]_vars
  PROVE  CleanupIsSafe
  <1>1. CASE FailCleanup
    <2> SUFFICES ASSUME NEW d \in exists \ exists'
                 PROVE  /\ serving.db # d /\ env # d
                        /\ validation.up => validation.db # d
                        /\ rows[d] \subseteq UNION {rows[e] : e \in exists'}
      BY DEF CleanupIsSafe
    <2>1. pc = "f_cleanup" /\ TargetCleanupSafety /\ d = attempt
      BY <1>1 DEF FailCleanup, CleanupTarget, targetVars
    <2>2. serving.db # attempt /\ rows[attempt] \subseteq rows[0]
      BY <2>1 DEF TargetCleanupSafety, TargetInv
    <2>3. env = 0 /\ attempt # 0
      BY <2>1, IdFacts DEF CutInv, HostTypes, EnvInv, Ended, PreControls, Started, Restoring
    <2>4. ~validation.up
      BY <2>1 DEF TargetCleanupSafety, TornInv
    <2>5. 0 \in exists'
      BY RowsChange
    <2> QED
      BY <2>1, <2>2, <2>3, <2>4, <2>5
  <1>2. CASE exists \subseteq exists'
    BY <1>2 DEF CleanupIsSafe
  <1>3. CASE PrepareTarget
    BY <1>2, <1>3 DEF PrepareTarget, CreateTarget, targetVars
  <1>4. CASE Migrate \/ UsersAct \/ UNCHANGED vars
    <2>1. exists' = exists
      BY <1>4 DEF Migrate, UsersAct, Users, AdmitWrite, CommitWrite, FinishJob, dataVars, vars, hostVars
    <2> QED
      BY <1>2, <2>1
  <1>5. CASE UNCHANGED dataVars
    BY <1>2, <1>5 DEF dataVars
  <1> QED
    BY <1>1, <1>3, <1>4, <1>5, DataFrame, NextParts DEF Others

(* RollbackIsSafe: for any setups, writes and number of attempts and faults, *)
(* an attempt that fails without a DATA_SAFETY_HOLD ends with the previous   *)
(* release serving all that users wrote, from the database, pointer, unit    *)
(* and EnvironmentFile it had, wherever the attempt had come to when _fail   *)
(* began; and the target that _cleanup_failed_target drops is used by        *)
(* nothing and holds no write that the source does not.  Under the           *)
(* hypotheses of Implements.                                                 *)
THEOREM RollbackStaysSafe ==
  ASSUME "record_open" \notin Fallible, "restore_database" \notin Fallible
  PROVE  Spec => RollbackIsSafe
  <1> DEFINE Inv == CutInv /\ FreshInv /\ WholeInv /\ SafeInv /\ FailureRestores
  <1>1. Init => Inv
    <2>1. Init => FailureRestores
      BY DEF Init, FailureRestores
    <2> QED
      BY <2>1, CutBegins, FreshFirst, WholeFirst, SafeFirst
  <1>2. Inv /\ [Next]_vars => Inv' /\ FailureRestores' /\ CleanupIsSafe
    <2> SUFFICES ASSUME Inv, [Next]_vars PROVE Inv' /\ FailureRestores' /\ CleanupIsSafe
      OBVIOUS
    <2>1. CutInv'
      BY NextKeeps
    <2>2. FreshInv'
      BY FreshStep
    <2>3. WholeInv'
      BY PointStep, ServeStep, ValidStep, HandStep, DecisionStep DEF WholeInv
    <2>4. SafeInv'
      BY <2>1, <2>3, HomeStep, DataStep, TargetStep, TornStep DEF SafeInv, WholeInv
    <2>5. FailureRestores'
      BY <2>1, <2>3, <2>4, RestoredStep DEF WholeInv
    <2>6. CleanupIsSafe
      BY CleanupStaysSafe DEF SafeInv
    <2> QED
      BY <2>1, <2>2, <2>3, <2>4, <2>5, <2>6
  <1>3. Inv /\ [Next]_vars => [FailureRestores' /\ CleanupIsSafe]_vars
    BY <1>2
  <1> QED
    BY <1>1, <1>2, <1>3, PTL DEF Spec, RollbackIsSafe

==============================================================================
