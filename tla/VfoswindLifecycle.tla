-------------------------- MODULE VfoswindLifecycle --------------------------
(***************************************************************************)
(* VfoswindProductionLifecycle of                                          *)
(* scripts/upgrade/vfoswind_production_lifecycle.py: the systemd units,    *)
(* the nginx configuration and the EnvironmentFiles of a production host,  *)
(* and how they are bound to a candidate and back.                         *)
(*                                                                         *)
(* A unit or an alias names the Flat root or CURRENT; an EnvironmentFile   *)
(* names a database.  systemd and nginx act on what they last loaded.      *)
(***************************************************************************)
EXTENDS ReleasePublisher

VARIABLES
    unit,       \* systemd_unit_file and what systemd loaded: [file, loaded]
    alias,      \* nginx_config and what nginx loaded: [file, loaded]
    env,        \* the database of the serving EnvironmentFile
    valEnv,     \* the database of the validation EnvironmentFile, None at rest
    pointer,    \* VALIDATION_CURRENT
    adapter     \* the adapter's own fields

bindingVars == <<unit, alias, env>>
validationBindingVars == <<valEnv, pointer>>
vfoswindVars == <<bindingVars, validationBindingVars, adapter>>

Roots == {"flat", "current"}
NewAdapter == [release_bindings_changed |-> FALSE, runtime_bound |-> FALSE,
               validation_binding_changed |-> FALSE, validation_gateway_bound |-> FALSE,
               previous_environment |-> None]

VfoswindTypeOK ==
    /\ unit \in [file : Roots, loaded : Roots] /\ alias \in [file : Roots, loaded : Roots]
    /\ env \in Ids /\ valEnv \in Ids \cup {None} /\ pointer \in Ids \cup {None}
    /\ adapter \in [release_bindings_changed : BOOLEAN, runtime_bound : BOOLEAN,
                    validation_binding_changed : BOOLEAN,
                    validation_gateway_bound : BOOLEAN,
                    previous_environment : Ids \cup {None}]

(* The root that the layout calls for. *)
LayoutRoot == IF current = None THEN "flat" ELSE "current"

VfoswindInit ==
    /\ unit = [file |-> LayoutRoot, loaded |-> LayoutRoot]
    /\ alias = [file |-> LayoutRoot, loaded |-> LayoutRoot]
    /\ env = 0 /\ valEnv = None /\ pointer = None
    /\ adapter = NewAdapter

(* The release a root leads to. *)
ReleaseAt(root) == IF root = "current" /\ current # None THEN current ELSE 0

(***************************************************************************)
(* preflight and _preflight_flat_bootstrap: the serving unit and nginx     *)
(* name the root that the layout calls for, and the EnvironmentFile names  *)
(* the database that the attempt starts from.  Both read the files, not    *)
(* what systemd and nginx have loaded.                                     *)
(***************************************************************************)
UnitIsClosed == unit.file = LayoutRoot

AliasIsClosed == alias.file = LayoutRoot

EnvironmentIsClosed == env = 0

FlatBootstrapIsClosed == unit.file = "flat" /\ alias.file = "flat" /\ EnvironmentIsClosed

IntegrationIsClosed ==
    IF current = None THEN FlatBootstrapIsClosed
    ELSE UnitIsClosed /\ AliasIsClosed /\ EnvironmentIsClosed

(* bind_validation_gateway: one rename; a pointer of another session stays. *)
BindValidationGateway(id, ok) ==
    /\ ok => pointer \in {None, id}
    /\ IF ok
       THEN /\ pointer' = id
            /\ adapter' = [adapter EXCEPT !.validation_gateway_bound = TRUE]
       ELSE UNCHANGED <<pointer, adapter>>
    /\ UNCHANGED <<bindingVars, valEnv>>

(* restore_validation_gateway: only the pointer this attempt has set. *)
RestoreValidationGateway(ok) ==
    /\ IF ok
       THEN /\ pointer' = None
            /\ adapter' = [adapter EXCEPT !.validation_gateway_bound = FALSE]
       ELSE UNCHANGED <<pointer, adapter>>
    /\ UNCHANGED <<bindingVars, valEnv>>

(* bind_validation_candidate: what fails is undone before it is raised. *)
BindValidationCandidate(db, ok) ==
    /\ IF ok
       THEN /\ valEnv' = db
            /\ adapter' = [adapter EXCEPT !.validation_binding_changed = TRUE]
       ELSE UNCHANGED <<valEnv, adapter>>
    /\ UNCHANGED <<bindingVars, pointer>>

RestoreValidationBinding(ok) ==
    /\ IF ok
       THEN /\ valEnv' = None
            /\ adapter' = [adapter EXCEPT !.validation_binding_changed = FALSE]
       ELSE UNCHANGED <<valEnv, adapter>>
    /\ UNCHANGED <<bindingVars, pointer>>

(* validation_runtime_preflight: the candidate's root was bound, and the      *)
(* EnvironmentFile leads to its configuration and database.                   *)
ValidationRuntimeIsBound(db) == adapter.validation_binding_changed /\ valEnv = db

(***************************************************************************)
(* bind_current_release.  A unit that names CURRENT already is left as it  *)
(* is.  What fails is undone, and release_bindings_changed is not set.     *)
(***************************************************************************)
BindCurrentRelease(ok) ==
    /\ ok => CurrentIsValid
    /\ LET bound == unit.file = "current" /\ alias.file = "current" IN
       IF ok /\ ~bound
       THEN /\ unit' = [unit EXCEPT !.file = "current"]
            /\ alias' = [alias EXCEPT !.file = "current"]
            /\ adapter' = [adapter EXCEPT !.release_bindings_changed = TRUE]
       ELSE UNCHANGED <<unit, alias, adapter>>
    /\ UNCHANGED <<env, validationBindingVars>>

(* restore_previous_release_bindings: the unit, then the nginx file. *)
RestoreReleaseBindings(ok) ==
    /\ \/ /\ ok
          /\ unit' = [unit EXCEPT !.file = "flat"] /\ alias' = [alias EXCEPT !.file = "flat"]
          /\ adapter' = [adapter EXCEPT !.release_bindings_changed = FALSE]
       \/ ~ok /\ UNCHANGED <<unit, alias, adapter>>
       \/ ~ok /\ unit' = [unit EXCEPT !.file = "flat"] /\ UNCHANGED <<alias, adapter>>
    /\ UNCHANGED <<env, validationBindingVars>>

(* Mutant: the copy of the EnvironmentFile is taken after it was written. *)
BindThenCopy(db, ok) ==
    /\ adapter' = [adapter EXCEPT !.previous_environment = db, !.runtime_bound = ok]
    /\ env' = IF ok THEN db ELSE env
    /\ UNCHANGED <<unit, alias, validationBindingVars>>

(* bind_candidate_database and restore_previous_database_binding: one      *)
(* rename of the EnvironmentFile.                                          *)
BindCandidateDatabase(db, ok) ==
    /\ adapter' = [adapter EXCEPT !.previous_environment = env, !.runtime_bound = ok]
    /\ env' = IF ok THEN db ELSE env
    /\ UNCHANGED <<unit, alias, validationBindingVars>>

RestoreDatabaseBinding(ok) ==
    /\ IF ok /\ adapter.previous_environment # None
       THEN /\ env' = adapter.previous_environment
            /\ adapter' = [adapter EXCEPT !.runtime_bound = FALSE]
       ELSE UNCHANGED <<env, adapter>>
    /\ UNCHANGED <<unit, alias, validationBindingVars>>

(* systemctl daemon-reload, and nginx -t with nginx -s reload. *)
DaemonReload(ok) ==
    /\ unit' = [unit EXCEPT !.loaded = IF ok THEN unit.file ELSE @]
    /\ UNCHANGED <<alias, env, validationBindingVars, adapter>>

ReloadNginx(ok) ==
    /\ alias' = [alias EXCEPT !.loaded = IF ok THEN alias.file ELSE @]
    /\ UNCHANGED <<unit, env, validationBindingVars, adapter>>

(* What systemd starts: the loaded unit with the EnvironmentFile as it is. *)
RestartService(ok) == StartServing(ok, ReleaseAt(unit.loaded), env)
StopService(ok) == StopServing(ok)
=============================================================================
