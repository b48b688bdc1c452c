---------------------------- MODULE MCRunUpgrade ----------------------------
(* Instances of RunUpgrade for TLC. *)
EXTENDS RunUpgrade

(* Every mode, layout, control of the validation process and way to make     *)
(* the target.                                                               *)
MCSetups ==
    {[mode |-> "production", control |-> "unit", layout |-> FLAT, plan |-> "restore"],
     [mode |-> "production", control |-> "unit", layout |-> IMMUTABLE_CURRENT, plan |-> "empty"],
     [mode |-> "staging", control |-> "unit", layout |-> IMMUTABLE_CURRENT, plan |-> "supplied"],
     [mode |-> "staging", control |-> "local", layout |-> IMMUTABLE_CURRENT, plan |-> "restore"]}

(* Every operation that may fail but two.  Without record_open, because CURRENT  *)
(* is rolled back after users were let in (RollbackIsSafe fails), and without    *)
(* restore_database, because the previous release is then started on the        *)
(* target (OneRelease fails): README, Disagreements.                             *)
Faults ==
    {"preflight", "backup", "target", "migrate", "prepare", "gateway", "bind_validation",
     "daemon_reload", "start_validation", "wait_ready", "checks", "stop_validation",
     "restore_validation", "restore_gateway", "confirm", "freeze", "reopen", "drain",
     "reconfirm", "stop_current", "adopt", "switch", "bind_release", "bind_database",
     "start_serving", "nginx", "verify", "open", "post_open", "stop_serving", "rollback",
     "restore_bindings", "start_previous", "cleanup", "crash"}
=============================================================================
