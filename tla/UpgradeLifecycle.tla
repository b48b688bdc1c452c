--------------------------- MODULE UpgradeLifecycle ---------------------------
(***************************************************************************)
(* UpgradeLifecycle of app/upgrade/lifecycle.py: the cutover window.  It   *)
(* sets the freeze marker, drains the jobs, starts and stops the processes *)
(* by configured commands, opens the traffic and, when the upgrade fails,  *)
(* restores the previous process and lifts the freeze (abort).             *)
(*                                                                         *)
(* abort is several steps here, as users act between them.  An operator's  *)
(* ok is the outcome of its command.                                       *)
(***************************************************************************)
EXTENDS VfoswindLifecycle

VARIABLES
    setup,   \* how the upgrade is configured: [mode, control, layout, plan]
    lc       \* the lifecycle object's own fields

lifecycleVars == <<setup, lc>>

Production == setup.mode = "production"

NewLifecycle == [active |-> FALSE, api_started |-> FALSE, serving_api_started |-> FALSE,
                 current_api_stopped |-> FALSE, current_api_stop_attempted |-> FALSE,
                 traffic_opened |-> FALSE]

LifecycleTypeOK ==
    /\ setup \in [mode : {"production", "staging"}, control : {"unit", "local"},
                  layout : {FLAT, IMMUTABLE_CURRENT},
                  plan : {"restore", "empty", "supplied"}]
    /\ lc \in [active : BOOLEAN, api_started : BOOLEAN, serving_api_started : BOOLEAN,
               current_api_stopped : BOOLEAN, current_api_stop_attempted : BOOLEAN,
               traffic_opened : BOOLEAN]

(***************************************************************************)
(* _run_command("start_serving_api") and _run_command("start_previous_api")*)
(* In production both restart the systemd unit, whatever the environment   *)
(* of the command says; in staging the process gets the release and the    *)
(* database that its environment names.                                    *)
(***************************************************************************)
RunStart(ok, release, db) ==
    IF Production THEN RestartService(ok) ELSE StartServing(ok, release, db)

(* Mutant: the window opens without the marker. *)
FreezeWithoutMarker ==
    /\ lc' = [lc EXCEPT !.active = TRUE]
    /\ UNCHANGED marker

(* freeze, up to its freeze_traffic command: the marker, then active. *)
Freeze ==
    /\ marker' = TRUE
    /\ lc' = [lc EXCEPT !.active = TRUE]

(* drain waits until the source has no queued or running job, or gives up. *)
Drained == ~job

(* stop_current_api or the adapter's stop_service: the attempt is noted      *)
(* before the command, success after it.                                     *)
StopCurrentApi(ok) ==
    /\ lc' = [lc EXCEPT !.current_api_stop_attempted = TRUE,
                        !.current_api_stopped = ok]
    /\ StopServing(ok)

(* start_serving_api notes the start first: a failed one may have started it. *)
StartServingApi(ok, release, db) ==
    /\ lc' = [lc EXCEPT !.serving_api_started = TRUE]
    /\ RunStart(ok, release, db)

StopServingApi(ok) ==
    /\ lc' = [lc EXCEPT !.serving_api_started = ~ok]
    /\ StopServing(ok)

OpenTraffic(ok) == lc' = [lc EXCEPT !.traffic_opened = ok]

FinalizeTrafficOpen ==
    /\ lc' = [lc EXCEPT !.active = FALSE]
    /\ marker' = FALSE

(***************************************************************************)
(* abort.  First the traffic is frozen again if it had been opened; then,  *)
(* when the current process was never touched, the traffic is reopened and *)
(* the marker removed.                                                     *)
(***************************************************************************)
AbortRefreeze(ok) ==
    lc' = [lc EXCEPT !.traffic_opened = @ /\ ~ok]

CurrentUntouched == ~lc.current_api_stopped /\ ~lc.serving_api_started

StopOutcomeUnknown == CurrentUntouched /\ lc.current_api_stop_attempted

AbortPreserve(ok) ==
    IF ok THEN marker' = FALSE /\ lc' = [lc EXCEPT !.active = FALSE]
          ELSE UNCHANGED <<marker, lc>>

(* Otherwise the serving candidate is stopped ... (the validation process    *)
(* cannot be running: api_started was reset before the freeze)               *)
AbortStopServing(ok) == StopServingApi(ok)

(* ... and the previous process started, on the previous database, by the    *)
(* command that matches the way it had been started: both start the same     *)
(* process, only the endpoint that is asked for its release differs.         *)
AbortStartPrevious(ok) == RunStart(ok, 0, 0)

(* Mutant: any answer will do. *)
AnyAnswerVerified == serving.up

(* The endpoint answers with the previous release; no one asks for the      *)
(* database.  Then the marker goes.                                         *)
PreviousVerified == serving.up /\ serving.release = 0

AbortLift ==
    IF PreviousVerified THEN marker' = FALSE /\ lc' = [lc EXCEPT !.active = FALSE]
                        ELSE UNCHANGED <<marker, lc>>
=============================================================================
