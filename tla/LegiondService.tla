---------------------------- MODULE LegiondService ----------------------------
(***************************************************************************)
(* Legiond as a SettingsService: which state of the daemon stands for      *)
(* which state of the service.                                             *)
(***************************************************************************)
EXTENDS Legiond

\* A daemon that is down will remember what it finds in state.json.
Settings == IF main = "down" THEN Load(file) ELSE mem

Phase(step) ==
    CASE step = "idle"        -> "idle"
      [] step \in SaveSteps   -> "applied"
      [] step = "emit"        -> "settled"
      [] OTHER                -> "waiting"

Calls == [c \in Clients |-> Phase(pc[c])]

Service == INSTANCE SettingsService WITH
    settings <- Settings,
    saved    <- Load(file),
    call     <- Calls,
    asked    <- req

(***************************************************************************)
(* The daemon implements the service: whatever the main task, polkit, the  *)
(* firmware, failing file operations and the end of the process do between *)
(* the steps of a handler, a caller sees calls that take effect one at a   *)
(* time, each as a whole or not at all, and a restart brings back the last *)
(* saved settings.  The machine itself only reboots in an orderly way.     *)
(***************************************************************************)
ServiceSpec == Service!Spec
=============================================================================
