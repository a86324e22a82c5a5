---------------------------- MODULE SettingsService ----------------------------
(***************************************************************************)
(* What legiond promises its callers: a store of settings that serves one  *)
(* call at a time.  A call is refused and leaves no trace, or it takes     *)
(* effect in one step, is saved in one step, and is then answered, if with *)
(* an error when its signal cannot be sent.  When the service stops,       *)
(* wherever that falls, what it comes back with is what was saved, whole:  *)
(* no half of a call, no half of a file.  To stop is the end of its        *)
(* process or an orderly reboot; nothing is promised of a power loss.      *)
(*                                                                         *)
(* Locks, polkit, the temporary file and the main task are not seen here;  *)
(* LegiondService shows that Legiond implements this specification.        *)
(***************************************************************************)
EXTENDS Platform

CONSTANT Clients   \* the callers

VARIABLES
    settings,   \* what the service remembers: a State
    saved,      \* what it would remember after a restart
    call,       \* where each client's call is
    asked       \* the request of a call; None between calls

vars == <<settings, saved, call, asked>>

Phases == {"idle", "waiting", "applied", "settled"}

Init ==
    /\ settings = EmptyState
    /\ saved = EmptyState
    /\ call = [c \in Clients |-> "idle"]
    /\ asked = [c \in Clients |-> None]

\* The settings s after request r: a switch is set, and not remembered.
With(s, r) ==
    CASE r.op = "profile" -> [s EXCEPT !.profile = r.arg]
      [] r.op = "battery" -> [s EXCEPT !.battery_mode = r.arg]
      [] r.op = "ppt"     -> [s EXCEPT !.ppt[r.attr] = r.arg]
      [] OTHER            -> s

Move(c, from, to) == call[c] = from /\ call' = [call EXCEPT ![c] = to]

Ask(c) ==
    /\ Move(c, "idle", "waiting")
    /\ \E r \in AllRequests : asked' = [asked EXCEPT ![c] = r]
    /\ UNCHANGED <<settings, saved>>

\* An error reply.
Refuse(c) ==
    /\ Move(c, "waiting", "idle")
    /\ asked' = [asked EXCEPT ![c] = None]
    /\ UNCHANGED <<settings, saved>>

NoOther(c) == \A d \in Clients \ {c} : call[d] \notin {"applied", "settled"}

Apply(c) ==
    /\ Move(c, "waiting", IF asked[c].op = "switch"
                          THEN "settled" ELSE "applied")
    /\ NoOther(c)
    /\ settings' = With(settings, asked[c])
    /\ UNCHANGED <<saved, asked>>

\* The save succeeds, or fails and leaves the older one.
Save(c) ==
    /\ Move(c, "applied", "settled")
    /\ saved' \in {settings, saved}
    /\ UNCHANGED <<settings, asked>>

\* The reply; an error, if the signal that goes before it fails.
Answer(c) ==
    /\ Move(c, "settled", "idle")
    /\ asked' = [asked EXCEPT ![c] = None]
    /\ UNCHANGED <<settings, saved>>

Restart ==
    /\ settings' = saved
    /\ call' = [c \in Clients |-> "idle"]
    /\ asked' = [c \in Clients |-> None]
    /\ UNCHANGED saved

Next ==
    \/ \E c \in Clients :
         Ask(c) \/ Refuse(c) \/ Apply(c) \/ Save(c) \/ Answer(c)
    \/ Restart

Spec == Init /\ [][Next]_vars
=============================================================================
