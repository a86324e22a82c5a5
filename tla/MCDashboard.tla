----------------------------- MODULE MCDashboard -----------------------------
(* Instances of Dashboard for TLC.                                          *)
EXTENDS Dashboard, TLC

CONSTANTS quiet, balanced

\* `opened` is history that no guard reads.
WithoutOpened == <<daemonVars, running, task, callVars, snapVars, streamVars,
                   requests, events, posted, trayVars, window>>

\* Nor does one read `unheard` and `failed`: a run for whose properties they
\* do not matter leaves out all three.
WithoutHistory == <<up, hw, owed, running, task, callVars, snap, fill, cache,
                    streamVars, requests, events, posted, trayVars, window>>

Symmetry == Permutations(Profiles)
=============================================================================
