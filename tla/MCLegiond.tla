------------------------------ MODULE MCLegiond ------------------------------
(* Instances of Legiond for TLC: which calls the clients make in each run.  *)
EXTENDS LegiondService, TLC

CONSTANTS c1, c2, quiet, balanced, custom, standard, long_life, fast, spl,
          raw_attr, camera

\* A profile, a charge mode, and one this driver refuses.
SettingRequests ==
    {[op |-> "profile", arg |-> quiet],
     [op |-> "battery", arg |-> long_life],
     [op |-> "battery", arg |-> fast]}

\* Custom and back, a limit in range and one out of it, and one of an
\* attribute that PptAttr::from_key does not know.
LimitRequests ==
    {[op |-> "profile", arg |-> custom],
     [op |-> "profile", arg |-> balanced],
     [op |-> "ppt", attr |-> spl, arg |-> 2],
     [op |-> "ppt", attr |-> spl, arg |-> 9],
     [op |-> "ppt", attr |-> raw_attr, arg |-> 3]}

\* For the view of the profile.
ProfileOnly == {[op |-> "profile", arg |-> quiet],
                [op |-> "profile", arg |-> balanced],
                [op |-> "profile", arg |-> Junk]}

\* One call of every kind, and the profile the limit needs.
EveryKind == {[op |-> "profile", arg |-> custom],
              [op |-> "battery", arg |-> long_life],
              [op |-> "ppt", attr |-> spl, arg |-> 2],
              [op |-> "switch", attr |-> camera, arg |-> 1],
              [op |-> "switch", attr |-> camera, arg |-> 2]}

\* For liveness: what the watcher hears of, and what a suspend undoes.
ProfileAndBattery == {[op |-> "profile", arg |-> quiet],
                      [op |-> "battery", arg |-> long_life]}

CameraLevels == {<<camera, 0>>, <<camera, 1>>}   \* level 2 is refused

\* Views: `granted`, `moved` and `barred` are history that no guard reads, and
\* what a subscriber was told is read by nobody but the subscriber; each is
\* left out where no property speaks of it.
WithoutPast == <<hwVars, mem, diskVars, main, todo, served, callVars,
                 watchVars, sleepVars, toldVars, missed>>
WithoutTold == <<hwVars, mem, diskVars, main, todo, served, callVars,
                 watchVars, sleepVars, moved, missed, barred>>
OnlyGranted == <<hwVars, mem, diskVars, main, todo, served, callVars,
                 watchVars, sleepVars, moved, missed, granted>>

Symmetry == Permutations(Clients)
=============================================================================
