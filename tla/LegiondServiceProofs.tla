------------------------- MODULE LegiondServiceProofs -------------------------
(***************************************************************************)
(* Legiond implements SettingsService, for every set of clients, calls and *)
(* values and every combination of faults.  Each step of the daemon is one *)
(* of the service's or leaves the service as it is; what makes it so are   *)
(* the invariants of LegiondProofs: the lock (no two calls between their   *)
(* write and their reply) and the file (it is the memory that is renamed). *)
(***************************************************************************)
EXTENDS LegiondService, LegiondProofs

USE DEF vars, hwVars, diskVars, callVars, watchVars, sleepVars, toldVars,
        pastVars

\* The phases are what their names say.
LEMMA Phases ==
  /\ Phase("idle") = "idle" /\ Phase("emit") = "settled"
  /\ Phase("queued") = "waiting" /\ Phase("polkit") = "waiting"
  /\ Phase("check") = "waiting" /\ Phase("apply") = "waiting"
  /\ Phase("create") = "applied" /\ Phase("write") = "applied"
  /\ Phase("rename") = "applied"
  BY DEF Phase, SaveSteps

\* The service is idle and remembers nothing before the first start.
LEMMA ServiceInit == Init => Service!Init
  <1> SUFFICES ASSUME Init PROVE Service!Init
    OBVIOUS
  <1>1. Load(file) = EmptyState /\ main = "down"
    BY DEF Init, Load, Recoverable
  <1>2. Calls = [c \in Clients |-> "idle"]
    BY Phases DEF Init, Calls
  <1> QED
    BY <1>1, <1>2 DEF Init, Service!Init, Settings, Service!EmptyState,
                      EmptyState

\* A step of the daemon that its callers cannot see.
Hidden ==
    /\ Settings' = Settings /\ file' = file /\ req' = req
    /\ \A c \in Clients : Phase(pc'[c]) = Phase(pc[c])

\* Such a step leaves the service as it is.
LEMMA HiddenStutters == Hidden => UNCHANGED Service!vars
  <1> SUFFICES ASSUME Hidden PROVE UNCHANGED Service!vars
    OBVIOUS
  <1>1. Calls' = Calls
    BY DEF Hidden, Calls
  <1>2. Load(file)' = Load(file)
    BY DEF Hidden, Load
  <1> QED
    BY <1>1, <1>2 DEF Hidden, Service!vars

\* What a call's move to another step is to the service.
LEMMA CallMoves ==
  ASSUME TypeOK, NEW c \in Clients, NEW step,
         pc' = [pc EXCEPT ![c] = step]
  PROVE  /\ Service!Move(c, Phase(pc[c]), Phase(step))
         /\ Phase(pc[c]) = Phase(step) =>
              \A d \in Clients : Phase(pc'[d]) = Phase(pc[d])
  <1>1. Calls[c] = Phase(pc[c])
    BY DEF Calls
  <1>2. Calls' = [Calls EXCEPT ![c] = Phase(step)]
    BY DEF TypeOK, CallTypes, Calls
  <1> QED
    BY <1>1, <1>2 DEF TypeOK, CallTypes, Service!Move

\* An error reply: the handler returns before it has written anything.
LEMMA ReturnRefuses ==
  ASSUME TypeOK, NEW c \in Clients, Phase(pc[c]) = "waiting", Return(c),
         UNCHANGED <<mem, file, main>>
  PROVE  Service!Refuse(c)
  <1>1. Service!Move(c, "waiting", "idle")
    BY CallMoves, Phases DEF Return
  <1>2. Load(file)' = Load(file) /\ Settings' = Settings
    BY DEF Load, Settings
  <1> QED
    BY <1>1, <1>2 DEF Service!Refuse, Return

\* While one call waits with the lock, no other is between its write and
\* its reply.
LEMMA OthersWait ==
  ASSUME TypeOK, LockDiscipline, NEW c \in Clients,
         pc[c] \notin {"idle", "queued"}
  PROVE  main # "down" /\ Service!NoOther(c)
  <1>1. \A d \in Clients \ {c} : pc[d] \in {"idle", "queued"}
    BY DEF LockDiscipline, TypeOK, CallTypes
  <1>2. \A d \in Clients \ {c} : Calls[d] \in {"idle", "waiting"}
    BY <1>1, Phases DEF Calls
  <1>3. main # "down"
    BY DEF LockDiscipline
  <1> QED
    BY <1>2, <1>3 DEF Service!NoOther

\* A setter's write is the step in which the call takes effect.
LEMMA WriteApplies ==
  ASSUME TypeOK, LockDiscipline, NEW c \in Clients, pc[c] = "apply",
         NEW step \in {"create", "emit"}, Goto(c, step),
         step = "emit" <=> req[c].op = "switch",
         mem' = Service!With(mem, req[c]),
         UNCHANGED <<file, main, req>>
  PROVE  Service!Apply(c)
  <1>1. Service!Move(c, "waiting", Phase(step))
    BY CallMoves, Phases DEF Goto
  <1>2. Phase(step) = IF req[c].op = "switch" THEN "settled" ELSE "applied"
    BY Phases
  <1>3. main # "down" /\ Service!NoOther(c)
    BY OthersWait
  <1>4. Settings = mem /\ Settings' = mem' /\ Load(file)' = Load(file)
    BY <1>3 DEF Settings, Load
  <1> QED
    BY <1>1, <1>2, <1>3, <1>4 DEF Service!Apply

\* Each step of the daemon is a step of the service or hidden from it.
LEMMA ServiceNext ==
  TypeOK /\ LockDiscipline /\ FileInv /\ [Next]_vars
    => [Service!Next]_(Service!vars)
  <1> SUFFICES ASSUME TypeOK, LockDiscipline, FileInv, [Next]_vars
               PROVE  Service!Next \/ Hidden
    BY HiddenStutters
  <1> USE DEF Hidden, Settings
  <1>1. CASE Start
    BY <1>1 DEF Start
  <1>2. CASE ReapplyProfile
    BY <1>2 DEF ReapplyProfile
  <1>3. CASE ReapplyBattery
    BY <1>3 DEF ReapplyBattery
  <1>4. CASE ReapplyPpt
    BY <1>4 DEF ReapplyPpt
  <1>5. CASE ReapplyDone
    BY <1>5 DEF ReapplyDone
  <1>6. CASE Serve
    BY <1>6 DEF Serve
  <1>7. CASE OpenWatch
    BY <1>7 DEF OpenWatch
  <1>8. CASE Subscribe
    BY <1>8 DEF Subscribe
  <1>9. CASE WatcherWakes
    BY <1>9 DEF WatcherWakes
  <1>10. CASE WatcherReadsNothing
    BY <1>10 DEF WatcherReadsNothing
  <1>11. CASE WatchFails
    BY <1>11 DEF WatchFails
  <1>12. CASE SleepSignal
    BY <1>12 DEF SleepSignal
  <1>13. CASE MainLocks
    BY <1>13 DEF MainLocks
  <1>14. CASE Notify
    BY <1>14 DEF Notify
  <1>15. CASE ClientReads
    BY <1>15 DEF ClientReads
  <1>16. CASE FnQ
    BY <1>16 DEF FnQ
  <1>17. CASE PrepareForSleep
    BY <1>17 DEF PrepareForSleep
  <1>18. CASE Resume
    BY <1>18 DEF Resume
  <1>19. CASE Wake
    BY <1>19 DEF Wake
  <1>20. ASSUME ProcessEnds, UNCHANGED file PROVE Service!Restart
    <2>1. Calls' = [c \in Clients |-> "idle"]
      BY <1>20, Phases DEF ProcessEnds, Calls
    <2>2. Settings' = Load(file) /\ Load(file)' = Load(file)
      BY <1>20 DEF ProcessEnds, Load
    <2> QED
      BY <1>20, <2>1, <2>2 DEF ProcessEnds, Service!Restart
  <1>21. CASE Crash \/ Reboot
    BY <1>20, <1>21 DEF Crash, Reboot, Service!Next
  <1>22. ASSUME NEW c \in Clients, Call(c) PROVE Service!Ask(c)
    <2>1. pc' = [pc EXCEPT ![c] = "queued"] /\ pc[c] = "idle"
      BY <1>22 DEF Call, Goto
    <2>2. Service!Move(c, "idle", "waiting")
      BY <2>1, CallMoves, Phases
    <2>3. \E r \in Service!AllRequests : req' = [req EXCEPT ![c] = r]
      BY <1>22, DaemonAssumption
         DEF Call, Service!AllRequests, AllRequests,
             Service!ProfileRequests, Service!BatteryRequests,
             Service!PptRequests, Service!SwitchRequests,
             ProfileRequests, BatteryRequests, PptRequests, SwitchRequests
    <2>4. Settings' = Settings /\ Load(file)' = Load(file)
      BY <1>22 DEF Call, Load
    <2> QED
      BY <2>2, <2>3, <2>4 DEF Service!Ask
  <1>23. ASSUME NEW c \in Clients, Acquire(c) PROVE Hidden
    BY <1>23, CallMoves, Phases DEF Acquire, Goto
  <1>24. ASSUME NEW c \in Clients, Allow(c) PROVE Hidden
    BY <1>24, CallMoves, Phases DEF Allow, Goto
  <1>25. ASSUME NEW c \in Clients, Deny(c) PROVE Service!Refuse(c)
    BY <1>25, ReturnRefuses, Phases DEF Deny
  <1>26. ASSUME NEW c \in Clients, CheckCustom(c)
         PROVE  Service!Refuse(c) \/ Hidden
    <2>1. CASE hwProfile = Custom
      BY <1>26, <2>1, CallMoves, Phases DEF CheckCustom, Goto
    <2>2. CASE hwProfile # Custom
      BY <1>26, <2>2, ReturnRefuses, Phases DEF CheckCustom
    <2> QED
      BY <2>1, <2>2
  <1>27. ASSUME NEW c \in Clients, SetProfile(c) PROVE Service!Apply(c)
    <2>1. mem' = Service!With(mem, req[c])
      BY <1>27 DEF SetProfile, Service!With
    <2> QED
      BY <1>27, <2>1, WriteApplies DEF SetProfile
  <1>28. ASSUME NEW c \in Clients, SetBatteryMode(c) PROVE Service!Apply(c)
    <2>1. mem' = Service!With(mem, req[c])
      BY <1>28 DEF SetBatteryMode, Service!With
    <2> QED
      BY <1>28, <2>1, WriteApplies DEF SetBatteryMode
  <1>29. ASSUME NEW c \in Clients, SetPpt(c) PROVE Service!Apply(c)
    <2>1. mem' = Service!With(mem, req[c])
      BY <1>29 DEF SetPpt, Service!With
    <2> QED
      BY <1>29, <2>1, WriteApplies DEF SetPpt
  <1>30. ASSUME NEW c \in Clients, SetSwitch(c) PROVE Service!Apply(c)
    <2>1. mem' = Service!With(mem, req[c])
      BY <1>30 DEF SetSwitch, Service!With
    <2> QED
      BY <1>30, <2>1, WriteApplies DEF SetSwitch
  <1>31. ASSUME NEW c \in Clients, Refuse(c) PROVE Service!Refuse(c)
    BY <1>31, ReturnRefuses, Phases DEF Refuse
  <1>32. ASSUME NEW c \in Clients, CreateTmp(c) PROVE Hidden
    BY <1>32, CallMoves, Phases DEF CreateTmp, Goto
  <1>33. ASSUME NEW c \in Clients, WriteTmp(c) PROVE Hidden
    BY <1>33, CallMoves, Phases DEF WriteTmp, Goto
  <1>34. ASSUME NEW c \in Clients, Rename(c) PROVE Service!Save(c)
    <2>1. Service!Move(c, "applied", "settled")
      BY <1>34, CallMoves, Phases DEF Rename, Goto
    <2>2. main # "down"
      BY <1>34, OthersWait DEF Rename
    <2>3. tmp = mem /\ mem \in State
      BY <1>34 DEF Rename, FileInv, TypeOK, StateTypes
    <2>4. Load(file)' = Settings /\ Settings' = Settings
      BY <1>34, <2>2, <2>3, LoadOfState DEF Rename, Load
    <2> QED
      BY <1>34, <2>1, <2>4 DEF Service!Save, Rename
  <1>35. ASSUME NEW c \in Clients, SaveFails(c) PROVE Service!Save(c)
    <2>1. Service!Move(c, "applied", "settled")
      BY <1>35, CallMoves, Phases DEF SaveFails, Goto, SaveSteps
    <2>2. Load(file)' = Load(file) /\ Settings' = Settings
      BY <1>35 DEF SaveFails, Load
    <2> QED
      BY <1>35, <2>1, <2>2 DEF Service!Save, SaveFails
  <1>36. ASSUME NEW c \in Clients, EmitAndReply(c) PROVE Service!Answer(c)
    <2>1. Service!Move(c, "settled", "idle")
      BY <1>36, CallMoves, Phases DEF EmitAndReply, Return
    <2>2. Load(file)' = Load(file) /\ Settings' = Settings
      BY <1>36 DEF EmitAndReply, Load
    <2> QED
      BY <1>36, <2>1, <2>2
         DEF Service!Answer, EmitAndReply, Return
  <1>37. ASSUME NEW c \in Clients, EmitFails(c) PROVE Service!Answer(c)
    <2>1. Service!Move(c, "settled", "idle")
      <3>1. pc[c] = "emit" /\ Return(c)
        BY <1>37 DEF EmitFails
      <3> QED
        BY <3>1, CallMoves, Phases DEF Return
    <2>2. Load(file)' = Load(file) /\ Settings' = Settings
      BY <1>37 DEF EmitFails, Load
    <2> QED
      BY <1>37, <2>1, <2>2
         DEF Service!Answer, EmitFails, Return
  <1>38. CASE UNCHANGED vars
    BY <1>38
  <1>39. QED
    BY <1>1, <1>2, <1>3, <1>4, <1>5, <1>6, <1>7, <1>8, <1>9, <1>10, <1>11,
       <1>12, <1>13, <1>14, <1>15, <1>16, <1>17, <1>18, <1>19, <1>20,
       <1>21, <1>22, <1>23, <1>24, <1>25, <1>26, <1>27, <1>28, <1>29,
       <1>30, <1>31, <1>32, <1>33, <1>34, <1>35, <1>36, <1>37, <1>38
       DEF Next, Startup, Reapply, MainLoop, Watcher, Environment,
           Handler, Service!Next

\* Whatever the main task, polkit, the firmware, failing file operations and
\* crashes do between the steps of a handler (iface.rs), a caller sees calls
\* that take effect one at a time, whole or not at all, and a restart that
\* brings back the settings last saved.
THEOREM ImplementsService == Spec => ServiceSpec
  <1>1. []TypeOK /\ []LockDiscipline /\ []FileInv /\ [][Next]_vars
          => [][Service!Next]_(Service!vars)
    BY ServiceNext, PTL
  <1>2. Spec => []FileInv
    BY TypeCorrect, LockIsKept, FileInit, FileNext, PTL DEF Spec
  <1> QED
    BY TypeCorrect, LockIsKept, ServiceInit, <1>1, <1>2, PTL
       DEF Spec, ServiceSpec, Service!Spec
=============================================================================
