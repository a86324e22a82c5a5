---------------------------- MODULE LegiondProofs ----------------------------
(***************************************************************************)
(* Theorems about Legiond, for every set of clients, calls, profiles,      *)
(* charge modes, power limits and switches, and any queue bound.           *)
(*                                                                         *)
(* TypeOK and LockDiscipline are inductive on their own; the others build  *)
(* on them.                                                                *)
(***************************************************************************)
EXTENDS Legiond, TLAPS

-----------------------------------------------------------------------------
(* What a request is made of, by its kind.                                 *)

\* A call of one kind has that kind's arguments: the shape
\* AllRequests gives it.
LEMMA RequestShape ==
    ASSUME NEW r \in Requests
    PROVE  /\ r.op \in {"profile", "battery", "ppt", "switch"}
           /\ r.op = "profile" => r = [op |-> "profile", arg |-> r.arg]
           /\ r.op = "battery" => r = [op |-> "battery", arg |-> r.arg]
           /\ r.op = "ppt" =>
                /\ r = [op |-> "ppt", attr |-> r.attr, arg |-> r.arg]
                /\ r.arg \in Nat
           /\ r.op = "switch" =>
                /\ r = [op |-> "switch", attr |-> r.attr, arg |-> r.arg]
                /\ r.attr \in Switches
                /\ r.arg \in Levels
  BY DaemonAssumption, AttrAssumption
     DEF AllRequests, ProfileRequests, BatteryRequests, PptRequests,
         SwitchRequests

\* Whatever the file, State::load yields a state.
LEMMA LoadType ==
    ASSUME NEW f \in State \cup Recoverable
    PROVE  Load(f) \in State
  BY DEF Load, Recoverable, State, EmptyState

\* The state a first start begins with is one.
LEMMA EmptyStateType == EmptyState \in State
  BY DEF EmptyState, State

\* A missing file and a torn file are the two that hold no state.
LEMMA NoFileType == Absent \in Recoverable /\ Torn \in Recoverable
  BY DEF Recoverable

\* The handlers' assignments to a field keep the state a state.
LEMMA StateUpdate ==
    ASSUME NEW s \in State
    PROVE  /\ \A p \in Profiles : [s EXCEPT !.profile = p] \in State
           /\ \A m \in Modes : [s EXCEPT !.battery_mode = m] \in State
           /\ \A a \in Attrs, w \in Nat : [s EXCEPT !.ppt[a] = w] \in State
  BY DEF State

\* Remembering a profile or a mode leaves the remembered limits as
\* they are, and remembering a limit forgets none.
LEMMA StillRemembered ==
    ASSUME NEW s \in State
    PROVE  /\ \A p \in Profiles :
                Remembered([s EXCEPT !.profile = p]) = Remembered(s)
           /\ \A m \in Modes :
                Remembered([s EXCEPT !.battery_mode = m]) = Remembered(s)
           /\ \A a \in Attrs, w \in Nat :
                Remembered(s) \subseteq Remembered([s EXCEPT !.ppt[a] = w])
  BY AttrAssumption DEF State, Remembered

\* Signals put on an empty channel or behind others are a channel.
LEMMA QueueType ==
    /\ <<>> \in Seq(Signals)
    /\ \A q \in Seq(Signals), k \in Signals : Append(q, k) \in Seq(Signals)
  OBVIOUS

-----------------------------------------------------------------------------
(* The daemon's state stays within its types.                              *)

\* The daemon starts from well-typed state.
LEMMA TypeInit == Init => TypeOK
  BY EmptyStateType, NoFileType, QueueType, ModeAssumption, AttrAssumption,
     SwitchAssumption
     DEF Init, TypeOK, HardwareTypes, StateTypes, MainTypes, CallTypes,
         WatchTypes, SleepTypes, PastTypes, MainSteps, ReapplySteps,
         StartSteps, LoopSteps, ClientSteps, SaveSteps

USE DEF vars, hwVars, diskVars, callVars, watchVars, sleepVars, toldVars,
        pastVars

\* Every step keeps it well typed.
LEMMA TypeNext == TypeOK /\ [Next]_vars => TypeOK'
  <1> SUFFICES ASSUME TypeOK, [Next]_vars PROVE TypeOK'
    OBVIOUS
  <1> USE
     DEF TypeOK, HardwareTypes, StateTypes, MainTypes, CallTypes, WatchTypes,
         SleepTypes, PastTypes
  <1> USE
     DEF MainSteps, ReapplySteps, StartSteps, LoopSteps, ClientSteps, SaveSteps
  <1>1. CASE Start
    <2>1. HardwareTypes'
      BY <1>1, LoadType DEF Start
    <2>2. StateTypes'
      BY <1>1, LoadType DEF Start
    <2>3. MainTypes'
      BY <1>1, LoadType DEF Start
    <2>4. CallTypes'
      BY <1>1, LoadType DEF Start
    <2>5. WatchTypes'
      BY <1>1, LoadType DEF Start
    <2>6. SleepTypes'
      BY <1>1, LoadType DEF Start
    <2>7. PastTypes'
      BY <1>1, LoadType DEF Start
    <2> QED
      BY <2>1, <2>2, <2>3, <2>4, <2>5, <2>6, <2>7
  <1>2. CASE ReapplyProfile
    <2>1. HardwareTypes'
      BY <1>2 DEF ReapplyProfile, ProfileAccepted
    <2>2. StateTypes'
      BY <1>2 DEF ReapplyProfile, ProfileAccepted
    <2>3. MainTypes'
      BY <1>2 DEF ReapplyProfile, ProfileAccepted
    <2>4. CallTypes'
      BY <1>2 DEF ReapplyProfile, ProfileAccepted
    <2>5. WatchTypes'
      BY <1>2 DEF ReapplyProfile, ProfileAccepted
    <2>6. SleepTypes'
      BY <1>2 DEF ReapplyProfile, ProfileAccepted
    <2>7. PastTypes'
      BY <1>2 DEF ReapplyProfile, ProfileAccepted
    <2> QED
      BY <2>1, <2>2, <2>3, <2>4, <2>5, <2>6, <2>7
  <1>3. CASE ReapplyBattery
    <2>1. HardwareTypes'
      BY <1>3, ModeAssumption
         DEF ReapplyBattery, BatteryAccepted, Remembered
    <2>2. StateTypes'
      BY <1>3, ModeAssumption
         DEF ReapplyBattery, BatteryAccepted, Remembered
    <2>3. MainTypes'
      BY <1>3, ModeAssumption
         DEF ReapplyBattery, BatteryAccepted, Remembered
    <2>4. CallTypes'
      BY <1>3, ModeAssumption
         DEF ReapplyBattery, BatteryAccepted, Remembered
    <2>5. WatchTypes'
      BY <1>3, ModeAssumption
         DEF ReapplyBattery, BatteryAccepted, Remembered
    <2>6. SleepTypes'
      BY <1>3, ModeAssumption
         DEF ReapplyBattery, BatteryAccepted, Remembered
    <2>7. PastTypes'
      BY <1>3, ModeAssumption
         DEF ReapplyBattery, BatteryAccepted, Remembered
    <2> QED
      BY <2>1, <2>2, <2>3, <2>4, <2>5, <2>6, <2>7
  <1>4. CASE ReapplyPpt
    <2>1. PICK a \in todo, gate \in GateBehaviour :
            /\ hwPpt' = IF PptAccepted(a, mem.ppt[a], hwProfile, gate)
                        THEN [hwPpt EXCEPT ![a] = mem.ppt[a]] ELSE hwPpt
            /\ todo' = todo \ {a}
            /\ barred' \in {barred \cup {a}, barred \ {a}}
      BY <1>4 DEF ReapplyPpt
    <2>2. mem.ppt[a] \in Nat
      BY <2>1 DEF Remembered, State
    <2>3. HardwareTypes'
      BY <1>4, <2>1, <2>2 DEF ReapplyPpt
    <2>4. StateTypes'
      BY <1>4, <2>1, <2>2 DEF ReapplyPpt
    <2>5. MainTypes'
      BY <1>4, <2>1, <2>2 DEF ReapplyPpt
    <2>6. CallTypes'
      BY <1>4, <2>1, <2>2 DEF ReapplyPpt
    <2>7. WatchTypes'
      BY <1>4, <2>1, <2>2 DEF ReapplyPpt
    <2>8. SleepTypes'
      BY <1>4, <2>1, <2>2 DEF ReapplyPpt
    <2>9. PastTypes'
      <3>1. a \in Attrs
        BY <2>1 DEF Remembered
      <3>2. barred' \subseteq Attrs
        BY <2>1, <3>1
      <3> QED
        BY <1>4, <3>2 DEF ReapplyPpt
    <2> QED
      BY <2>3, <2>4, <2>5, <2>6, <2>7, <2>8, <2>9
  <1>5. CASE ReapplyDone
    BY <1>5 DEF ReapplyDone
  <1>6. CASE Serve
    BY <1>6 DEF Serve
  <1>7. CASE OpenWatch
    <2>1. HardwareTypes'
      BY <1>7 DEF OpenWatch
    <2>2. StateTypes'
      BY <1>7 DEF OpenWatch
    <2>3. MainTypes'
      BY <1>7 DEF OpenWatch
    <2>4. CallTypes'
      BY <1>7 DEF OpenWatch
    <2>5. WatchTypes'
      BY <1>7 DEF OpenWatch
    <2>6. SleepTypes'
      BY <1>7 DEF OpenWatch
    <2>7. PastTypes'
      BY <1>7 DEF OpenWatch
    <2> QED
      BY <2>1, <2>2, <2>3, <2>4, <2>5, <2>6, <2>7
  <1>8. CASE Subscribe
    BY <1>8, DaemonAssumption DEF Subscribe
  <1>9. CASE WatcherWakes
    <2>1. HardwareTypes'
      BY <1>9 DEF WatcherWakes
    <2>2. StateTypes'
      BY <1>9 DEF WatcherWakes
    <2>3. MainTypes'
      BY <1>9 DEF WatcherWakes
    <2>4. CallTypes'
      BY <1>9 DEF WatcherWakes
    <2>5. WatchTypes'
      BY <1>9 DEF WatcherWakes
    <2>6. SleepTypes'
      BY <1>9 DEF WatcherWakes
    <2>7. PastTypes'
      BY <1>9 DEF WatcherWakes
    <2> QED
      BY <2>1, <2>2, <2>3, <2>4, <2>5, <2>6, <2>7
  <1>10. CASE WatcherReadsNothing
    <2>1. HardwareTypes'
      BY <1>10 DEF WatcherReadsNothing, Unheard
    <2>2. StateTypes'
      BY <1>10 DEF WatcherReadsNothing, Unheard
    <2>3. MainTypes'
      BY <1>10 DEF WatcherReadsNothing, Unheard
    <2>4. CallTypes'
      BY <1>10 DEF WatcherReadsNothing, Unheard
    <2>5. WatchTypes'
      BY <1>10 DEF WatcherReadsNothing, Unheard
    <2>6. SleepTypes'
      BY <1>10 DEF WatcherReadsNothing, Unheard
    <2>7. PastTypes'
      BY <1>10 DEF WatcherReadsNothing, Unheard
    <2> QED
      BY <2>1, <2>2, <2>3, <2>4, <2>5, <2>6, <2>7
  <1>11. CASE WatchFails
    <2>1. HardwareTypes'
      BY <1>11 DEF WatchFails
    <2>2. StateTypes'
      BY <1>11 DEF WatchFails
    <2>3. MainTypes'
      BY <1>11 DEF WatchFails
    <2>4. CallTypes'
      BY <1>11 DEF WatchFails
    <2>5. WatchTypes'
      BY <1>11 DEF WatchFails
    <2>6. SleepTypes'
      BY <1>11 DEF WatchFails
    <2>7. PastTypes'
      BY <1>11 DEF WatchFails
    <2> QED
      BY <2>1, <2>2, <2>3, <2>4, <2>5, <2>6, <2>7
  <1>12. CASE SleepSignal
    BY <1>12 DEF SleepSignal
  <1>13. CASE MainLocks
    BY <1>13 DEF MainLocks
  <1>14. CASE Notify
    <2>1. /\ view' \in Choices \cup {None}
          /\ ahead' \in BOOLEAN
          /\ dropped' \in BOOLEAN
      BY <1>14
         DEF Notify, Tell, TellFails, Unheard, Announced, AheadOfWatcher
    <2> QED
      BY <1>14, <2>1 DEF Notify
  <1>15. CASE ClientReads
    BY <1>15 DEF ClientReads, AheadOfWatcher
  <1>16. CASE FnQ
    <2>1. dropped' \in BOOLEAN
      BY <1>16 DEF FnQ
    <2>2. hwProfile' \in Choices
      BY <1>16, DaemonAssumption DEF FnQ
    <2> QED
      BY <1>16, <2>1, <2>2 DEF FnQ
  <1>17. CASE PrepareForSleep
    <2>1. sleepq' \in Seq(Signals)
      BY <1>17, QueueType DEF PrepareForSleep, Signal, Signals
    <2> QED
      BY <1>17, <2>1 DEF PrepareForSleep
  <1>18. CASE Resume
    <2>1. sleepq' \in Seq(Signals)
      BY <1>18, QueueType DEF Resume, Signal, Signals
    <2> QED
      BY <1>18, <2>1 DEF Resume
  <1>19. CASE Wake
    <2>1. hwPpt' \in [Attrs -> Nat]
      BY <1>19, AttrAssumption DEF Wake, Forget
    <2>2. hwBattery' \in Modes
      BY <1>19, ModeAssumption DEF Wake, Forget
    <2>3. HardwareTypes'
      BY <1>19, <2>1, <2>2 DEF Wake, Forget
    <2>4. StateTypes'
      BY <1>19 DEF Wake, Forget
    <2>5. MainTypes'
      BY <1>19 DEF Wake, Forget
    <2>6. CallTypes'
      BY <1>19 DEF Wake, Forget
    <2>7. WatchTypes'
      BY <1>19 DEF Wake, Forget
    <2>8. SleepTypes'
      BY <1>19 DEF Wake
    <2>9. PastTypes'
      BY <1>19 DEF Wake
    <2> QED
      BY <2>3, <2>4, <2>5, <2>6, <2>7, <2>8, <2>9
  <1>20. CASE Crash
    BY <1>20, EmptyStateType, QueueType DEF Crash, ProcessEnds
  <1>21. CASE Reboot
    BY <1>21, EmptyStateType, QueueType, ModeAssumption, AttrAssumption
       DEF Reboot, ProcessEnds, Forget
  <1>22. ASSUME NEW c \in Clients, Call(c) PROVE TypeOK'
    BY <1>22, DaemonAssumption DEF Call, Goto
  <1>23. ASSUME NEW c \in Clients, Acquire(c) PROVE TypeOK'
    BY <1>23 DEF Acquire, Goto
  <1>24. ASSUME NEW c \in Clients, Allow(c) PROVE TypeOK'
    BY <1>24 DEF Allow, Goto
  <1>25. ASSUME NEW c \in Clients, Deny(c) PROVE TypeOK'
    BY <1>25 DEF Deny, Return
  <1>26. ASSUME NEW c \in Clients, CheckCustom(c) PROVE TypeOK'
    <2>1. HardwareTypes'
      BY <1>26 DEF CheckCustom, Return, Goto
    <2>2. StateTypes'
      BY <1>26 DEF CheckCustom, Return, Goto
    <2>3. MainTypes'
      BY <1>26 DEF CheckCustom, Return, Goto
    <2>4. CallTypes'
      BY <1>26 DEF CheckCustom, Return, Goto
    <2>5. WatchTypes'
      BY <1>26 DEF CheckCustom, Return, Goto
    <2>6. SleepTypes'
      BY <1>26 DEF CheckCustom, Return, Goto
    <2>7. PastTypes'
      BY <1>26 DEF CheckCustom, Return, Goto
    <2> QED
      BY <2>1, <2>2, <2>3, <2>4, <2>5, <2>6, <2>7
  <1>27. ASSUME NEW c \in Clients, SetProfile(c) PROVE TypeOK'
    <2>1. mem' \in State /\ todo' \subseteq Remembered(mem')
      BY <1>27, StateUpdate, StillRemembered, ProfileAssumption
         DEF SetProfile, ProfileAccepted
    <2>2. HardwareTypes'
      BY <1>27, <2>1, ProfileAssumption DEF SetProfile, ProfileAccepted, Goto
    <2>3. StateTypes'
      BY <1>27, <2>1, ProfileAssumption DEF SetProfile, ProfileAccepted, Goto
    <2>4. MainTypes'
      BY <1>27, <2>1, ProfileAssumption DEF SetProfile, ProfileAccepted, Goto
    <2>5. CallTypes'
      BY <1>27, <2>1, ProfileAssumption DEF SetProfile, ProfileAccepted, Goto
    <2>6. WatchTypes'
      BY <1>27, <2>1, ProfileAssumption DEF SetProfile, ProfileAccepted, Goto
    <2>7. SleepTypes'
      BY <1>27, <2>1, ProfileAssumption DEF SetProfile, ProfileAccepted, Goto
    <2>8. PastTypes'
      BY <1>27, <2>1, ProfileAssumption DEF SetProfile, ProfileAccepted, Goto
    <2> QED
      BY <2>2, <2>3, <2>4, <2>5, <2>6, <2>7, <2>8
  <1>28. ASSUME NEW c \in Clients, SetBatteryMode(c) PROVE TypeOK'
    <2>1. mem' \in State /\ todo' \subseteq Remembered(mem')
      BY <1>28, StateUpdate, StillRemembered, ModeAssumption
         DEF SetBatteryMode, BatteryAccepted
    <2>2. HardwareTypes'
      BY <1>28, <2>1, ModeAssumption
         DEF SetBatteryMode, BatteryAccepted, Goto
    <2>3. StateTypes'
      BY <1>28, <2>1, ModeAssumption
         DEF SetBatteryMode, BatteryAccepted, Goto
    <2>4. MainTypes'
      BY <1>28, <2>1, ModeAssumption
         DEF SetBatteryMode, BatteryAccepted, Goto
    <2>5. CallTypes'
      BY <1>28, <2>1, ModeAssumption
         DEF SetBatteryMode, BatteryAccepted, Goto
    <2>6. WatchTypes'
      BY <1>28, <2>1, ModeAssumption
         DEF SetBatteryMode, BatteryAccepted, Goto
    <2>7. SleepTypes'
      BY <1>28, <2>1, ModeAssumption
         DEF SetBatteryMode, BatteryAccepted, Goto
    <2>8. PastTypes'
      BY <1>28, <2>1, ModeAssumption
         DEF SetBatteryMode, BatteryAccepted, Goto
    <2> QED
      BY <2>2, <2>3, <2>4, <2>5, <2>6, <2>7, <2>8
  <1>29. ASSUME NEW c \in Clients, SetPpt(c) PROVE TypeOK'
    <2>1. req[c].attr \in Attrs /\ req[c].arg \in Nat
      BY <1>29, RequestShape DEF SetPpt, PptAccepted, InRange
    <2>2. mem' \in State /\ todo' \subseteq Remembered(mem')
      BY <1>29, <2>1, StateUpdate, StillRemembered DEF SetPpt
    <2>3. HardwareTypes'
      BY <1>29, <2>1, <2>2 DEF SetPpt, Goto
    <2>4. StateTypes'
      BY <1>29, <2>1, <2>2 DEF SetPpt, Goto
    <2>5. MainTypes'
      BY <1>29, <2>1, <2>2 DEF SetPpt, Goto
    <2>6. CallTypes'
      BY <1>29, <2>1, <2>2 DEF SetPpt, Goto
    <2>7. WatchTypes'
      BY <1>29, <2>1, <2>2 DEF SetPpt, Goto
    <2>8. SleepTypes'
      BY <1>29, <2>1, <2>2 DEF SetPpt, Goto
    <2>9. PastTypes'
      BY <1>29, <2>1, <2>2 DEF SetPpt, Goto
    <2> QED
      BY <2>3, <2>4, <2>5, <2>6, <2>7, <2>8, <2>9
  <1>30. ASSUME NEW c \in Clients, SetSwitch(c) PROVE TypeOK'
    BY <1>30, RequestShape DEF SetSwitch, Goto
  <1>31. ASSUME NEW c \in Clients, Refuse(c) PROVE TypeOK'
    BY <1>31 DEF Refuse, Return
  <1>32. ASSUME NEW c \in Clients, CreateTmp(c) PROVE TypeOK'
    BY <1>32, NoFileType DEF CreateTmp, Goto
  <1>33. ASSUME NEW c \in Clients, WriteTmp(c) PROVE TypeOK'
    BY <1>33 DEF WriteTmp, Goto
  <1>34. ASSUME NEW c \in Clients, Rename(c) PROVE TypeOK'
    <2>1. file' \in State \cup Recoverable
      BY <1>34 DEF Rename
    <2>2. tmp' \in State \cup Recoverable
      BY <1>34, NoFileType DEF Rename
    <2>3. HardwareTypes'
      BY <1>34, <2>1, <2>2 DEF Rename, Goto
    <2>4. StateTypes'
      BY <1>34, <2>1, <2>2 DEF Rename, Goto
    <2>5. MainTypes'
      BY <1>34, <2>1, <2>2 DEF Rename, Goto
    <2>6. CallTypes'
      BY <1>34, <2>1, <2>2 DEF Rename, Goto
    <2>7. WatchTypes'
      BY <1>34, <2>1, <2>2 DEF Rename, Goto
    <2>8. SleepTypes'
      BY <1>34, <2>1, <2>2 DEF Rename, Goto
    <2>9. PastTypes'
      BY <1>34, <2>1, <2>2 DEF Rename, Goto
    <2> QED
      BY <2>3, <2>4, <2>5, <2>6, <2>7, <2>8, <2>9
  <1>35. ASSUME NEW c \in Clients, SaveFails(c) PROVE TypeOK'
    BY <1>35 DEF SaveFails, Goto
  <1>36. ASSUME NEW c \in Clients, EmitAndReply(c) PROVE TypeOK'
    <2>1. /\ view' \in Choices \cup {None}
          /\ ahead' \in BOOLEAN
          /\ dropped' \in BOOLEAN
      BY <1>36
         DEF EmitAndReply, Tell, Announced, AheadOfWatcher
    <2> QED
      BY <1>36, <2>1 DEF EmitAndReply, Return
  <1>37. ASSUME NEW c \in Clients, EmitFails(c) PROVE TypeOK'
    <2>1. /\ view' \in Choices \cup {None}
          /\ ahead' \in BOOLEAN
          /\ dropped' \in BOOLEAN
      BY <1>37
         DEF EmitFails, TellFails, Unheard
    <2> QED
      BY <1>37, <2>1 DEF EmitFails, Return
  <1>38. CASE UNCHANGED vars
    BY <1>38
  <1>39. QED
    BY <1>1, <1>2, <1>3, <1>4, <1>5, <1>6, <1>7, <1>8, <1>9, <1>10, <1>11,
       <1>12, <1>13, <1>14, <1>15, <1>16, <1>17, <1>18, <1>19, <1>20,
       <1>21, <1>22, <1>23, <1>24, <1>25, <1>26, <1>27, <1>28, <1>29,
       <1>30, <1>31, <1>32, <1>33, <1>34, <1>35, <1>36, <1>37, <1>38
       DEF Next, Startup, Reapply, MainLoop, Watcher, Environment,
           Handler

\* The daemon's state, the files and the hardware stay within their types.
THEOREM TypeCorrect == Spec => []TypeOK
  BY TypeInit, TypeNext, PTL DEF Spec
-----------------------------------------------------------------------------
(* The interface lock.                                                     *)

\* No call is under way before the first start.
LEMMA LockInit == Init => LockDiscipline
  BY DEF Init, LockDiscipline, ReapplySteps, LoopSteps

\* Every step keeps the interface lock's discipline.
LEMMA LockNext == TypeOK /\ LockDiscipline /\ [Next]_vars => LockDiscipline'
  <1> SUFFICES ASSUME TypeOK, LockDiscipline, [Next]_vars PROVE LockDiscipline'
    OBVIOUS
  <1> USE DaemonAssumption
     DEF LockDiscipline, TypeOK, MainTypes, CallTypes, MainSteps,
         ReapplySteps, StartSteps, LoopSteps, ClientSteps, SaveSteps
  <1>1. CASE Start
    BY <1>1 DEF Start
  <1>2. CASE ReapplyProfile
    BY <1>2 DEF ReapplyProfile
  <1>3. CASE ReapplyBattery
    BY <1>3 DEF ReapplyBattery
  <1>4. CASE ReapplyPpt
    BY <1>4 DEF ReapplyPpt
  <1>5. CASE ReapplyDone
    BY <1>5 DEF ReapplyDone
  <1>6. CASE Serve
    BY <1>6 DEF Serve
  <1>7. CASE OpenWatch
    BY <1>7 DEF OpenWatch
  <1>8. CASE Subscribe
    BY <1>8 DEF Subscribe
  <1>9. CASE WatcherWakes
    BY <1>9 DEF WatcherWakes
  <1>10. CASE WatcherReadsNothing
    BY <1>10 DEF WatcherReadsNothing
  <1>11. CASE WatchFails
    BY <1>11 DEF WatchFails
  <1>12. CASE SleepSignal
    BY <1>12 DEF SleepSignal
  <1>13. CASE MainLocks
    BY <1>13 DEF MainLocks
  <1>14. CASE Notify
    BY <1>14 DEF Notify
  <1>15. CASE ClientReads
    BY <1>15 DEF ClientReads
  <1>16. CASE FnQ
    BY <1>16 DEF FnQ
  <1>17. CASE PrepareForSleep
    BY <1>17 DEF PrepareForSleep
  <1>18. CASE Resume
    BY <1>18 DEF Resume
  <1>19. CASE Wake
    BY <1>19 DEF Wake
  <1>20. CASE Crash
    BY <1>20 DEF Crash, ProcessEnds
  <1>21. CASE Reboot
    BY <1>21 DEF Reboot, ProcessEnds
  <1>22. ASSUME NEW c \in Clients, Call(c) PROVE LockDiscipline'
    BY <1>22 DEF Call, Goto
  <1>23. ASSUME NEW c \in Clients, Acquire(c) PROVE LockDiscipline'
    BY <1>23 DEF Acquire, Goto
  <1>24. ASSUME NEW c \in Clients, Allow(c) PROVE LockDiscipline'
    BY <1>24 DEF Allow, Goto
  <1>25. ASSUME NEW c \in Clients, Deny(c) PROVE LockDiscipline'
    BY <1>25 DEF Deny, Return
  <1>26. ASSUME NEW c \in Clients, CheckCustom(c) PROVE LockDiscipline'
    BY <1>26 DEF CheckCustom, Goto, Return
  <1>27. ASSUME NEW c \in Clients, SetProfile(c) PROVE LockDiscipline'
    BY <1>27 DEF SetProfile, Goto
  <1>28. ASSUME NEW c \in Clients, SetBatteryMode(c) PROVE LockDiscipline'
    BY <1>28 DEF SetBatteryMode, Goto
  <1>29. ASSUME NEW c \in Clients, SetPpt(c) PROVE LockDiscipline'
    BY <1>29 DEF SetPpt, Goto
  <1>30. ASSUME NEW c \in Clients, SetSwitch(c) PROVE LockDiscipline'
    BY <1>30 DEF SetSwitch, Goto
  <1>31. ASSUME NEW c \in Clients, Refuse(c) PROVE LockDiscipline'
    BY <1>31 DEF Refuse, Return
  <1>32. ASSUME NEW c \in Clients, CreateTmp(c) PROVE LockDiscipline'
    BY <1>32 DEF CreateTmp, Goto
  <1>33. ASSUME NEW c \in Clients, WriteTmp(c) PROVE LockDiscipline'
    BY <1>33 DEF WriteTmp, Goto
  <1>34. ASSUME NEW c \in Clients, Rename(c) PROVE LockDiscipline'
    BY <1>34 DEF Rename, Goto
  <1>35. ASSUME NEW c \in Clients, SaveFails(c) PROVE LockDiscipline'
    BY <1>35 DEF SaveFails, Goto
  <1>36. ASSUME NEW c \in Clients, EmitAndReply(c) PROVE LockDiscipline'
    BY <1>36 DEF EmitAndReply, Return
  <1>37. ASSUME NEW c \in Clients, EmitFails(c) PROVE LockDiscipline'
    BY <1>37 DEF EmitFails, Return
  <1>38. CASE UNCHANGED vars
    BY <1>38
  <1>39. QED
    BY <1>1, <1>2, <1>3, <1>4, <1>5, <1>6, <1>7, <1>8, <1>9, <1>10, <1>11,
       <1>12, <1>13, <1>14, <1>15, <1>16, <1>17, <1>18, <1>19, <1>20,
       <1>21, <1>22, <1>23, <1>24, <1>25, <1>26, <1>27, <1>28, <1>29,
       <1>30, <1>31, <1>32, <1>33, <1>34, <1>35, <1>36, <1>37, <1>38
       DEF Next, Startup, Reapply, MainLoop, Watcher, Environment,
           Handler

\* Handlers and the main task exclude one another, for any number of clients.
THEOREM LockIsKept == Spec => []LockDiscipline
  BY TypeCorrect, LockInit, LockNext, PTL DEF Spec

\* Nobody holds the lock to begin with.
LEMMA ReturnedInit == Init => LockIsReturned
  BY DaemonAssumption DEF Init, LockIsReturned

\* Whoever takes the lock goes to work, and leaves it with its last step.
LEMMA ReturnedNext ==
  TypeOK /\ LockDiscipline /\ LockIsReturned /\ [Next]_vars
    => LockIsReturned'
  <1> SUFFICES ASSUME TypeOK, LockDiscipline, LockIsReturned, [Next]_vars
               PROVE  LockIsReturned'
    OBVIOUS
  <1> USE DaemonAssumption
     DEF LockIsReturned, LockDiscipline, TypeOK, CallTypes, ReapplySteps,
         LoopSteps
  <1>1. CASE Startup
    BY <1>1 DEF Startup, Start, Serve, OpenWatch, Subscribe
  <1>2. CASE Reapply
    BY <1>2 DEF Reapply, ReapplyProfile, ReapplyBattery, ReapplyPpt,
                ReapplyDone
  <1>3. CASE MainLoop
    BY <1>3 DEF MainLoop, Watcher, WatcherWakes, WatcherReadsNothing,
                WatchFails, SleepSignal, MainLocks, Notify
  <1>4. CASE ClientReads
    BY <1>4 DEF ClientReads
  <1>5. CASE Environment
    BY <1>5 DEF Environment, FnQ, PrepareForSleep, Wake, Resume, Crash,
                Reboot, ProcessEnds
  <1>6. ASSUME NEW c \in Clients, Call(c) \/ Acquire(c)
        PROVE  LockIsReturned'
    BY <1>6 DEF Call, Acquire, Goto
  <1>7. ASSUME NEW c \in Clients, Allow(c) \/ Deny(c) \/ CheckCustom(c)
        PROVE  LockIsReturned'
    BY <1>7 DEF Allow, Deny, CheckCustom, Goto, Return
  <1>8. ASSUME NEW c \in Clients,
               SetProfile(c) \/ SetBatteryMode(c) \/ SetPpt(c)
                 \/ SetSwitch(c) \/ Refuse(c)
        PROVE  LockIsReturned'
    BY <1>8 DEF SetProfile, SetBatteryMode, SetPpt, SetSwitch, Refuse, Goto,
                Return
  <1>9. ASSUME NEW c \in Clients,
               CreateTmp(c) \/ WriteTmp(c) \/ Rename(c) \/ SaveFails(c)
                 \/ EmitAndReply(c) \/ EmitFails(c)
        PROVE  LockIsReturned'
    BY <1>9 DEF CreateTmp, WriteTmp, Rename, SaveFails, EmitAndReply,
                EmitFails, Goto, Return
  <1>10. CASE UNCHANGED vars
    BY <1>10
  <1> QED
    BY <1>1, <1>2, <1>3, <1>4, <1>5, <1>6, <1>7, <1>8, <1>9, <1>10
       DEF Next, Handler

\* Nobody keeps the lock without work to do, for any number of clients.
THEOREM LockIsNotLeaked == Spec => []LockIsReturned
  BY TypeCorrect, LockIsKept, ReturnedInit, ReturnedNext, PTL DEF Spec

-----------------------------------------------------------------------------
(* The state file.                                                         *)

\* What makes FileFollowsMemory inductive: the temporary file is complete
\* when it is renamed.
FileInv ==
    /\ FileFollowsMemory
    /\ \A c \in Clients : pc[c] = "rename" => tmp = mem

\* There is no file, and nothing to remember, before the first start.
LEMMA FileInit == Init => FileInv
  BY DaemonAssumption, EmptyStateType DEF Init, FileInv, FileFollowsMemory

\* A file that holds a state is loaded as that state.
LEMMA LoadOfState ==
    ASSUME NEW s \in State
    PROVE  Load(s) = s /\ s # Torn
  BY DaemonAssumption DEF Load, Recoverable

\* Every step keeps the files as FileInv says.
LEMMA FileNext ==
  TypeOK /\ LockDiscipline /\ FileInv /\ [Next]_vars
    => FileInv'
  <1> SUFFICES ASSUME TypeOK, LockDiscipline, FileInv,
     [Next]_vars PROVE FileInv'
    OBVIOUS
  <1> USE DEF FileInv, FileFollowsMemory, SaveSteps
  <1>1. CASE Start
    BY <1>1 DEF Start, LockDiscipline
  <1>2. CASE ReapplyProfile
    BY <1>2 DEF ReapplyProfile
  <1>3. CASE ReapplyBattery
    BY <1>3 DEF ReapplyBattery
  <1>4. CASE ReapplyPpt
    BY <1>4 DEF ReapplyPpt
  <1>5. CASE ReapplyDone
    BY <1>5 DEF ReapplyDone
  <1>6. CASE Serve
    BY <1>6 DEF Serve
  <1>7. CASE OpenWatch
    BY <1>7 DEF OpenWatch
  <1>8. CASE Subscribe
    BY <1>8 DEF Subscribe
  <1>9. CASE WatcherWakes
    BY <1>9 DEF WatcherWakes
  <1>10. CASE WatcherReadsNothing
    BY <1>10 DEF WatcherReadsNothing
  <1>11. CASE WatchFails
    BY <1>11 DEF WatchFails
  <1>12. CASE SleepSignal
    BY <1>12 DEF SleepSignal
  <1>13. CASE MainLocks
    BY <1>13 DEF MainLocks
  <1>14. CASE Notify
    BY <1>14 DEF Notify
  <1>15. CASE ClientReads
    BY <1>15 DEF ClientReads
  <1>16. CASE FnQ
    BY <1>16 DEF FnQ
  <1>17. CASE PrepareForSleep
    BY <1>17 DEF PrepareForSleep
  <1>18. CASE Resume
    BY <1>18 DEF Resume
  <1>19. CASE Wake
    BY <1>19 DEF Wake
  <1>20. CASE Crash
    BY <1>20 DEF Crash, ProcessEnds
  <1>21. CASE Reboot
    BY <1>21 DEF Reboot, ProcessEnds
  <1>22. ASSUME NEW c \in Clients, Call(c) PROVE FileInv'
    BY <1>22 DEF Call, Goto
  <1>23. ASSUME NEW c \in Clients, Acquire(c) PROVE FileInv'
    BY <1>23 DEF Acquire, Goto
  <1>24. ASSUME NEW c \in Clients, Allow(c) PROVE FileInv'
    BY <1>24 DEF Allow, Goto
  <1>25. ASSUME NEW c \in Clients, Deny(c) PROVE FileInv'
    BY <1>25 DEF Deny, Return
  <1>26. ASSUME NEW c \in Clients, CheckCustom(c) PROVE FileInv'
    BY <1>26
       DEF CheckCustom, LockDiscipline, TypeOK, CallTypes, StateTypes, Goto,
           Return
  <1>27. ASSUME NEW c \in Clients, SetProfile(c) PROVE FileInv'
    BY <1>27
       DEF SetProfile, LockDiscipline, TypeOK, CallTypes, StateTypes, Goto
  <1>28. ASSUME NEW c \in Clients, SetBatteryMode(c) PROVE FileInv'
    BY <1>28
       DEF SetBatteryMode, LockDiscipline, TypeOK, CallTypes, StateTypes, Goto
  <1>29. ASSUME NEW c \in Clients, SetPpt(c) PROVE FileInv'
    BY <1>29 DEF SetPpt, LockDiscipline, TypeOK, CallTypes, StateTypes, Goto
  <1>30. ASSUME NEW c \in Clients, SetSwitch(c) PROVE FileInv'
    BY <1>30 DEF SetSwitch, Goto
  <1>31. ASSUME NEW c \in Clients, Refuse(c) PROVE FileInv'
    BY <1>31 DEF Refuse, Return
  <1>32. ASSUME NEW c \in Clients, CreateTmp(c) PROVE FileInv'
    BY <1>32 DEF CreateTmp, LockDiscipline, Goto
  <1>33. ASSUME NEW c \in Clients, WriteTmp(c) PROVE FileInv'
    BY <1>33 DEF WriteTmp, Goto
  <1>34. ASSUME NEW c \in Clients, Rename(c) PROVE FileInv'
    BY <1>34, LoadOfState
       DEF Rename, LockDiscipline, TypeOK, StateTypes, CallTypes, Goto
  <1>35. ASSUME NEW c \in Clients, SaveFails(c) PROVE FileInv'
    BY <1>35 DEF SaveFails, Goto
  <1>36. ASSUME NEW c \in Clients, EmitAndReply(c) PROVE FileInv'
    BY <1>36 DEF EmitAndReply, Return
  <1>37. ASSUME NEW c \in Clients, EmitFails(c) PROVE FileInv'
    BY <1>37 DEF EmitFails, Return
  <1>38. CASE UNCHANGED vars
    BY <1>38
  <1>39. QED
    BY <1>1, <1>2, <1>3, <1>4, <1>5, <1>6, <1>7, <1>8, <1>9, <1>10, <1>11,
       <1>12, <1>13, <1>14, <1>15, <1>16, <1>17, <1>18, <1>19, <1>20,
       <1>21, <1>22, <1>23, <1>24, <1>25, <1>26, <1>27, <1>28, <1>29,
       <1>30, <1>31, <1>32, <1>33, <1>34, <1>35, <1>36, <1>37, <1>38
       DEF Next, Startup, Reapply, MainLoop, Watcher, Environment,
           Handler

\* state.json is never torn, and holds what the daemon remembers unless the
\* last save failed.
THEOREM FileIsDurable == Spec => []FileFollowsMemory
  <1>1. FileInv => FileFollowsMemory
    BY DEF FileInv
  <1> QED
    BY TypeCorrect, LockIsKept, FileInit, FileNext, <1>1, PTL DEF Spec

-----------------------------------------------------------------------------
(* Authorization.                                                          *)

\* What makes SettingsAreAuthorized inductive: a handler past polkit acts on
\* a call that polkit allowed.
AuthInv ==
    /\ SettingsAreAuthorized
    /\ \A c \in Clients : pc[c] \in {"check", "apply"} => req[c] \in granted

\* Before the first call nothing but the defaults is in force.
LEMMA AuthInit == Init => AuthInv
  BY DEF Init, AuthInv, SettingsAreAuthorized, StateAllowed, EmptyState, Load,
         Recoverable

\* Every step leaves in memory, files and hardware only what was allowed.
LEMMA AuthNext == TypeOK /\ AuthInv /\ [Next]_vars => AuthInv'
  <1> SUFFICES ASSUME TypeOK, AuthInv, [Next]_vars PROVE AuthInv'
    OBVIOUS
  <1> USE DEF AuthInv, SettingsAreAuthorized, StateAllowed, Allowed
  <1>1. CASE Start
    BY <1>1 DEF Start
  <1>2. CASE ReapplyProfile
    BY <1>2 DEF ReapplyProfile
  <1>3. CASE ReapplyBattery
    BY <1>3 DEF ReapplyBattery
  <1>4. CASE ReapplyPpt
    BY <1>4
       DEF ReapplyPpt, Remembered, State, TypeOK, HardwareTypes, StateTypes,
           MainTypes, CallTypes
  <1>5. CASE ReapplyDone
    BY <1>5 DEF ReapplyDone
  <1>6. CASE Serve
    BY <1>6 DEF Serve
  <1>7. CASE OpenWatch
    BY <1>7 DEF OpenWatch
  <1>8. CASE Subscribe
    BY <1>8 DEF Subscribe
  <1>9. CASE WatcherWakes
    BY <1>9 DEF WatcherWakes
  <1>10. CASE WatcherReadsNothing
    BY <1>10 DEF WatcherReadsNothing
  <1>11. CASE WatchFails
    BY <1>11 DEF WatchFails
  <1>12. CASE SleepSignal
    BY <1>12 DEF SleepSignal
  <1>13. CASE MainLocks
    BY <1>13 DEF MainLocks
  <1>14. CASE Notify
    BY <1>14 DEF Notify
  <1>15. CASE ClientReads
    BY <1>15 DEF ClientReads
  <1>16. CASE FnQ
    BY <1>16 DEF FnQ
  <1>17. CASE PrepareForSleep
    BY <1>17 DEF PrepareForSleep
  <1>18. CASE Resume
    BY <1>18 DEF Resume, Forget
  <1>19. CASE Wake
    BY <1>19 DEF Wake, Forget
  <1>20. CASE Crash
    BY <1>20 DEF Crash, EmptyState, ProcessEnds
  <1>21. CASE Reboot
    BY <1>21 DEF Reboot, EmptyState, Forget, ProcessEnds
  <1>22. ASSUME NEW c \in Clients, Call(c) PROVE AuthInv'
    BY <1>22 DEF Call, Goto
  <1>23. ASSUME NEW c \in Clients, Acquire(c) PROVE AuthInv'
    BY <1>23 DEF Acquire, Goto
  <1>24. ASSUME NEW c \in Clients, Allow(c) PROVE AuthInv'
    BY <1>24 DEF Allow, Goto
  <1>25. ASSUME NEW c \in Clients, Deny(c) PROVE AuthInv'
    BY <1>25 DEF Deny, Return
  <1>26. ASSUME NEW c \in Clients, CheckCustom(c) PROVE AuthInv'
    BY <1>26
       DEF CheckCustom, TypeOK, HardwareTypes, StateTypes, MainTypes,
           CallTypes, Goto, Return
  <1>27. ASSUME NEW c \in Clients, SetProfile(c) PROVE AuthInv'
    BY <1>27, RequestShape, DaemonAssumption, ProfileAssumption
       DEF SetProfile, State, TypeOK, HardwareTypes, StateTypes, MainTypes,
           CallTypes, Goto
  <1>28. ASSUME NEW c \in Clients, SetBatteryMode(c) PROVE AuthInv'
    BY <1>28, RequestShape, DaemonAssumption, ModeAssumption
       DEF SetBatteryMode, State, TypeOK, HardwareTypes, StateTypes,
           MainTypes, CallTypes, Goto
  <1>29. ASSUME NEW c \in Clients, SetPpt(c) PROVE AuthInv'
    BY <1>29, RequestShape, DaemonAssumption, AttrAssumption
       DEF SetPpt, State, PptAccepted, TypeOK, HardwareTypes, StateTypes,
           MainTypes, CallTypes, Goto
  <1>30. ASSUME NEW c \in Clients, SetSwitch(c) PROVE AuthInv'
    BY <1>30, RequestShape, DaemonAssumption
       DEF SetSwitch, TypeOK, HardwareTypes, StateTypes, MainTypes,
           CallTypes, Goto
  <1>31. ASSUME NEW c \in Clients, Refuse(c) PROVE AuthInv'
    BY <1>31
       DEF Refuse, TypeOK, HardwareTypes, StateTypes, MainTypes, CallTypes,
           Return
  <1>32. ASSUME NEW c \in Clients, CreateTmp(c) PROVE AuthInv'
    BY <1>32 DEF CreateTmp, Load, Recoverable, EmptyState, Goto
  <1>33. ASSUME NEW c \in Clients, WriteTmp(c) PROVE AuthInv'
    BY <1>33, LoadOfState
       DEF WriteTmp, TypeOK, HardwareTypes, StateTypes, MainTypes, CallTypes,
           Goto
  <1>34. ASSUME NEW c \in Clients, Rename(c) PROVE AuthInv'
    BY <1>34, LoadOfState
       DEF Rename, TypeOK, HardwareTypes, StateTypes, MainTypes, CallTypes,
           Load, Recoverable, EmptyState, State, Goto
  <1>35. ASSUME NEW c \in Clients, SaveFails(c) PROVE AuthInv'
    BY <1>35 DEF SaveFails, Goto
  <1>36. ASSUME NEW c \in Clients, EmitAndReply(c) PROVE AuthInv'
    BY <1>36 DEF EmitAndReply, Return
  <1>37. ASSUME NEW c \in Clients, EmitFails(c) PROVE AuthInv'
    BY <1>37 DEF EmitFails, Return
  <1>38. CASE UNCHANGED vars
    BY <1>38
  <1>39. QED
    BY <1>1, <1>2, <1>3, <1>4, <1>5, <1>6, <1>7, <1>8, <1>9, <1>10, <1>11,
       <1>12, <1>13, <1>14, <1>15, <1>16, <1>17, <1>18, <1>19, <1>20,
       <1>21, <1>22, <1>23, <1>24, <1>25, <1>26, <1>27, <1>28, <1>29,
       <1>30, <1>31, <1>32, <1>33, <1>34, <1>35, <1>36, <1>37, <1>38
       DEF Next, Startup, Reapply, MainLoop, Watcher, Environment,
           Handler

\* Nothing is remembered, saved or in force that polkit did not allow.
THEOREM OnlyAuthorized == Spec => []SettingsAreAuthorized
  <1>1. AuthInv => SettingsAreAuthorized
    BY DEF AuthInv
  <1> QED
    BY TypeCorrect, AuthInit, AuthNext, <1>1, PTL DEF Spec

-----------------------------------------------------------------------------
(* The charge mode over suspends.                                          *)

\* Where the signals stand after one is appended or the first is taken.
LEMMA QueueShift ==
  ASSUME NEW q \in Seq(Signals)
  PROVE  /\ \A k \in Signals :
              /\ \E i \in DOMAIN Append(q, k) : Append(q, k)[i] = k
              /\ \A i \in DOMAIN q : i \in DOMAIN Append(q, k)
                                       /\ Append(q, k)[i] = q[i]
         /\ q # <<>> /\ Head(q) # "resumed" =>
              \A i \in DOMAIN q : q[i] = "resumed" =>
                i - 1 \in DOMAIN Tail(q) /\ Tail(q)[i - 1] = "resumed"
  <1>1. ASSUME NEW k \in Signals
        PROVE  /\ \E i \in DOMAIN Append(q, k) : Append(q, k)[i] = k
               /\ \A i \in DOMAIN q : i \in DOMAIN Append(q, k)
                                        /\ Append(q, k)[i] = q[i]
    <2>1. Len(q) + 1 \in DOMAIN Append(q, k)
            /\ Append(q, k)[Len(q) + 1] = k
      OBVIOUS
    <2>2. \A i \in DOMAIN q : i \in DOMAIN Append(q, k)
                                /\ Append(q, k)[i] = q[i]
      OBVIOUS
    <2> QED
      BY <2>1, <2>2
  <1>2. ASSUME q # <<>>, Head(q) # "resumed",
               NEW i \in DOMAIN q, q[i] = "resumed"
        PROVE  i - 1 \in DOMAIN Tail(q) /\ Tail(q)[i - 1] = "resumed"
    BY <1>2
  <1> QED
    BY <1>1, <1>2

\* The daemon is down to begin with.
LEMMA BatteryInit == Init => BatteryLostOnlyIfMissed
  BY DEF Init, BatteryLostOnlyIfMissed

\* Every step keeps the mode, leaves a reapplication owed, or is missed.
LEMMA BatteryNext ==
  TypeOK /\ SettingsAreAuthorized /\ BatteryLostOnlyIfMissed /\ [Next]_vars
    => BatteryLostOnlyIfMissed'
  <1> SUFFICES ASSUME TypeOK, SettingsAreAuthorized, BatteryLostOnlyIfMissed,
                      [Next]_vars
               PROVE  BatteryLostOnlyIfMissed'
    OBVIOUS
  <1> USE DEF BatteryLostOnlyIfMissed, ResumeOwed
  <1>1. CASE Start
    BY <1>1 DEF Start
  <1>2. CASE ReapplyProfile
    BY <1>2 DEF ReapplyProfile
  <1>3. CASE ReapplyBattery
    BY <1>3 DEF ReapplyBattery, StateAllowed, SettingsAreAuthorized
  <1>4. CASE ReapplyPpt
    BY <1>4 DEF ReapplyPpt
  <1>5. CASE ReapplyDone
    BY <1>5 DEF ReapplyDone
  <1>6. CASE Serve
    BY <1>6 DEF Serve
  <1>7. CASE OpenWatch
    BY <1>7 DEF OpenWatch
  <1>8. CASE Subscribe
    BY <1>8 DEF Subscribe, TypeOK, SleepTypes, StartSteps
  <1>9. CASE WatcherWakes
    BY <1>9 DEF WatcherWakes
  <1>10. CASE WatcherReadsNothing
    BY <1>10 DEF WatcherReadsNothing
  <1>11. CASE WatchFails
    BY <1>11 DEF WatchFails
  <1>12. CASE SleepSignal
    BY <1>12, QueueShift DEF SleepSignal, TypeOK, SleepTypes
  <1>13. CASE MainLocks
    BY <1>13 DEF MainLocks
  <1>14. CASE Notify
    BY <1>14 DEF Notify
  <1>15. CASE ClientReads
    BY <1>15 DEF ClientReads
  <1>16. CASE FnQ
    BY <1>16 DEF FnQ
  <1>17. CASE PrepareForSleep
    BY <1>17, QueueShift
       DEF PrepareForSleep, Signal, Signals, TypeOK, SleepTypes
  <1>18. CASE Resume
    BY <1>18, QueueShift
       DEF Resume, Signal, Signals, TypeOK, SleepTypes
  <1>19. CASE Wake
    BY <1>19 DEF Wake, Forget
  <1>20. CASE Crash
    BY <1>20 DEF Crash, ProcessEnds
  <1>21. CASE Reboot
    BY <1>21 DEF Reboot, ProcessEnds
  <1>22. ASSUME NEW c \in Clients, Call(c)
         PROVE  BatteryLostOnlyIfMissed'
    BY <1>22 DEF Call, Goto
  <1>23. ASSUME NEW c \in Clients, Acquire(c)
         PROVE  BatteryLostOnlyIfMissed'
    BY <1>23 DEF Acquire, Goto
  <1>24. ASSUME NEW c \in Clients, Allow(c)
         PROVE  BatteryLostOnlyIfMissed'
    BY <1>24 DEF Allow, Goto
  <1>25. ASSUME NEW c \in Clients, Deny(c)
         PROVE  BatteryLostOnlyIfMissed'
    BY <1>25 DEF Deny, Return
  <1>26. ASSUME NEW c \in Clients, CheckCustom(c)
         PROVE  BatteryLostOnlyIfMissed'
    BY <1>26 DEF CheckCustom, Goto, Return
  <1>27. ASSUME NEW c \in Clients, SetProfile(c)
         PROVE  BatteryLostOnlyIfMissed'
    BY <1>27 DEF SetProfile, Goto
  <1>28. ASSUME NEW c \in Clients, SetBatteryMode(c)
         PROVE  BatteryLostOnlyIfMissed'
    BY <1>28 DEF SetBatteryMode, Goto
  <1>29. ASSUME NEW c \in Clients, SetPpt(c)
         PROVE  BatteryLostOnlyIfMissed'
    BY <1>29 DEF SetPpt, Goto
  <1>30. ASSUME NEW c \in Clients, SetSwitch(c)
         PROVE  BatteryLostOnlyIfMissed'
    BY <1>30 DEF SetSwitch, Goto
  <1>31. ASSUME NEW c \in Clients, Refuse(c)
         PROVE  BatteryLostOnlyIfMissed'
    BY <1>31 DEF Refuse, Return
  <1>32. ASSUME NEW c \in Clients, CreateTmp(c)
         PROVE  BatteryLostOnlyIfMissed'
    BY <1>32 DEF CreateTmp, Goto
  <1>33. ASSUME NEW c \in Clients, WriteTmp(c)
         PROVE  BatteryLostOnlyIfMissed'
    BY <1>33 DEF WriteTmp, Goto
  <1>34. ASSUME NEW c \in Clients, Rename(c)
         PROVE  BatteryLostOnlyIfMissed'
    BY <1>34 DEF Rename, Goto
  <1>35. ASSUME NEW c \in Clients, SaveFails(c)
         PROVE  BatteryLostOnlyIfMissed'
    BY <1>35 DEF SaveFails, Goto
  <1>36. ASSUME NEW c \in Clients, EmitAndReply(c)
         PROVE  BatteryLostOnlyIfMissed'
    BY <1>36 DEF EmitAndReply, Return
  <1>37. ASSUME NEW c \in Clients, EmitFails(c)
         PROVE  BatteryLostOnlyIfMissed'
    BY <1>37 DEF EmitFails, Return
  <1>38. CASE UNCHANGED vars
    BY <1>38
  <1>39. QED
    BY <1>1, <1>2, <1>3, <1>4, <1>5, <1>6, <1>7, <1>8, <1>9, <1>10, <1>11,
       <1>12, <1>13, <1>14, <1>15, <1>16, <1>17, <1>18, <1>19, <1>20,
       <1>21, <1>22, <1>23, <1>24, <1>25, <1>26, <1>27, <1>28, <1>29,
       <1>30, <1>31, <1>32, <1>33, <1>34, <1>35, <1>36, <1>37, <1>38
       DEF Next, Startup, Reapply, MainLoop, Watcher, Environment,
           Handler

\* The daemon keeps the battery in the mode it remembers, through any number
\* of suspends, unless one ended while it did not listen.
THEOREM BatteryIsKept == Spec => []BatteryLostOnlyIfMissed
  BY TypeCorrect, OnlyAuthorized, BatteryInit, BatteryNext, PTL DEF Spec

-----------------------------------------------------------------------------
(* Replies.                                                                *)

\* What makes RepliesAreTrue inductive: it holds from the write on.
RepliesInv ==
    \A c \in Clients :
      pc[c] \in SaveSteps \cup {"emit"} => CarriedOut(req[c])

\* No call is under way to begin with.
LEMMA RepliesInit == Init => RepliesInv
  BY DEF Init, RepliesInv, SaveSteps

\* A resume that waits or is being acted on does so until the battery is
\* reached; the firmware forgets nothing behind a listening daemon's back.
LEMMA ResumeStaysOwed ==
    ASSUME TypeOK, ResumeOwed, main # "battery",
           \/ UNCHANGED <<main, sleepq, subscribed, suspend>>
           \/ Subscribe \/ SleepSignal \/ MainLocks
           \/ PrepareForSleep \/ Wake \/ Resume
    PROVE  ResumeOwed'
  <1>1. CASE SleepSignal
    BY <1>1, QueueShift DEF ResumeOwed, SleepSignal, TypeOK, SleepTypes
  <1>2. CASE MainLocks
    BY <1>2 DEF ResumeOwed, MainLocks
  <1>3. CASE PrepareForSleep \/ Resume
    BY <1>3, QueueShift DEF ResumeOwed, PrepareForSleep, Resume, Signal,
                            Signals, TypeOK, SleepTypes
  <1>4. CASE Wake
    BY <1>4 DEF ResumeOwed, Wake
  <1>5. CASE Subscribe
    BY <1>5 DEF ResumeOwed, Subscribe, TypeOK, SleepTypes, StartSteps
  <1> QED
    BY <1>1, <1>2, <1>3, <1>4, <1>5 DEF ResumeOwed

\* What was carried out stays so while nobody writes.
LEMMA CarriedOutStays ==
    ASSUME NEW r, CarriedOut(r), UNCHANGED <<hwVars, mem, moved>>,
           ResumeOwed \/ missed => (ResumeOwed \/ missed)'
    PROVE  CarriedOut(r)'
  BY DEF CarriedOut

\* A handler between its write and its reply has the daemon to itself.
LEMMA AloneAtWork ==
    ASSUME TypeOK, LockDiscipline, NEW c \in Clients,
           pc[c] \in SaveSteps \cup {"emit"}
    PROVE  /\ served /\ lock = c /\ main # "down"
           /\ main \notin ReapplySteps \cup {"notify"}
           /\ \A d \in Clients \ {c} : pc[d] \in {"idle", "queued"}
  BY DaemonAssumption
     DEF TypeOK, CallTypes, LockDiscipline, SaveSteps, ReapplySteps

\* Every step leaves what was carried out and is not yet replied to.
LEMMA RepliesNext ==
  TypeOK /\ LockDiscipline /\ RepliesInv /\ [Next]_vars => RepliesInv'
  <1> SUFFICES ASSUME TypeOK, LockDiscipline, RepliesInv, [Next]_vars,
                      NEW c \in Clients,
                      pc'[c] \in SaveSteps \cup {"emit"}
               PROVE  CarriedOut(req[c])'
    BY DEF RepliesInv
  <1> USE DEF TypeOK, CallTypes
  <1>1. CASE pc[c] \in SaveSteps \cup {"emit"}
    <2>1. CarriedOut(req[c])
      BY <1>1 DEF RepliesInv
    <2>2. /\ served /\ lock = c /\ main # "down"
          /\ main \notin ReapplySteps \cup {"notify"}
          /\ \A d \in Clients \ {c} : pc[d] \in {"idle", "queued"}
      BY <1>1, AloneAtWork
    <2>3. CASE Startup \/ Reapply
      <3>1. Serve \/ OpenWatch \/ Subscribe
        BY <2>2, <2>3 DEF Startup, Reapply, Start, ReapplyProfile,
             ReapplyBattery, ReapplyPpt, ReapplyDone, ReapplySteps
      <3>2. UNCHANGED <<hwVars, mem, moved, missed, sleepq, req>>
        BY <3>1 DEF Serve, OpenWatch, Subscribe
      <3>3. ResumeOwed => ResumeOwed'
        BY <3>1, <3>2 DEF Serve, OpenWatch, Subscribe, ResumeOwed,
                          SleepTypes, StartSteps
      <3> QED
        BY <2>1, <3>2, <3>3, CarriedOutStays
    <2>4. CASE MainLoop
      <3>1. Watcher \/ WatchFails \/ SleepSignal
        BY <2>2, <2>4, DaemonAssumption DEF MainLoop, MainLocks, Notify
      <3>2. UNCHANGED <<hwVars, mem, moved, missed, req>>
        BY <3>1 DEF Watcher, WatcherWakes, WatcherReadsNothing, WatchFails,
                    SleepSignal
      <3>3. ResumeOwed => ResumeOwed'
        BY <3>1, ResumeStaysOwed
           DEF Watcher, WatcherWakes, WatcherReadsNothing, WatchFails,
               SleepSignal, ResumeOwed
      <3> QED
        BY <2>1, <3>2, <3>3, CarriedOutStays
    <2>5. CASE FnQ
      BY <2>1, <2>5 DEF FnQ, CarriedOut, ResumeOwed
    <2>6. CASE PrepareForSleep
      <3>1. ResumeOwed => ResumeOwed'
        BY <2>2, <2>6, ResumeStaysOwed DEF ReapplySteps
      <3> QED
        BY <2>1, <2>6, <3>1, CarriedOutStays DEF PrepareForSleep
    <2>7. CASE Wake
      <3>1. (ResumeOwed \/ missed)'
        BY <2>2, <2>7 DEF Wake, ResumeOwed, SleepTypes
      <3> QED
        BY <2>1, <2>7, <3>1 DEF Wake, Forget, CarriedOut
    <2>8. CASE Resume
      <3>1. ResumeOwed => ResumeOwed'
        BY <2>2, <2>8, ResumeStaysOwed DEF ReapplySteps
      <3> QED
        BY <2>1, <2>8, <3>1, CarriedOutStays DEF Resume
    <2>9. CASE Crash \/ Reboot
      BY <2>9 DEF Crash, Reboot, ProcessEnds, SaveSteps
    <2>10. CASE ClientReads
      BY <2>1, <2>10, CarriedOutStays DEF ClientReads, ResumeOwed
    <2>11. ASSUME NEW d \in Clients, Call(d) \/ Acquire(d)
           PROVE  CarriedOut(req[c])'
      <3>1. d # c /\ UNCHANGED <<hwVars, mem, moved, missed, main, sleepVars>>
        BY <1>1, <2>11 DEF Call, Acquire, SaveSteps
      <3>2. req'[c] = req[c]
        BY <2>11, <3>1 DEF Call, Acquire
      <3> QED
        BY <2>1, <3>1, <3>2, CarriedOutStays DEF ResumeOwed
    <2>12. ASSUME NEW d \in Clients, Handler(d) PROVE CarriedOut(req[c])'
      <3>1. pc[d] \notin {"idle", "queued"}
        BY <2>12 DEF Handler, Allow, Deny, CheckCustom, SetProfile,
             SetBatteryMode, SetPpt, SetSwitch, Refuse, CreateTmp, WriteTmp,
             Rename, SaveFails, EmitAndReply, EmitFails, SaveSteps
      <3>2. d = c
        BY <2>2, <3>1
      <3>3. CreateTmp(c) \/ WriteTmp(c) \/ Rename(c) \/ SaveFails(c)
        BY <1>1, <2>12, <3>2 DEF Handler, Allow, Deny, CheckCustom,
             SetProfile, SetBatteryMode, SetPpt, SetSwitch, Refuse,
             EmitAndReply, EmitFails, Return, SaveSteps
      <3>4. UNCHANGED <<hwVars, mem, moved, missed, main, sleepVars, req>>
        BY <3>3 DEF CreateTmp, WriteTmp, Rename, SaveFails
      <3> QED
        BY <2>1, <3>4, CarriedOutStays DEF ResumeOwed
    <2>13. CASE UNCHANGED vars
      BY <2>1, <2>13, CarriedOutStays DEF ResumeOwed
    <2> QED
      BY <2>3, <2>4, <2>5, <2>6, <2>7, <2>8, <2>9, <2>10, <2>11, <2>12, <2>13
         DEF Next, Environment
  <1>2. CASE pc[c] \notin SaveSteps \cup {"emit"}
    <2>1. SetProfile(c) \/ SetBatteryMode(c) \/ SetPpt(c) \/ SetSwitch(c)
      <3>1. pc'[c] # pc[c] /\ pc'[c] # "idle"
        BY <1>2 DEF SaveSteps
      <3>2. ~Startup /\ ~Reapply /\ ~MainLoop /\ ~ClientReads
        BY <3>1 DEF Startup, Start, Serve, OpenWatch, Subscribe, Reapply,
             ReapplyProfile, ReapplyBattery, ReapplyPpt, ReapplyDone,
             MainLoop, Watcher, WatcherWakes, WatcherReadsNothing, WatchFails,
             SleepSignal, MainLocks, Notify, ClientReads
      <3>3. ~Environment
        BY <3>1 DEF Environment, FnQ, PrepareForSleep, Wake, Resume, Crash,
             Reboot, ProcessEnds
      <3>4. PICK d \in Clients : Call(d) \/ Acquire(d) \/ Handler(d)
        BY <3>1, <3>2, <3>3 DEF Next
      <3>5. d = c
        BY <3>1, <3>4 DEF Call, Acquire, Handler, Allow, Deny, CheckCustom,
             SetProfile, SetBatteryMode, SetPpt, SetSwitch, Refuse, CreateTmp,
             WriteTmp, Rename, SaveFails, EmitAndReply, EmitFails, Goto,
             Return
      <3> QED
        BY <1>2, <3>4, <3>5 DEF Call, Acquire, Handler, Allow, Deny,
             CheckCustom, Refuse, CreateTmp, WriteTmp, Rename, SaveFails,
             EmitAndReply, EmitFails, Goto, Return, SaveSteps
    <2>2. CASE SetProfile(c)
      BY <2>2 DEF SetProfile, CarriedOut, StateTypes, State
    <2>3. CASE SetBatteryMode(c)
      BY <2>3 DEF SetBatteryMode, CarriedOut, StateTypes, State
    <2>4. CASE SetPpt(c)
      BY <2>4 DEF SetPpt, CarriedOut, StateTypes, State, HardwareTypes,
                  PptAccepted, InRange
    <2>5. CASE SetSwitch(c)
      BY <2>5, RequestShape DEF SetSwitch, CarriedOut, HardwareTypes
    <2> QED
      BY <2>1, <2>2, <2>3, <2>4, <2>5
  <1> QED
    BY <1>1, <1>2

\* A caller that is told of success can rely on it, whoever else calls.
THEOREM RepliesHold == Spec => []RepliesAreTrue
  <1>1. RepliesInv => RepliesAreTrue
    BY DEF RepliesInv, RepliesAreTrue
  <1> QED
    BY TypeCorrect, LockIsKept, RepliesInit, RepliesNext, <1>1, PTL DEF Spec

-----------------------------------------------------------------------------
(* Limits and the Custom profile.                                          *)

\* A set_ppt that has made its check finds the profile still Custom when it
\* writes, or Fn+Q has moved it.
CustomInv ==
    \A c \in Clients :
      pc[c] = "apply" /\ req[c].op = "ppt" => hwProfile = Custom \/ moved

\* No call is under way to begin with.
LEMMA CustomInit == Init => CustomInv
  BY DEF Init, CustomInv

\* Every step keeps the checked profile in place.
LEMMA CustomNext ==
  TypeOK /\ LockDiscipline /\ CustomInv /\ [Next]_vars => CustomInv'
  <1> SUFFICES ASSUME TypeOK, LockDiscipline, CustomInv, [Next]_vars
               PROVE  CustomInv'
    OBVIOUS
  <1> USE DEF CustomInv
  <1>1. CASE Start
    BY <1>1 DEF Start
  <1>2. CASE ReapplyProfile
    BY <1>2, DaemonAssumption
       DEF ReapplyProfile, TypeOK, CallTypes, LockDiscipline, ReapplySteps
  <1>3. CASE ReapplyBattery
    BY <1>3 DEF ReapplyBattery
  <1>4. CASE ReapplyPpt
    BY <1>4 DEF ReapplyPpt
  <1>5. CASE ReapplyDone
    BY <1>5 DEF ReapplyDone
  <1>6. CASE Serve
    BY <1>6 DEF Serve
  <1>7. CASE OpenWatch
    BY <1>7 DEF OpenWatch
  <1>8. CASE Subscribe
    BY <1>8 DEF Subscribe
  <1>9. CASE WatcherWakes
    BY <1>9 DEF WatcherWakes
  <1>10. CASE WatcherReadsNothing
    BY <1>10 DEF WatcherReadsNothing
  <1>11. CASE WatchFails
    BY <1>11 DEF WatchFails
  <1>12. CASE SleepSignal
    BY <1>12 DEF SleepSignal
  <1>13. CASE MainLocks
    BY <1>13 DEF MainLocks
  <1>14. CASE Notify
    BY <1>14 DEF Notify
  <1>15. CASE ClientReads
    BY <1>15 DEF ClientReads
  <1>16. CASE FnQ
    BY <1>16 DEF FnQ
  <1>17. CASE PrepareForSleep
    BY <1>17 DEF PrepareForSleep
  <1>18. CASE Resume
    BY <1>18 DEF Resume, Forget
  <1>19. CASE Wake
    BY <1>19 DEF Wake, Forget
  <1>20. CASE Crash
    BY <1>20 DEF Crash, ProcessEnds
  <1>21. CASE Reboot
    BY <1>21 DEF Reboot, ProcessEnds
  <1>22. ASSUME NEW c \in Clients, Call(c) PROVE CustomInv'
    BY <1>22 DEF Call, Goto
  <1>23. ASSUME NEW c \in Clients, Acquire(c) PROVE CustomInv'
    BY <1>23 DEF Acquire, Goto
  <1>24. ASSUME NEW c \in Clients, Allow(c) PROVE CustomInv'
    BY <1>24 DEF Allow, Goto
  <1>25. ASSUME NEW c \in Clients, Deny(c) PROVE CustomInv'
    BY <1>25 DEF Deny, Return
  <1>26. ASSUME NEW c \in Clients, CheckCustom(c) PROVE CustomInv'
    BY <1>26 DEF CheckCustom, TypeOK, CallTypes, LockDiscipline, Goto, Return
  <1>27. ASSUME NEW c \in Clients, SetProfile(c) PROVE CustomInv'
    BY <1>27 DEF SetProfile, TypeOK, CallTypes, LockDiscipline, Goto
  <1>28. ASSUME NEW c \in Clients, SetBatteryMode(c) PROVE CustomInv'
    BY <1>28 DEF SetBatteryMode, Goto
  <1>29. ASSUME NEW c \in Clients, SetPpt(c) PROVE CustomInv'
    BY <1>29 DEF SetPpt, Goto
  <1>30. ASSUME NEW c \in Clients, SetSwitch(c) PROVE CustomInv'
    BY <1>30 DEF SetSwitch, Goto
  <1>31. ASSUME NEW c \in Clients, Refuse(c) PROVE CustomInv'
    BY <1>31 DEF Refuse, TypeOK, CallTypes, Return
  <1>32. ASSUME NEW c \in Clients, CreateTmp(c) PROVE CustomInv'
    BY <1>32 DEF CreateTmp, Goto
  <1>33. ASSUME NEW c \in Clients, WriteTmp(c) PROVE CustomInv'
    BY <1>33 DEF WriteTmp, Goto
  <1>34. ASSUME NEW c \in Clients, Rename(c) PROVE CustomInv'
    BY <1>34 DEF Rename, Goto
  <1>35. ASSUME NEW c \in Clients, SaveFails(c) PROVE CustomInv'
    BY <1>35 DEF SaveFails, Goto
  <1>36. ASSUME NEW c \in Clients, EmitAndReply(c) PROVE CustomInv'
    BY <1>36 DEF EmitAndReply, Return
  <1>37. ASSUME NEW c \in Clients, EmitFails(c) PROVE CustomInv'
    BY <1>37 DEF EmitFails, Return
  <1>38. CASE UNCHANGED vars
    BY <1>38
  <1>39. QED
    BY <1>1, <1>2, <1>3, <1>4, <1>5, <1>6, <1>7, <1>8, <1>9, <1>10, <1>11,
       <1>12, <1>13, <1>14, <1>15, <1>16, <1>17, <1>18, <1>19, <1>20,
       <1>21, <1>22, <1>23, <1>24, <1>25, <1>26, <1>27, <1>28, <1>29,
       <1>30, <1>31, <1>32, <1>33, <1>34, <1>35, <1>36, <1>37, <1>38
       DEF Next, Startup, Reapply, MainLoop, Watcher, Environment,
           Handler

\* Between the check and the write of set_ppt only Fn+Q can change the
\* profile: no other call and no reapplication can, for any number of clients.
THEOREM OnlyInCustom == Spec => LimitsOnlyInCustom
  <1>1. CustomInv /\ [Next]_vars
          => [\A c \in Clients :
                pc[c] = "apply" /\ req[c].op = "ppt" /\ pc'[c] = "create"
                  => hwProfile = Custom \/ moved]_vars
    BY DEF CustomInv
  <1> QED
    BY TypeCorrect, LockIsKept, CustomInit, CustomNext, <1>1, PTL
       DEF Spec, LimitsOnlyInCustom

-----------------------------------------------------------------------------
(* What the subscriber was told.                                           *)

\* What makes StaleOnlyIfAhead inductive.  A subscriber that neither exception
\* is about has the watcher's last reading, or is about to be told it, and
\* where nothing is pending that reading is the hardware's profile.  Before
\* the first reading, and without a watcher, only a set_profile or a
\* reapplication under way can be ahead of the subscriber.
ViewInv ==
    /\ view # None => served
    /\ watching => served /\ main # "watch"
    /\ main = "serve" => ~served
    /\ ~watching => ~pending /\ last = None
    /\ view # None /\ ~ahead /\ ~dropped /\ last # None =>
         /\ ~pending => last = hwProfile
         /\ main \notin {"lockNotify", "notify"} => view = last
    /\ view # None /\ ~ahead /\ ~dropped /\ last = None =>
         \/ pending
         \/ ProfileCallOpen
         \/ main \in ReapplySteps \cup {"notify"}
         \/ view = hwProfile

\* Nobody was told anything to begin with.
LEMMA ViewInit == Init => ViewInv
  BY DEF Init, ViewInv

\* Every step keeps what the subscriber was told as ViewInv says.
LEMMA ViewNext ==
  TypeOK /\ LockDiscipline /\ ViewInv /\ [Next]_vars => ViewInv'
  <1> SUFFICES ASSUME TypeOK, LockDiscipline, ViewInv, [Next]_vars
               PROVE  ViewInv'
    OBVIOUS
  <1> USE DEF ViewInv, ProfileCallOpen, ReapplySteps
  <1>1. CASE Start
    BY <1>1 DEF Start
  <1>2. CASE ReapplyProfile
    BY <1>2 DEF ReapplyProfile
  <1>3. CASE ReapplyBattery
    BY <1>3 DEF ReapplyBattery
  <1>4. CASE ReapplyPpt
    BY <1>4 DEF ReapplyPpt
  <1>5. CASE ReapplyDone
    BY <1>5 DEF ReapplyDone
  <1>6. CASE Serve
    BY <1>6 DEF Serve
  <1>7. CASE OpenWatch
    <2>1. served /\ ~watching /\ ~pending /\ last = None
      BY <1>7 DEF OpenWatch, LockDiscipline
    <2>2. ProfileCallOpen' <=> ProfileCallOpen
      BY <1>7 DEF OpenWatch
    <2> QED
      BY <1>7, <2>1, <2>2 DEF OpenWatch
  <1>8. CASE Subscribe
    BY <1>8 DEF Subscribe
  <1>9. CASE WatcherWakes
    BY <1>9, DaemonAssumption, ProfileAssumption
      DEF WatcherWakes, TypeOK, HardwareTypes, WatchTypes, CallTypes,
          SaveSteps
  <1>10. CASE WatcherReadsNothing
    BY <1>10
      DEF WatcherReadsNothing, Unheard, TypeOK, HardwareTypes, WatchTypes
  <1>11. CASE WatchFails
    BY <1>11
      DEF WatchFails, LockDiscipline, LoopSteps, TypeOK, HardwareTypes,
          WatchTypes
  <1>12. CASE SleepSignal
    BY <1>12 DEF SleepSignal
  <1>13. CASE MainLocks
    BY <1>13 DEF MainLocks
  <1>14. CASE Notify
    <2>1. ProfileCallOpen' <=> ProfileCallOpen
      BY <1>14 DEF Notify
    <2>2. CASE Tell
      BY <1>14, <2>1, <2>2
        DEF Notify, Tell, Announced, AheadOfWatcher, TypeOK, HardwareTypes,
            WatchTypes
    <2>3. CASE TellFails
      BY <1>14, <2>1, <2>3 DEF Notify, TellFails, Unheard
    <2> QED
      BY <1>14, <2>2, <2>3 DEF Notify
  <1>15. CASE ClientReads
    BY <1>15
      DEF ClientReads, TypeOK, HardwareTypes, WatchTypes, CallTypes,
          Announced, AheadOfWatcher
  <1>16. CASE FnQ
    BY <1>16 DEF FnQ, TypeOK, HardwareTypes, WatchTypes, CallTypes
  <1>17. CASE PrepareForSleep
    BY <1>17 DEF PrepareForSleep
  <1>18. CASE Resume
    BY <1>18 DEF Resume, TypeOK, HardwareTypes, WatchTypes, CallTypes, Forget
  <1>19. CASE Wake
    BY <1>19 DEF Wake, TypeOK, HardwareTypes, WatchTypes, CallTypes, Forget
  <1>20. CASE Crash
    BY <1>20 DEF Crash, ProcessEnds
  <1>21. CASE Reboot
    BY <1>21 DEF Reboot, ProcessEnds
  <1>22. ASSUME NEW c \in Clients, Call(c) PROVE ViewInv'
    BY <1>22
      DEF Call, TypeOK, HardwareTypes, WatchTypes, CallTypes, SaveSteps, Goto
  <1>23. ASSUME NEW c \in Clients, Acquire(c) PROVE ViewInv'
    BY <1>23
      DEF Acquire, TypeOK, HardwareTypes, WatchTypes, CallTypes, SaveSteps,
          Goto
  <1>24. ASSUME NEW c \in Clients, Allow(c) PROVE ViewInv'
    BY <1>24
      DEF Allow, TypeOK, HardwareTypes, WatchTypes, CallTypes, SaveSteps, Goto
  <1>25. ASSUME NEW c \in Clients, Deny(c) PROVE ViewInv'
    BY <1>25
      DEF Deny, TypeOK, HardwareTypes, WatchTypes, CallTypes, SaveSteps,
          Return
  <1>26. ASSUME NEW c \in Clients, CheckCustom(c) PROVE ViewInv'
    BY <1>26
      DEF CheckCustom, TypeOK, HardwareTypes, WatchTypes, CallTypes,
          SaveSteps, Goto, Return
  <1>27. ASSUME NEW c \in Clients, SetProfile(c) PROVE ViewInv'
    BY <1>27, DaemonAssumption, ProfileAssumption
      DEF SetProfile, TypeOK, HardwareTypes, WatchTypes, CallTypes,
          ProfileAccepted, SaveSteps, Goto
  <1>28. ASSUME NEW c \in Clients, SetBatteryMode(c) PROVE ViewInv'
    BY <1>28 DEF SetBatteryMode, Goto
  <1>29. ASSUME NEW c \in Clients, SetPpt(c) PROVE ViewInv'
    BY <1>29 DEF SetPpt, Goto
  <1>30. ASSUME NEW c \in Clients, SetSwitch(c) PROVE ViewInv'
    BY <1>30 DEF SetSwitch, Goto
  <1>31. ASSUME NEW c \in Clients, Refuse(c) PROVE ViewInv'
    BY <1>31
      DEF Refuse, TypeOK, HardwareTypes, WatchTypes, CallTypes, SaveSteps,
          Return
  <1>32. ASSUME NEW c \in Clients, CreateTmp(c) PROVE ViewInv'
    BY <1>32
      DEF CreateTmp, TypeOK, HardwareTypes, WatchTypes, CallTypes, SaveSteps,
          Goto
  <1>33. ASSUME NEW c \in Clients, WriteTmp(c) PROVE ViewInv'
    BY <1>33
      DEF WriteTmp, TypeOK, HardwareTypes, WatchTypes, CallTypes, SaveSteps,
          Goto
  <1>34. ASSUME NEW c \in Clients, Rename(c) PROVE ViewInv'
    BY <1>34 DEF Rename, Goto
  <1>35. ASSUME NEW c \in Clients, SaveFails(c) PROVE ViewInv'
    BY <1>35 DEF SaveFails, Goto
  <1>36. ASSUME NEW c \in Clients, EmitAndReply(c) PROVE ViewInv'
    <2>1. CASE req[c].op = "profile"
      BY <1>36, <2>1
        DEF EmitAndReply, Tell, Announced, AheadOfWatcher, TypeOK,
            HardwareTypes, WatchTypes
    <2>2. CASE req[c].op # "profile"
      BY <1>36, <2>2
        DEF EmitAndReply, TypeOK, CallTypes, SaveSteps, Return
    <2> QED
      BY <2>1, <2>2
  <1>37. ASSUME NEW c \in Clients, EmitFails(c) PROVE ViewInv'
    <2>1. CASE req[c].op = "profile"
      BY <1>37, <2>1 DEF EmitFails, TellFails, Unheard
    <2>2. CASE req[c].op # "profile"
      BY <1>37, <2>2
        DEF EmitFails, TypeOK, CallTypes, SaveSteps, Return
    <2> QED
      BY <2>1, <2>2
  <1>38. CASE UNCHANGED vars
    BY <1>38
  <1>39. QED
    BY <1>1, <1>2, <1>3, <1>4, <1>5, <1>6, <1>7, <1>8, <1>9, <1>10, <1>11,
       <1>12, <1>13, <1>14, <1>15, <1>16, <1>17, <1>18, <1>19, <1>20,
       <1>21, <1>22, <1>23, <1>24, <1>25, <1>26, <1>27, <1>28, <1>29,
       <1>30, <1>31, <1>32, <1>33, <1>34, <1>35, <1>36, <1>37, <1>38
       DEF Next, Startup, Reapply, MainLoop, Watcher, Environment,
           Handler

\* A settled subscriber has the hardware's profile, unless it was told one
\* ahead of the watcher or the daemon has let a change go by.
THEOREM StaleViewExplained == Spec => []StaleOnlyIfAhead
  <1>1. ViewInv => StaleOnlyIfAhead
    BY DEF ViewInv, StaleOnlyIfAhead, ProfileSettled
  <1> QED
    BY TypeCorrect, LockIsKept, ViewInit, ViewNext, <1>1, PTL DEF Spec

-----------------------------------------------------------------------------
(* The limits a reapplication restores.                                    *)

\* What makes LimitsRestored hold when reapply_state ends: the profile is
\* Custom from its first step on, unless Fn+Q moved it, and the limits it is
\* done with are in force, unless a suspend came in between, whose end is then
\* in the channel or was missed.
RestoreInv ==
    /\ main \in {"battery", "ppt"} /\ mem.profile = Custom /\ ~moved
         => hwProfile = Custom
    /\ main = "ppt" /\ mem.profile = Custom /\ ~moved /\ ~missed /\ ~ResumeOwed
         => \A a \in Remembered(mem) \ todo : hwPpt[a] = mem.ppt[a]

\* No reapplication is under way to begin with.
LEMMA RestoreInit == Init => RestoreInv
  BY DEF Init, RestoreInv

\* Every step keeps the progress of a reapplication, or leaves one owed.
LEMMA RestoreNext ==
    /\ TypeOK
    /\ LockDiscipline
    /\ SettingsAreAuthorized
    /\ RestoreInv
    /\ [Next]_vars
    => RestoreInv'
  <1> SUFFICES ASSUME TypeOK, LockDiscipline, SettingsAreAuthorized,
                      RestoreInv, [Next]_vars
               PROVE  RestoreInv'
    OBVIOUS
  <1> USE DEF RestoreInv, ResumeOwed
  <1>1. CASE Start
    BY <1>1 DEF Start
  <1>2. CASE ReapplyProfile
    BY <1>2, ProfileAssumption
      DEF ReapplyProfile, ProfileAccepted, SettingsAreAuthorized, StateAllowed
  <1>3. CASE ReapplyBattery
    BY <1>3 DEF ReapplyBattery, Remembered
  <1>4. CASE ReapplyPpt
    <2>1. PICK a \in todo, gate \in GateBehaviour :
            /\ hwPpt' = IF PptAccepted(a, mem.ppt[a], hwProfile, gate)
                        THEN [hwPpt EXCEPT ![a] = mem.ppt[a]] ELSE hwPpt
            /\ todo' = todo \ {a}
      BY <1>4 DEF ReapplyPpt
    <2>2. hwProfile = Custom => PptAccepted(a, mem.ppt[a], hwProfile, gate)
      BY <2>1 DEF PptAccepted, SettingsAreAuthorized, StateAllowed,
                  TypeOK, MainTypes, Remembered
    <2>3. hwProfile = Custom => hwPpt' = [hwPpt EXCEPT ![a] = mem.ppt[a]]
      BY <2>1, <2>2
    <2> QED
      BY <1>4, <2>1, <2>3 DEF ReapplyPpt, Remembered, TypeOK, HardwareTypes,
                              MainTypes
  <1>5. CASE ReapplyDone
    BY <1>5 DEF ReapplyDone
  <1>6. CASE Serve
    BY <1>6 DEF Serve
  <1>7. CASE OpenWatch
    BY <1>7 DEF OpenWatch
  <1>8. CASE Subscribe
    BY <1>8 DEF Subscribe
  <1>9. CASE WatcherWakes
    BY <1>9 DEF WatcherWakes
  <1>10. CASE WatcherReadsNothing
    BY <1>10 DEF WatcherReadsNothing
  <1>11. CASE WatchFails
    BY <1>11 DEF WatchFails
  <1>12. CASE SleepSignal
    BY <1>12
      DEF SleepSignal, TypeOK, HardwareTypes, StateTypes, MainTypes,
          CallTypes, SleepTypes
  <1>13. CASE MainLocks
    BY <1>13 DEF MainLocks
  <1>14. CASE Notify
    BY <1>14 DEF Notify
  <1>15. CASE ClientReads
    BY <1>15 DEF ClientReads
  <1>16. CASE FnQ
    BY <1>16 DEF FnQ
  <1>17. CASE PrepareForSleep
    BY <1>17, QueueShift
      DEF PrepareForSleep, Signal, Signals, Forget, TypeOK,
          HardwareTypes, StateTypes, MainTypes, CallTypes, SleepTypes
  <1>18. CASE Resume
    BY <1>18, QueueShift
      DEF Resume, Signal, Signals, TypeOK,
          HardwareTypes, StateTypes, MainTypes, CallTypes, SleepTypes
  <1>19. CASE Wake
    BY <1>19 DEF Wake, Forget
  <1>20. CASE Crash
    BY <1>20 DEF Crash, ProcessEnds
  <1>21. CASE Reboot
    BY <1>21 DEF Reboot, ProcessEnds
  <1>22. ASSUME NEW c \in Clients, Call(c) PROVE RestoreInv'
    BY <1>22 DEF Call, Goto
  <1>23. ASSUME NEW c \in Clients, Acquire(c) PROVE RestoreInv'
    BY <1>23 DEF Acquire, Goto
  <1>24. ASSUME NEW c \in Clients, Allow(c) PROVE RestoreInv'
    BY <1>24 DEF Allow, Goto
  <1>25. ASSUME NEW c \in Clients, Deny(c) PROVE RestoreInv'
    BY <1>25 DEF Deny, Return
  <1>26. ASSUME NEW c \in Clients, CheckCustom(c) PROVE RestoreInv'
    <2>1. main \notin ReapplySteps
      BY <1>26, DaemonAssumption DEF CheckCustom, LockDiscipline
    <2> QED
      BY <1>26, <2>1 DEF CheckCustom, ReapplySteps, Goto, Return
  <1>27. ASSUME NEW c \in Clients, SetProfile(c) PROVE RestoreInv'
    <2>1. main \notin ReapplySteps
      BY <1>27, DaemonAssumption DEF SetProfile, LockDiscipline
    <2> QED
      BY <1>27, <2>1 DEF SetProfile, ReapplySteps
  <1>28. ASSUME NEW c \in Clients, SetBatteryMode(c) PROVE RestoreInv'
    <2>1. main \notin ReapplySteps
      BY <1>28, DaemonAssumption DEF SetBatteryMode, LockDiscipline
    <2> QED
      BY <1>28, <2>1 DEF SetBatteryMode, ReapplySteps
  <1>29. ASSUME NEW c \in Clients, SetPpt(c) PROVE RestoreInv'
    <2>1. main \notin ReapplySteps
      BY <1>29, DaemonAssumption DEF SetPpt, LockDiscipline
    <2> QED
      BY <1>29, <2>1 DEF SetPpt, ReapplySteps
  <1>30. ASSUME NEW c \in Clients, SetSwitch(c) PROVE RestoreInv'
    BY <1>30 DEF SetSwitch, Goto
  <1>31. ASSUME NEW c \in Clients, Refuse(c) PROVE RestoreInv'
    BY <1>31 DEF Refuse, Return
  <1>32. ASSUME NEW c \in Clients, CreateTmp(c) PROVE RestoreInv'
    BY <1>32 DEF CreateTmp, Goto
  <1>33. ASSUME NEW c \in Clients, WriteTmp(c) PROVE RestoreInv'
    BY <1>33 DEF WriteTmp, Goto
  <1>34. ASSUME NEW c \in Clients, Rename(c) PROVE RestoreInv'
    BY <1>34 DEF Rename, Goto
  <1>35. ASSUME NEW c \in Clients, SaveFails(c) PROVE RestoreInv'
    BY <1>35 DEF SaveFails, Goto
  <1>36. ASSUME NEW c \in Clients, EmitAndReply(c) PROVE RestoreInv'
    BY <1>36 DEF EmitAndReply, Return
  <1>37. ASSUME NEW c \in Clients, EmitFails(c) PROVE RestoreInv'
    BY <1>37 DEF EmitFails, Return
  <1>38. CASE UNCHANGED vars
    BY <1>38
  <1>39. QED
    BY <1>1, <1>2, <1>3, <1>4, <1>5, <1>6, <1>7, <1>8, <1>9, <1>10, <1>11,
       <1>12, <1>13, <1>14, <1>15, <1>16, <1>17, <1>18, <1>19, <1>20,
       <1>21, <1>22, <1>23, <1>24, <1>25, <1>26, <1>27, <1>28, <1>29,
       <1>30, <1>31, <1>32, <1>33, <1>34, <1>35, <1>36, <1>37, <1>38
       DEF Next, Startup, Reapply, MainLoop, Watcher, Environment,
           Handler

\* The limits come back with the Custom profile: a reapplication that neither
\* Fn+Q nor the firmware disturbs ends with all of them in force.
THEOREM LimitsComeBack == Spec => LimitsRestored
  <1>1. RestoreInv /\ [Next]_vars
          => [ReapplyDone /\ mem.profile = Custom /\ ~moved /\ ~missed
                  /\ ~ResumeOwed
                => \A a \in Remembered(mem) : hwPpt[a] = mem.ppt[a]]_vars
    BY DEF RestoreInv, ReapplyDone
  <1> QED
    BY TypeCorrect, LockIsKept, OnlyAuthorized, RestoreInit, RestoreNext,
       <1>1, PTL DEF Spec, LimitsRestored

-----------------------------------------------------------------------------
(* The limits between reapplications.                                      *)

\* Nothing runs to begin with.
LEMMA LimitsInit == Init => LimitsLostOnlyIfBarred
  BY DEF Init, LimitsLostOnlyIfBarred

\* In Custom a limit that is remembered is never refused: it was authorized,
\* so it is in the driver's range.
LEMMA CustomAccepts ==
    ASSUME SettingsAreAuthorized, hwProfile = Custom,
           NEW a \in Remembered(mem), NEW gate \in GateBehaviour
    PROVE  PptAccepted(a, mem.ppt[a], hwProfile, gate)
  BY DEF SettingsAreAuthorized, StateAllowed, PptAccepted, Remembered

\* Steps that write no limit and neither start nor end a reapplication.
LEMMA LimitsStayInForce ==
    ASSUME LimitsLostOnlyIfBarred, main # "down",
           UNCHANGED <<hwPpt, todo, missed, barred>>,
           mem'.ppt = mem.ppt,
           main = "ppt" <=> main' = "ppt",
           ResumeOwed => ResumeOwed'
    PROVE  LimitsLostOnlyIfBarred'
  BY DEF LimitsLostOnlyIfBarred, Remembered

\* Every step leaves a limit in force that was, or waits for its turn, or is
\* barred: what the firmware forgets is owed, and in Custom all are accepted.
LEMMA LimitsNext ==
  TypeOK /\ SettingsAreAuthorized /\ LimitsLostOnlyIfBarred /\ [Next]_vars
    => LimitsLostOnlyIfBarred'
  <1> SUFFICES ASSUME TypeOK, SettingsAreAuthorized, LimitsLostOnlyIfBarred,
                      [Next]_vars
               PROVE  LimitsLostOnlyIfBarred'
    OBVIOUS
  <1>1. CASE Start
    BY <1>1 DEF Start, LimitsLostOnlyIfBarred, ResumeOwed
  <1>2. CASE ReapplyProfile
    BY <1>2 DEF ReapplyProfile, LimitsLostOnlyIfBarred, ResumeOwed
  <1>3. CASE ReapplyBattery
    BY <1>3 DEF ReapplyBattery, LimitsLostOnlyIfBarred, Remembered
  <1>4. CASE ReapplyPpt
    <2>1. PICK a \in todo, gate \in GateBehaviour :
            /\ hwPpt' = IF PptAccepted(a, mem.ppt[a], hwProfile, gate)
                        THEN [hwPpt EXCEPT ![a] = mem.ppt[a]] ELSE hwPpt
            /\ todo' = todo \ {a}
            /\ barred' = IF hwPpt'[a] # mem.ppt[a] /\ hwProfile # Custom
                         THEN barred \cup {a} ELSE barred \ {a}
      BY <1>4 DEF ReapplyPpt
    <2>2. a \in Remembered(mem) /\ a \in Attrs
      BY <2>1 DEF TypeOK, MainTypes, Remembered
    <2>3. hwPpt'[a] = mem.ppt[a] \/ (a \in barred' /\ hwPpt' = hwPpt)
      BY <2>1, <2>2, CustomAccepts DEF TypeOK, HardwareTypes
    <2>4. \A b \in Attrs \ {a} : /\ hwPpt'[b] = hwPpt[b]
                                 /\ b \in barred' <=> b \in barred
                                 /\ b \in todo' <=> b \in todo
      BY <2>1 DEF TypeOK, HardwareTypes
    <2>5. UNCHANGED <<mem, main, missed, sleepVars>>
      BY <1>4 DEF ReapplyPpt, sleepVars
    <2>6. ResumeOwed' <=> ResumeOwed
      BY <2>5 DEF ResumeOwed
    <2> QED
      BY <2>2, <2>3, <2>4, <2>5, <2>6 DEF LimitsLostOnlyIfBarred, Remembered
  <1>5. CASE ReapplyDone
    BY <1>5 DEF ReapplyDone, LimitsLostOnlyIfBarred, ResumeOwed, Remembered
  <1>6. CASE Serve \/ OpenWatch \/ Subscribe \/ Watcher \/ WatchFails
               \/ Notify
    <2>1. ResumeOwed => ResumeOwed'
      BY <1>6
         DEF Serve, OpenWatch, Subscribe, Watcher, WatcherWakes,
             WatcherReadsNothing, WatchFails, Notify, ResumeOwed, TypeOK,
             SleepTypes, StartSteps
    <2> QED
      BY <1>6, <2>1, LimitsStayInForce
         DEF Serve, OpenWatch, Subscribe, Watcher, WatcherWakes,
             WatcherReadsNothing, WatchFails, Notify
  <1>7. CASE SleepSignal
    <2>1. ResumeOwed => ResumeOwed'
      BY <1>7, ResumeStaysOwed DEF SleepSignal
    <2> QED
      BY <1>7, <2>1, LimitsStayInForce DEF SleepSignal
  <1>8. CASE MainLocks
    BY <1>8, LimitsStayInForce DEF MainLocks, ResumeOwed
  <1>9. CASE FnQ \/ ClientReads
    BY <1>9 DEF FnQ, ClientReads, LimitsLostOnlyIfBarred, ResumeOwed,
                Remembered
  <1>10. CASE PrepareForSleep
    BY <1>10, QueueShift
       DEF PrepareForSleep, Signal, Signals, TypeOK, SleepTypes,
           LimitsLostOnlyIfBarred, ResumeOwed, Remembered
  <1>11. CASE Resume
    BY <1>11, QueueShift
       DEF Resume, Signal, Signals, TypeOK, SleepTypes,
           LimitsLostOnlyIfBarred, ResumeOwed, Remembered
  <1>12. CASE Wake
    <2>1. main # "down" => missed' \/ ResumeOwed'
      BY <1>12 DEF Wake, ResumeOwed
    <2> QED
      BY <1>12, <2>1 DEF Wake, LimitsLostOnlyIfBarred
  <1>13. CASE Crash \/ Reboot
    BY <1>13 DEF Crash, Reboot, ProcessEnds, LimitsLostOnlyIfBarred
  <1>14. ASSUME NEW c \in Clients, SetProfile(c) \/ SetBatteryMode(c)
         PROVE  LimitsLostOnlyIfBarred'
    <2>1. mem'.ppt = mem.ppt
      BY <1>14 DEF SetProfile, SetBatteryMode, TypeOK, StateTypes, State
    <2> QED
      BY <1>14, <2>1 DEF SetProfile, SetBatteryMode, LimitsLostOnlyIfBarred,
                         ResumeOwed, Remembered
  <1>15. ASSUME NEW c \in Clients, SetPpt(c)
         PROVE  LimitsLostOnlyIfBarred'
    <2> DEFINE a == req[c].attr
    <2>1. /\ hwPpt' = [hwPpt EXCEPT ![a] = req[c].arg]
          /\ mem' = [mem EXCEPT !.ppt[a] = req[c].arg]
          /\ barred' = barred \ {a}
          /\ UNCHANGED <<main, todo, missed, sleepVars>>
      BY <1>15 DEF SetPpt, sleepVars
    <2>2. \A b \in Attrs : \/ b = a /\ hwPpt'[b] = mem'.ppt[b]
                           \/ /\ hwPpt'[b] = hwPpt[b]
                              /\ mem'.ppt[b] = mem.ppt[b]
                              /\ b \in barred' <=> b \in barred
      BY <2>1 DEF TypeOK, HardwareTypes, StateTypes, State
    <2>3. ResumeOwed' <=> ResumeOwed
      BY <2>1 DEF ResumeOwed
    <2> QED
      BY <2>1, <2>2, <2>3 DEF LimitsLostOnlyIfBarred, Remembered
  <1>16. ASSUME NEW c \in Clients,
                \/ Call(c) \/ Acquire(c) \/ Allow(c) \/ Deny(c)
                \/ CheckCustom(c) \/ SetSwitch(c) \/ Refuse(c)
                \/ CreateTmp(c) \/ WriteTmp(c) \/ Rename(c) \/ SaveFails(c)
                \/ EmitAndReply(c) \/ EmitFails(c)
         PROVE  LimitsLostOnlyIfBarred'
    <2>1. UNCHANGED <<hwPpt, mem, main, todo, missed, barred, sleepVars>>
      BY <1>16
         DEF Call, Acquire, Allow, Deny, CheckCustom, SetSwitch, Refuse,
             CreateTmp, WriteTmp, Rename, SaveFails, EmitAndReply, EmitFails,
             hwVars, sleepVars, pastVars
    <2> QED
      BY <2>1 DEF LimitsLostOnlyIfBarred, ResumeOwed, Remembered
  <1>17. CASE UNCHANGED vars
    BY <1>17 DEF LimitsLostOnlyIfBarred, ResumeOwed, Remembered, vars, hwVars,
                 sleepVars, pastVars
  <1> QED
    BY <1>1, <1>2, <1>3, <1>4, <1>5, <1>6, <1>7, <1>8, <1>9, <1>10, <1>11,
       <1>12, <1>13, <1>14, <1>15, <1>16, <1>17
       DEF Next, Startup, Reapply, MainLoop, Watcher, Environment,
           Handler

\* Between reapplications no limit is lost, but over a suspend the daemon did
\* not hear of or where it was last tried outside Custom, in vain.
THEOREM LimitsStay == Spec => []LimitsLostOnlyIfBarred
  BY TypeCorrect, OnlyAuthorized, LimitsInit, LimitsNext, PTL DEF Spec

=============================================================================
