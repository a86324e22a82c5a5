------------------------------- MODULE LegionCtl -------------------------------
(***************************************************************************)
(* Two ways to the same hardware: legion-ctl (backend.rs, commands.rs)     *)
(* asks the daemon when there is one and writes sysfs itself when there is *)
(* none, and it decides that once, when it starts.  Beside it the daemon   *)
(* starts, reapplies and stops, the machine sleeps and forgets, the        *)
(* dashboard moves its sliders, handlers of the platform profile come and  *)
(* go, and the user presses Fn+Q.                                          *)
(*                                                                         *)
(* Simplifications.  The daemon handles a call, starts, and reapplies in   *)
(* one step: Legiond has those steps in full, and its interface lock keeps *)
(* them apart.  A reboot is a suspend over which the daemon stops.  The    *)
(* three switches of ideapad and the CPU boost are one toggle.  The gate   *)
(* of the power limits follows the profile of the driven device.           *)
(***************************************************************************)
EXTENDS PowerLimits, ProfileDevice

CONSTANTS
    Callers,      \* legion-ctl processes at one time
    Commands,     \* what they may be asked to do
    Verdicts,     \* polkit's answers: "yes", "no"
    Custom,       \* the profile in which limits apply
    Modes,        \* ChargeMode
    DriverModes,  \* those the battery driver accepts
    LedMax,       \* max_brightness of the keyboard backlight
    Attrs,        \* directories of the firmware-attributes class
    KnownAttrs,   \* those of PptAttr
    Machines,     \* the machines asked about: what they have at first, the
                  \* handlers that come and go, and whether the driver
                  \* refuses limits outside Custom (gated)
    None,         \* an interface or a value that is not there
    Junk          \* an argument no parser accepts

ASSUME ValueAssumption ==
    /\ LedMax \in Nat /\ DriverModes \subseteq Modes
    /\ KnownAttrs \subseteq Attrs
    /\ None \notin Profiles \cup Modes \cup Int \cup BOOLEAN \cup Attribute
    /\ Junk \notin Profiles \cup Modes \cup Attrs \cup BOOLEAN
    /\ {"profile", "battery", "toggle", "backlight"} \cap Attrs = {}

ASSUME MachineAssumption ==
    \A m \in Machines :
      /\ m.handler \in [Slots -> Drivers \cup {NoDevice}]
      /\ m.modules \subseteq Drivers
      /\ m.battery \in Modes \cup {None}
      /\ m.toggle \in BOOLEAN \cup {None}
      /\ m.led \in 0..LedMax \cup {None}
      /\ m.attrs \in [Attrs -> Attribute \cup {None}]
      /\ m.gated \in BOOLEAN

Setters == {"profile", "battery", "toggle", "backlight", "ppt"}

\* The numbers are u32; names are whatever the user types.
ASSUME CommandAssumption ==
    \A r \in Commands :
      /\ r.op \in Setters \cup {"show", "status"}
      /\ r.op \in {"ppt", "backlight"} => r.arg \in Word
      /\ r.op = "show" => r.what \in Setters

VARIABLES
    machine,   \* which of Machines this is
    battery,   \* charge mode, or None without the interface
    toggle,    \* TRUE, FALSE or None
    led,       \* keyboard backlight level or None
    attrs,     \* attribute -> its directory, None without current_value
    up,        \* legiond owns its name
    mem,       \* what it remembers, and has saved
    owed,      \* a resume that it has heard of and not acted on
    job,       \* the command each legion-ctl is at
    lastSet,   \* history: who last set each setting, and to what
    lost,      \* history: those the firmware has forgotten since
    window,    \* the dashboard: "closed", "open", "dead" by a panic
    sliders    \* the sliders it shows

hwVars     == <<machine, battery, toggle, led, attrs>>
daemonVars == <<up, mem, owed>>
pastVars   == <<lastSet, lost>>
guiVars    == <<window, sliders>>
vars == <<deviceVars, hwVars, daemonVars, job, pastVars, guiVars>>

Tracked == {"profile", "battery"} \cup Attrs

Idle   == [stage |-> "idle"]
Nobody == [by |-> "nobody", value |-> None]

Init ==
    /\ machine \in Machines
    /\ handler = machine.handler
    /\ profileOf \in [Slots -> UNION {Choices[d] : d \in Drivers}
                               \cup {NoDevice}]
    /\ \A i \in Slots :
         profileOf[i] \in IF i \in Registered THEN Choices[handler[i]]
                          ELSE {NoDevice}
    /\ watched = NoDevice /\ woken = FALSE /\ parted = FALSE
    /\ battery = machine.battery /\ toggle = machine.toggle
    /\ led = machine.led /\ attrs = machine.attrs
    /\ up = FALSE
    /\ mem = [profile |-> None, battery |-> None,
              ppt |-> [a \in Attrs |-> None]]
    /\ owed = FALSE
    /\ job = [x \in Callers |-> Idle]
    /\ lastSet = [s \in Tracked |-> Nobody] /\ lost = {}
    /\ window = "closed" /\ sliders = None

-----------------------------------------------------------------------------
(* legion-hw: what a write comes to.  HwError's kinds and DaemonError's    *)
(* are one set, as describe_error and describe_hw_error word them alike.   *)

\* An attribute list_all lists: others are skipped.
Listed(a) == attrs[a] # None /\ Readable(attrs[a])

Info(a) == ReadByName(attrs[a])

\* Parsers and range checks that a setter runs before it writes.
Malformed(r) ==
    CASE r.op = "profile"   -> r.arg \notin Profiles
      [] r.op = "battery"   -> r.arg \notin Modes
      [] r.op = "toggle"    -> r.arg \notin BOOLEAN
      [] r.op = "backlight" -> led # None /\ r.arg > LedMax
      [] r.op = "ppt"       -> /\ r.attr \in Attrs /\ attrs[r.attr] # None
                               /\ Listed(r.attr)
                                    => ~InRange(Info(r.attr), r.arg)

\* SysRoot::write and the reads before it: the file is not there.
Lacks(r) ==
    CASE r.op = "profile"   -> DeviceDir = NoDevice
      [] r.op = "battery"   -> battery = None
      [] r.op = "toggle"    -> toggle = None
      [] r.op = "backlight" -> led = None
      [] r.op = "ppt"       -> r.attr \notin Attrs \/ attrs[r.attr] = None

\* What the driver says to root: its error, by HwError::from_io.
DriverSays(r) ==
    CASE r.op = "profile" /\ r.arg \notin Choices[handler[DeviceDir]]
           -> "unsupported"
      [] r.op = "battery" /\ r.arg \notin DriverModes -> "io"
      [] r.op = "ppt" /\ machine.gated /\ CurrentProfile # Custom -> "custom"
      [] OTHER -> "ok"

SysfsWrite(r, root) ==
    CASE Malformed(r) -> "argument"
      [] ~Malformed(r) /\ Lacks(r) -> "unsupported"
      [] ~Malformed(r) /\ ~Lacks(r) /\ ~root -> "denied"
      [] OTHER -> DriverSays(r)

\* Daemon::set_ppt wants Custom whatever the driver says.
CustomGate ==
    CASE CurrentProfile = Custom -> "ok"
      [] CurrentProfile = NoDevice -> "unsupported"
      [] CurrentProfile \in Profiles \ {Custom} -> "custom"
      [] OTHER -> "argument"

\* The answer of the daemon's setter.
Handled(r, verdict) ==
    CASE verdict = "no" -> "denied"
      [] verdict = "yes" /\ r.op = "ppt" /\ CustomGate # "ok" -> CustomGate
      [] OTHER -> SysfsWrite(r, TRUE)

\* The file changes; POLLPRI comes on top, see Wake.
Write(r) ==
    /\ IF r.op = "profile" THEN WriteProfile(DeviceDir, r.arg)
       ELSE UNCHANGED profileOf
    /\ battery' = IF r.op = "battery" THEN r.arg ELSE battery
    /\ toggle' = IF r.op = "toggle" THEN r.arg ELSE toggle
    /\ led' = IF r.op = "backlight" THEN r.arg ELSE led
    /\ attrs' = IF r.op = "ppt"
                THEN [attrs EXCEPT ![r.attr].current = r.arg] ELSE attrs
    /\ UNCHANGED <<handler, machine>>

Awaken(r) ==
    IF r.op = "profile" THEN Wake(DeviceDir) ELSE UNCHANGED watchVars

\* The setting a command is about.
Setting(r) == IF r.op = "ppt" THEN r.attr ELSE r.op

Note(r, who) ==
    /\ lastSet' = IF Setting(r) \in Tracked
                  THEN [lastSet EXCEPT ![Setting(r)] =
                          [by |-> who, value |-> r.arg]]
                  ELSE lastSet
    /\ lost' = lost \ {Setting(r)}

\* Daemon.state after a setter: the profile, the mode and the limits.
Remember(r) ==
    CASE r.op \in {"profile", "battery"} -> [mem EXCEPT ![r.op] = r.arg]
      [] r.op = "ppt" -> [mem EXCEPT !.ppt[r.attr] = r.arg]
      [] OTHER -> mem

\* Faulty: the state is updated before it is known that the call is good.
ServeFirst(r, answer) ==
    /\ mem' = Remember(r)
    /\ IF answer = "ok" THEN Write(r) /\ Awaken(r) /\ Note(r, "daemon")
       ELSE UNCHANGED <<deviceVars, hwVars, pastVars>>

\* The daemon carries out r; its state follows the write.
Serve(r, answer) ==
    IF answer = "ok"
    THEN /\ Write(r) /\ Awaken(r)
         /\ mem' = Remember(r)
         /\ Note(r, "daemon")
    ELSE UNCHANGED <<deviceVars, hwVars, mem, pastVars>>

-----------------------------------------------------------------------------
(* legion-ctl.  A command ends with a message and an exit code.             *)

End(x) == job' = [job EXCEPT ![x] = Idle]

\* Backend::connect.
Connect(x) ==
    /\ job[x].stage = "idle"
    /\ \E r \in Commands :
         job' = [job EXCEPT ![x] =
                   [stage |-> "connected", cmd |-> r,
                    via |-> IF up THEN "daemon" ELSE "direct"]]
    /\ UNCHANGED <<deviceVars, hwVars, daemonVars, pastVars, guiVars>>

At(x, stage, via) == job[x].stage = stage /\ job[x].via = via

\* Faulty: the range of a limit is left to the setter.
CliSaysNoRange(r) ==
    CASE r.op \in {"profile", "battery", "toggle"} /\ Malformed(r)
           -> "argument"
      [] r.op = "backlight" /\ r.arg > (IF led = None THEN 2 ELSE LedMax)
           -> "argument"
      [] r.op = "ppt" /\ (\A a \in Attrs : ~Listed(a)) -> "unsupported"
      [] r.op = "ppt" /\ (\E a \in Attrs : Listed(a))
           /\ ~(r.attr \in Attrs /\ Listed(r.attr)) -> "argument"
      [] OTHER -> "ok"

\* What the command itself refuses.  `ppt` looks its attribute up in the
\* list it has read; `backlight` assumes 2 where it cannot read the maximum.
CliSays(r) ==
    CASE r.op \in {"profile", "battery", "toggle"} /\ Malformed(r)
           -> "argument"
      [] r.op = "backlight" /\ r.arg > (IF led = None THEN 2 ELSE LedMax)
           -> "argument"
      [] r.op = "ppt" /\ (\A a \in Attrs : ~Listed(a)) -> "unsupported"
      [] r.op = "ppt" /\ (\E a \in Attrs : Listed(a))
           /\ ~(/\ r.attr \in Attrs /\ Listed(r.attr)
                /\ InRange(Info(r.attr), r.arg)) -> "argument"
      [] OTHER -> "ok"

\* For `ppt` the list comes from GetPpt, if the daemon was there.
Check(x) ==
    LET j == job[x]
        deaf == j.cmd.op = "ppt" /\ j.via = "daemon" /\ ~up
    IN  /\ j.stage = "connected" /\ j.cmd.op \in Setters
        /\ IF ~deaf /\ CliSays(j.cmd) = "ok"
           THEN job' = [job EXCEPT ![x].stage = "checked"]
           ELSE End(x)
        /\ UNCHANGED <<deviceVars, hwVars, daemonVars, pastVars, guiVars>>

\* call_method, answered.
CallDaemon(x) ==
    /\ At(x, "checked", "daemon")
    /\ up
    /\ \E verdict \in Verdicts :
         Serve(job[x].cmd, Handled(job[x].cmd, verdict))
    /\ End(x)
    /\ UNCHANGED <<up, owed, guiVars>>

\* The daemon carries the call out and stops before it answers.
CallCutOff(x) ==
    /\ At(x, "checked", "daemon")
    /\ up /\ "yes" \in Verdicts
    /\ Handled(job[x].cmd, "yes") = "ok"
    /\ Write(job[x].cmd) /\ CloseWatch
    /\ mem' = Remember(job[x].cmd)
    /\ Note(job[x].cmd, "daemon")
    /\ up' = FALSE /\ owed' = FALSE
    /\ End(x)
    /\ UNCHANGED guiVars

\* There is no activation file: the bus says ServiceUnknown.
CallNobody(x) ==
    /\ At(x, "checked", "daemon")
    /\ ~up
    /\ End(x)
    /\ UNCHANGED <<deviceVars, hwVars, daemonVars, pastVars, guiVars>>

\* Typed by root or by anyone.
WriteDirect(x) ==
    /\ At(x, "checked", "direct")
    /\ \E root \in BOOLEAN :
         IF SysfsWrite(job[x].cmd, root) = "ok"
         THEN /\ Write(job[x].cmd) /\ Awaken(job[x].cmd)
              /\ Note(job[x].cmd, "direct")
         ELSE UNCHANGED <<deviceVars, hwVars, pastVars>>
    /\ End(x)
    /\ UNCHANGED <<daemonVars, guiVars>>

-----------------------------------------------------------------------------
(* What legion-ctl shows.                                                  *)

Report(answer, value) == [answer |-> answer, value |-> value]

Reading(value) ==
    IF value = None THEN Report("unsupported", None) ELSE Report("ok", value)

\* A getter of legion-hw.
SysfsRead(what) ==
    CASE what = "profile" /\ CurrentProfile = NoDevice
           -> Report("unsupported", None)
      [] what = "profile" /\ CurrentProfile \notin Profiles \cup {NoDevice}
           -> Report("argument", None)
      [] what = "profile" /\ CurrentProfile \in Profiles
           -> Report("ok", CurrentProfile)
      [] what = "battery"   -> Reading(battery)
      [] what = "toggle"    -> Reading(toggle)
      [] what = "backlight" -> Reading(led)
      [] what = "ppt" ->
           IF \A a \in Attrs : ~Listed(a) THEN Report("unsupported", None)
           ELSE Report("ok",
                       {<<a, Info(a)>> : a \in {b \in Attrs : Listed(b)}})

\* unwrap_or_default, unwrap_or(false), unwrap_or(0).
Default(what) ==
    CASE what \in {"profile", "battery"} -> None
      [] what = "toggle" -> FALSE
      [] what = "backlight" -> 0

\* The daemon's property: a failed read is the default.  GetPpt lists.
PropertyRead(what) ==
    IF what = "ppt" \/ SysfsRead(what).answer = "ok" THEN SysfsRead(what)
    ELSE Report("ok", Default(what))

\* detect::probe: is the interface there?
Probed(what) ==
    CASE what = "profile"   -> DeviceDir # NoDevice
      [] what = "battery"   -> battery # None
      [] what = "toggle"    -> toggle # None
      [] what = "backlight" -> led # None
      [] what = "ppt"       -> \E a \in KnownAttrs : attrs[a] # None

\* The lines of `status`, of what is there and can be read; only the profile
\* and the limits are asked of the daemon.
StatusLines(via) ==
    LET answers == via = "daemon" => up
        Known(what) ==
          CASE what = "profile" ->
                 answers /\ (via = "daemon" \/ CurrentProfile \in Profiles)
            [] what = "ppt" -> answers /\ \E a \in Attrs : Listed(a)
            [] OTHER -> SysfsRead(what).answer = "ok"
    IN  {what \in Setters : Probed(what) /\ Known(what)}

Shown(r, via) ==
    CASE r.op = "status" -> Report("ok", StatusLines(via))
      [] r.op = "show" /\ via = "daemon" ->
           IF up THEN PropertyRead(r.what) ELSE Report("gone", None)
      [] r.op = "show" /\ via = "direct" -> SysfsRead(r.what)

\* It is on the terminal.
Show(x) ==
    /\ job[x].stage = "connected" /\ job[x].cmd.op \notin Setters
    /\ job' = [job EXCEPT ![x].stage = "shown"]
    /\ UNCHANGED <<deviceVars, hwVars, daemonVars, pastVars, guiVars>>

Exit(x) ==
    /\ job[x].stage = "shown"
    /\ End(x)
    /\ UNCHANGED <<deviceVars, hwVars, daemonVars, pastVars, guiVars>>

-----------------------------------------------------------------------------
(* The daemon starts, reapplies and stops.                                 *)

\* Faulty: a profile that this driver does not know is taken to be set.
CanSetAny(p) == p # None /\ DeviceDir # NoDevice

CanSetProfile(p) ==
    p # None /\ DeviceDir # NoDevice /\ p \in Choices[handler[DeviceDir]]

\* The profile reapply_state leaves the machine in.
NextProfile ==
    IF CanSetProfile(mem.profile) THEN mem.profile ELSE CurrentProfile

\* The other settings it brings back.
Restored(s) ==
    \/ s = "battery" /\ battery # None /\ mem.battery \in DriverModes
    \/ /\ s \in KnownAttrs /\ mem.ppt[s] # None
       /\ Listed(s) /\ InRange(Info(s), mem.ppt[s])
       /\ NextProfile = Custom \/ ~machine.gated

\* reapply_state, for all that but its POLLPRI.
Reapply ==
    /\ profileOf' = IF CanSetProfile(mem.profile)
                    THEN [profileOf EXCEPT ![DeviceDir] = mem.profile]
                    ELSE profileOf
    /\ battery' = IF Restored("battery") THEN mem.battery ELSE battery
    /\ attrs' = [a \in Attrs |->
                   IF Restored(a)
                   THEN [attrs[a] EXCEPT !.current = mem.ppt[a]]
                   ELSE attrs[a]]
    /\ lost' = {s \in lost : ~Restored(s)}
    /\ UNCHANGED <<handler, machine, toggle, led, mem, job, lastSet, guiVars>>

\* State::load, reapply_state, the name, the watcher.
DaemonStarts ==
    /\ ~up
    /\ up' = TRUE /\ owed' = FALSE
    /\ Reapply
    /\ OpenWatch(NextProfile)

\* The sleep arm: the profile is written again with the rest, over whatever
\* root or Fn+Q have made it.
DaemonResumes ==
    /\ up /\ owed
    /\ owed' = FALSE
    /\ Reapply
    /\ IF CanSetProfile(mem.profile) THEN Wake(DeviceDir)
       ELSE UNCHANGED watchVars
    /\ UNCHANGED up

DaemonStops ==
    /\ up
    /\ up' = FALSE /\ owed' = FALSE
    /\ CloseWatch
    /\ UNCHANGED <<handler, profileOf, hwVars, mem, job, pastVars, guiVars>>

\* The watcher arm wakes; Legiond has what follows.
WatcherReads ==
    /\ up
    /\ Consume
    /\ UNCHANGED <<hwVars, daemonVars, job, pastVars, guiVars>>

-----------------------------------------------------------------------------
(* The dashboard's sliders (state.rs, main.rs).                            *)

\* SliderBounds::find.
Find(a) == IF Listed(a) THEN FromAttr(Info(a)) ELSE NoSlider

\* apply_snapshot, in this dashboard or the next.
Refresh ==
    /\ up
    /\ IF \E a \in KnownAttrs : Listed(a) /\ Panics(Info(a))
       THEN window' = "dead" /\ sliders' = None
       ELSE /\ window' = "open"
            /\ sliders' = [enabled |-> CurrentProfile = Custom,
                           bounds  |-> [a \in KnownAttrs |-> Find(a)]]
    /\ UNCHANGED <<deviceVars, hwVars, daemonVars, job, pastVars>>

\* The user moves a slider, and SetPpt is carried out.
Slide(a) ==
    /\ up
    /\ window = "open" /\ sliders.enabled
    /\ \E i \in Positions(sliders.bounds[a]), verdict \in Verdicts :
         LET r == [op |-> "ppt", attr |-> a, arg |-> AsWord(i)]
         IN  Serve(r, Handled(r, verdict))
    /\ UNCHANGED <<up, owed, job, guiVars>>

-----------------------------------------------------------------------------
(* The kernel and the firmware.                                            *)

\* Nobody has set the profile that is read from now on, if it is another.
Overtaken ==
    lastSet' = IF CurrentProfile' = CurrentProfile THEN lastSet
               ELSE [lastSet EXCEPT !["profile"] = Nobody]

Outside ==
    /\ \/ \E d \in machine.modules : Register(d)
       \/ \E i \in Slots : handler[i] \in machine.modules /\ Unregister(i)
       \/ FnQ
    /\ Overtaken
    /\ UNCHANGED <<hwVars, daemonVars, job, lost, guiVars>>

\* What the firmware has before anybody sets it.
Firmware(s) ==
    IF s = "battery" THEN machine.battery ELSE machine.attrs[s].current

\* Over a suspend it forgets the charge mode and the limits.  A daemon that
\* does not listen to logind, or not yet, does not hear of its end.
Sleep ==
    /\ battery' = machine.battery
    /\ attrs' = machine.attrs
    /\ lost' = {s \in Tracked \ {"profile"} : lastSet[s] # Nobody}
    /\ owed' \in {owed, up}
    /\ UNCHANGED <<deviceVars, machine, toggle, led, up, mem, job, lastSet,
                   guiVars>>

Next ==
    \/ \E x \in Callers :
         Connect(x) \/ Check(x) \/ CallDaemon(x) \/ CallCutOff(x)
           \/ CallNobody(x) \/ WriteDirect(x) \/ Show(x) \/ Exit(x)
    \/ DaemonStarts \/ DaemonResumes \/ DaemonStops \/ WatcherReads
    \/ Refresh \/ (\E a \in KnownAttrs : Slide(a))
    \/ Outside \/ Sleep

Spec == Init /\ [][Next]_vars

-----------------------------------------------------------------------------
(* Properties.                                                              *)

HardwareTypes ==
    /\ machine \in Machines
    /\ battery \in Modes \cup {None}
    /\ toggle \in BOOLEAN \cup {None}
    /\ led \in 0..LedMax \cup {None}
    /\ attrs \in [Attrs -> Attribute \cup {None}]

DaemonTypes ==
    /\ up \in BOOLEAN /\ owed \in BOOLEAN
    /\ mem \in [profile : Profiles \cup {None}, battery : Modes \cup {None},
                ppt : [Attrs -> Word \cup {None}]]

\* What is past its own checks is a setter, and what is shown is none.
Job ==
    {Idle}
    \cup [stage : {"connected"}, cmd : Commands, via : {"daemon", "direct"}]
    \cup [stage : {"checked"}, via : {"daemon", "direct"},
          cmd : {r \in Commands : r.op \in Setters}]
    \cup [stage : {"shown"}, via : {"daemon", "direct"},
          cmd : {r \in Commands : r.op \notin Setters}]

GuiTypes ==
    /\ window \in {"closed", "open", "dead"}
    /\ window = "open" =>
         sliders \in [enabled : BOOLEAN, bounds : [KnownAttrs -> Slider]]

TypeOK ==
    /\ DeviceTypes /\ HardwareTypes /\ DaemonTypes /\ GuiTypes
    /\ job \in [Callers -> Job]
    /\ DOMAIN lastSet = Tracked
    /\ lost \subseteq Tracked \ {"profile"}

\* A driver that has the gate itself, and a profile that can be compared.
Enforced == machine.gated /\ CurrentProfile \in Profiles

(***************************************************************************)
(* "behaviour is identical either way apart from who is allowed to write"  *)
(* (commands.rs): past its own checks a command is answered alike by the   *)
(* daemon and by sysfs, and what sysfs can read the daemon shows.  It is   *)
(* the early range check of `ppt` that keeps the order of errors alike.    *)
(* Not so for a limit where the driver leaves the gate to the daemon, and  *)
(* for what cannot be read: the daemon shows a default and no error.       *)
(***************************************************************************)
WaysAgree ==
    \A x \in Callers :
      LET r == job[x].cmd IN
      /\ job[x].stage = "checked" =>
           \/ Handled(r, "yes") = SysfsWrite(r, TRUE)
           \/ r.op = "ppt" /\ ~Enforced
      /\ job[x].stage = "shown" /\ up =>
           IF r.op = "status"
           THEN CurrentProfile \in Profiles \cup {NoDevice} =>
                  StatusLines("daemon") = StatusLines("direct")
           ELSE SysfsRead(r.what).answer = "ok" =>
                  Shown(r, "daemon") = Shown(r, "direct")

\* What a tracked setting is, and what the daemon has it down as.
Now(s) == CASE s = "profile" -> CurrentProfile
            [] s = "battery" -> battery
            [] OTHER         -> attrs[s].current

InMind(s) == IF s \in Attrs THEN mem.ppt[s] ELSE mem[s]

(***************************************************************************)
(* A setting the daemon made stays, whatever stops and starts, until root, *)
(* Fn+Q or another handler changes it, or the firmware forgets it over a   *)
(* suspend; then it is the firmware's own until a reapplication brings it  *)
(* back (iface.rs, reapply_state).  A setting root made beside the daemon  *)
(* stays at most until the daemon reapplies, at its start or after a       *)
(* resume, and brings back what it was last asked for.                     *)
(***************************************************************************)
LastWordKept ==
    \A s \in Tracked :
      LET forgotten == s \in lost /\ Now(s) = Firmware(s) IN
      /\ lastSet[s].by = "daemon" => Now(s) = lastSet[s].value \/ forgotten
      /\ lastSet[s].by = "direct" =>
           Now(s) \in {lastSet[s].value, InMind(s)} \/ forgotten

(***************************************************************************)
(* "The watcher never ends up on a second handler's file" (profile_watch): *)
(* its descriptor is that of the device every access looks up, for as long *)
(* as no handler came or went that device_dir prefers to the one it was    *)
(* opened for.                                                             *)
(***************************************************************************)
WatchFollowsDevice ==
    up /\ ~parted => watched = DeviceDir /\ watched # NoDevice

(***************************************************************************)
(* A limit with a proper range has a slider with that range, all of whose  *)
(* positions the range check accepts, wherever the limit has gone since;   *)
(* and no machine stops the dashboard but one that states a range whose    *)
(* upper end alone does not fit an i32, such as one without max_value.     *)
(***************************************************************************)
SlidersFollowFirmware ==
    /\ window = "open" =>
         \A a \in KnownAttrs : Listed(a) /\ Sensible(Info(a)) =>
           LET slider == sliders.bounds[a] IN
           /\ slider.min = Info(a).min /\ slider.max = Info(a).max
           /\ slider.value \in Positions(slider)
           /\ \A i \in Positions(slider) : InRange(Info(a), AsWord(i))
    /\ window = "dead" =>
         \E a \in KnownAttrs : Listed(a) /\ Overturned(Info(a))
=============================================================================
