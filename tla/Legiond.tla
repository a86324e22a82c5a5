------------------------------- MODULE Legiond -------------------------------
(***************************************************************************)
(* legiond, the D-Bus daemon: startup, the method handlers, persistence,   *)
(* the Fn+Q watcher and the reapplication of settings after a resume.      *)
(*                                                                         *)
(* The daemon runs on one thread; its tasks interleave where they await.   *)
(* The firmware, the user at the keyboard, logind and a crash interleave   *)
(* with every step, so a handler is split wherever one of them can come    *)
(* between two effects: the polkit question, the check of the profile, the *)
(* sysfs write, each file operation of State::save, the signal.            *)
(*                                                                         *)
(* Simplifications.  A sysfs write and the update of the in-memory State   *)
(* after it are one step: no task runs between them, and a crash between   *)
(* them loses the memory anyway.  A zbus interface lock is a lock with one *)
(* holder; the property getters (shared readers) appear as ClientReads.    *)
(* One subscriber stands for all: `view` is the profile it was last told.  *)
(* A call that a crash cuts off counts as answered (with NoReply).  Files  *)
(* outlive the process and an orderly reboot; State::save never syncs      *)
(* them, so nothing is said of a power failure.                            *)
(***************************************************************************)
EXTENDS Platform, Sequences, FiniteSets

CONSTANTS
    Clients,     \* concurrent D-Bus callers
    Absent,      \* a state file that does not exist
    Torn,        \* a state file cut off in the middle of a write
    Main,        \* the daemon's own main task, as a holder of the lock
    Requests,    \* the calls the clients may make
    Verdicts,    \* polkit's answers: "yes", or "no" for a denial or an error
    HasLogind,   \* can the daemon subscribe to PrepareForSleep?
    Faults,      \* what may fail, see FaultKinds
    FnQProfiles, \* profiles Fn+Q can switch to
    MaxQueue     \* bound for TLC: signals queued before the next suspend

FaultKinds ==
    {"crash",    \* the process ends, the machine may be rebooted
     "save",     \* a file operation of State::save
     "read",     \* the watcher's re-read of the profile
     "watch",    \* opening the watcher, or the reactor under it
     "signal"}   \* emitting a signal

ASSUME DaemonAssumption ==
    /\ None \notin Clients
    /\ Main \notin Clients
    /\ Main # None
    /\ Absent \notin State /\ Torn \notin State /\ Absent # Torn
    /\ None \notin AllRequests
    /\ Requests \subseteq AllRequests
    /\ Verdicts \subseteq {"yes", "no"}
    /\ HasLogind \in BOOLEAN
    /\ FnQProfiles \subseteq Choices
    /\ Faults \subseteq FaultKinds
    /\ MaxQueue \in Nat

VARIABLES
    hwProfile,   \* the platform profile the hardware is in
    hwBattery,   \* its charge mode
    hwPpt,       \* its power limits
    hwSwitch,    \* its switches and levels
    mem,         \* Daemon.state
    file,        \* state.json
    tmp,         \* state.json.tmp
    dirty,       \* history: the last save failed, so file is behind mem
    main,        \* where the main task is
    todo,        \* power limits the running reapply_state has yet to write
    served,      \* the bus name is owned and the object is served
    lock,        \* holder of the interface lock
    pc,          \* where each client's call is
    req,         \* the call itself
    watching,    \* the profile watcher is open
    pending,     \* POLLPRI is raised on it
    last,        \* ProfileWatcher.last
    subscribed,  \* PrepareForSleep is subscribed
    sleepq,      \* the channel from the signal task
    suspend,     \* "begun" once logind announces it, "over" when the machine
                 \* is awake and logind has yet to say so, else "none"
    view,        \* profile the subscriber was last told; None before it reads
    ahead,       \* history: told when the watcher had not read that profile
    dropped,     \* history: a change since then that nothing will announce
    moved,       \* history: Fn+Q since the lock holder last knew the profile
    missed,      \* history: the firmware forgot while nobody listened
    barred,      \* history: limits last tried, in vain, outside Custom
    granted      \* history: the calls polkit has allowed

hwVars    == <<hwProfile, hwBattery, hwPpt, hwSwitch>>
diskVars  == <<file, tmp, dirty>>
callVars  == <<lock, pc, req>>
watchVars == <<watching, pending, last>>
sleepVars == <<subscribed, sleepq, suspend>>
toldVars  == <<view, ahead, dropped>>
pastVars  == <<moved, missed, barred, granted>>
vars == <<hwVars, mem, diskVars, main, todo, served, callVars, watchVars,
          sleepVars, toldVars, pastVars>>

Recoverable == {Absent, Torn}   \* files State::load makes nothing of

ReapplySteps == {"profile", "battery", "ppt"}
StartSteps   == {"serve", "watch", "subscribe"}
LoopSteps    == {"select", "lockNotify", "lockReapply", "notify"}
SaveSteps    == {"create", "write", "rename"}

MainSteps   == {"down"} \cup ReapplySteps \cup StartSteps \cup LoopSteps
ClientSteps == {"idle", "queued", "polkit", "check", "apply", "emit"}
                 \cup SaveSteps

\* The power limits reapply_state goes through: it skips the keys that
\* PptAttr::from_key does not know.
Remembered(s) == {a \in KnownAttrs \cap Attrs : s.ppt[a] # None}

\* What PrepareForSleep tells: `start` is true for the first.
Signals == {"suspending", "resumed"}

HardwareTypes ==
    /\ hwProfile \in Choices
    /\ hwBattery \in Modes
    /\ hwPpt \in [Attrs -> Nat]
    /\ hwSwitch \in [Switches -> Levels]

StateTypes ==
    /\ mem \in State
    /\ file \in State \cup Recoverable
    /\ tmp \in State \cup Recoverable
    /\ dirty \in BOOLEAN

MainTypes ==
    /\ main \in MainSteps
    /\ todo \subseteq Remembered(mem)
    /\ main = "down" => todo = {}
    /\ served \in BOOLEAN
    /\ main \in {"watch", "subscribe"} => served

CallTypes ==
    /\ lock \in Clients \cup {Main, None}
    /\ pc \in [Clients -> ClientSteps]
    /\ req \in [Clients -> Requests \cup {None}]
    /\ \A c \in Clients : pc[c] # "idle" => req[c] # None

WatchTypes ==
    /\ watching \in BOOLEAN
    /\ pending \in BOOLEAN
    /\ last \in Choices \cup {None}
    /\ view \in Choices \cup {None}
    /\ ahead \in BOOLEAN
    /\ dropped \in BOOLEAN

SleepTypes ==
    /\ subscribed \in BOOLEAN
    /\ subscribed => served /\ main \notin StartSteps
    /\ sleepq \in Seq(Signals)
    /\ suspend \in {"none", "begun", "over"}

PastTypes ==
    /\ moved \in BOOLEAN
    /\ missed \in BOOLEAN
    /\ barred \subseteq Attrs
    /\ granted \subseteq Requests

TypeOK == HardwareTypes /\ StateTypes /\ MainTypes /\ CallTypes
            /\ WatchTypes /\ SleepTypes /\ PastTypes

Init ==
    /\ hwProfile \in Choices
    /\ hwBattery = DefaultMode
    /\ hwPpt = [a \in Attrs |-> DefaultWatts]
    /\ hwSwitch = [s \in Switches |-> 0]
    /\ mem = EmptyState
    /\ file = Absent /\ tmp = Absent /\ dirty = FALSE
    /\ main = "down" /\ todo = {} /\ served = FALSE
    /\ lock = None
    /\ pc = [c \in Clients |-> "idle"]
    /\ req = [c \in Clients |-> None]
    /\ watching = FALSE /\ pending = FALSE /\ last = None
    /\ subscribed = FALSE /\ sleepq = <<>> /\ suspend = "none"
    /\ view = None /\ ahead = FALSE /\ dropped = FALSE
    /\ moved = FALSE /\ missed = FALSE /\ barred = {} /\ granted = {}

-----------------------------------------------------------------------------
(* Startup (main.rs) and Daemon::reapply_state (iface.rs).                 *)

\* Faulty: load hands on whatever the file is.
LoadAnything(f) == f

\* State::load: a missing or unreadable file is the empty state.
Load(f) == IF f \in Recoverable THEN EmptyState ELSE f

Start ==
    /\ main = "down"
    /\ mem' = Load(file)
    /\ dirty' = FALSE
    /\ main' = "profile"
    /\ UNCHANGED <<hwVars, file, tmp, todo, served, callVars, watchVars,
                   sleepVars, toldVars, pastVars>>

\* Faulty: the profile is not among what is restored.
ReapplyNoProfile ==
    /\ main = "profile"
    /\ main' = "battery"
    /\ moved' = FALSE
    /\ UNCHANGED <<hwVars, mem, diskVars, todo, served, callVars, watchVars,
                   sleepVars, toldVars, missed, barred,
                   granted>>

\* The profile first: the limits depend on it.  A failure is only logged.
\* The write raises POLLPRI like any other.
ReapplyProfile ==
    /\ main = "profile"
    /\ IF mem.profile # None /\ ProfileAccepted(mem.profile)
       THEN hwProfile' = mem.profile /\ pending' = watching
       ELSE UNCHANGED <<hwProfile, pending>>
    /\ main' = "battery"
    /\ moved' = FALSE
    /\ UNCHANGED <<hwBattery, hwPpt, hwSwitch, mem, diskVars, todo, served,
                   callVars, watching, last, sleepVars, toldVars, missed,
                   barred, granted>>

ReapplyBattery ==
    /\ main = "battery"
    /\ hwBattery' = IF mem.battery_mode # None
                       /\ BatteryAccepted(mem.battery_mode)
                    THEN mem.battery_mode ELSE hwBattery
    /\ todo' = Remembered(mem)
    /\ main' = "ppt"
    /\ missed' = FALSE
    /\ UNCHANGED <<hwProfile, hwPpt, hwSwitch, mem, diskVars, served, callVars,
                   watchVars, sleepVars, toldVars, moved, barred,
                   granted>>

\* One turn of the loop over the limits; EBUSY leaves the limit as it is.
ReapplyPpt ==
    /\ main = "ppt"
    /\ \E a \in todo, gate \in GateBehaviour :
         /\ hwPpt' = IF PptAccepted(a, mem.ppt[a], hwProfile, gate)
                     THEN [hwPpt EXCEPT ![a] = mem.ppt[a]] ELSE hwPpt
         /\ todo' = todo \ {a}
         /\ barred' = IF hwPpt'[a] # mem.ppt[a] /\ hwProfile # Custom
                      THEN barred \cup {a} ELSE barred \ {a}
    /\ UNCHANGED <<hwProfile, hwBattery, hwSwitch, mem, diskVars, main, served,
                   callVars, watchVars, sleepVars, toldVars, moved, missed,
                   granted>>

\* The end of reapply_state: on to the bus at startup, and to the signal
\* after a resume.
ReapplyDone ==
    /\ main = "ppt"
    /\ todo = {}
    /\ main' = IF served THEN "notify" ELSE "serve"
    /\ UNCHANGED <<hwVars, mem, diskVars, todo, served, callVars, watchVars,
                   sleepVars, toldVars, pastVars>>

Serve ==
    /\ main = "serve"
    /\ served' = TRUE
    /\ main' = "watch"
    /\ UNCHANGED <<hwVars, mem, diskVars, todo, callVars, watchVars, sleepVars,
                   toldVars, pastVars>>

\* ProfileWatcher::new: the arming read throws its value away.  Where the
\* attribute cannot be opened or registered the daemon runs on without.
OpenWatch ==
    /\ main = "watch"
    /\ watching' = TRUE \/ ("watch" \in Faults /\ watching' = FALSE)
    /\ pending' = FALSE /\ last' = None
    /\ main' = "subscribe"
    /\ UNCHANGED <<hwVars, mem, diskVars, todo, served, callVars, sleepVars,
                   toldVars, pastVars>>

\* sleep_watch: without logind the daemon runs on and never reapplies.
Subscribe ==
    /\ main = "subscribe"
    /\ subscribed' = HasLogind
    /\ main' = "select"
    /\ UNCHANGED <<hwVars, mem, diskVars, todo, served, callVars, watchVars,
                   sleepq, suspend, toldVars, pastVars>>

-----------------------------------------------------------------------------
(* The select loop (main.rs) and ProfileWatcher::next_change (watch.rs).   *)

\* Faulty: the first value is taken for the initial one.
WatcherSkipsFirst ==
    /\ main = "select"
    /\ pending
    /\ pending' = FALSE
    /\ last' = hwProfile
    /\ main' = IF last \in {None, hwProfile} THEN main ELSE "lockNotify"
    /\ UNCHANGED <<hwVars, mem, diskVars, todo, served, callVars, watching,
                   sleepVars, toldVars, pastVars>>

\* The profile arm: re-read, and swallow a value equal to the last one read.
WatcherWakes ==
    /\ main = "select"
    /\ pending
    /\ pending' = FALSE
    /\ IF last # hwProfile
       THEN last' = hwProfile /\ main' = "lockNotify"
       ELSE UNCHANGED <<last, main>>
    /\ UNCHANGED <<hwVars, mem, diskVars, todo, served, callVars, watching,
                   sleepVars, toldVars, pastVars>>

\* The subscriber has not heard of the hardware's profile, or of the
\* watcher's last reading.
Unheard ==
    view # None /\ (view # hwProfile \/ (last # None /\ view # last))

\* The re-read fails, or gives a name the code does not know: the event is
\* used up, and the loop waits for the next one.
WatcherReadsNothing ==
    /\ "read" \in Faults
    /\ main = "select"
    /\ pending
    /\ pending' = FALSE
    /\ dropped' = (dropped \/ Unheard)
    /\ UNCHANGED <<hwVars, mem, diskVars, main, todo, served, callVars,
                   watching, last, sleepVars, view, ahead, pastVars>>

\* The reactor fails under the watcher, which then waits for good; it is
\* taken to fail again whenever the loop comes round to it.
WatchFails ==
    /\ "watch" \in Faults
    /\ main = "select"
    /\ watching
    /\ watching' = FALSE /\ pending' = FALSE /\ last' = None
    /\ ahead' = FALSE
    /\ dropped' = (view \notin {None, hwProfile})
    /\ UNCHANGED <<hwVars, mem, diskVars, main, todo, served, callVars,
                   sleepVars, view, pastVars>>

\* Faulty: the arm takes the signal and does nothing.
SleepSignalDropped ==
    /\ main = "select"
    /\ sleepq # <<>>
    /\ sleepq' = Tail(sleepq)
    /\ UNCHANGED <<hwVars, mem, diskVars, main, todo, served, callVars,
                   watchVars, subscribed, suspend, toldVars, pastVars>>

\* The sleep arm: the end of a suspend is acted on, its beginning is not.
SleepSignal ==
    /\ main = "select"
    /\ sleepq # <<>>
    /\ sleepq' = Tail(sleepq)
    /\ main' = IF Head(sleepq) = "resumed" THEN "lockReapply" ELSE main
    /\ UNCHANGED <<hwVars, mem, diskVars, todo, served, callVars, watchVars,
                   subscribed, suspend, toldVars, pastVars>>

\* iface_ref.get().await
MainLocks ==
    /\ main \in {"lockNotify", "lockReapply"}
    /\ lock = None
    /\ lock' = Main
    /\ main' = IF main = "lockNotify" THEN "notify" ELSE "profile"
    /\ UNCHANGED <<hwVars, mem, diskVars, todo, served, pc, req, watchVars,
                   sleepVars, toldVars, pastVars>>

\* Faulty: the signal carries the remembered profile.
AnnouncedFromMemory(v) == IF v = None THEN None ELSE
                          IF mem.profile = None THEN hwProfile ELSE mem.profile

\* The value of a Profile signal is read when it is emitted.
Announced(v) == IF v = None THEN None ELSE hwProfile

\* The profile told now is one that the watcher has yet to read.
AheadOfWatcher == last # None /\ last # hwProfile

\* A Profile signal goes out.
Tell ==
    /\ view' = Announced(view)
    /\ ahead' = AheadOfWatcher
    /\ dropped' = FALSE

\* It does not: for a failure to read the profile, or of the connection.
TellFails ==
    /\ "signal" \in Faults
    /\ dropped' = (dropped \/ Unheard)
    /\ UNCHANGED <<view, ahead>>

\* Faulty: the guard is kept for the next turn of the loop.
NotifyKeepsLock ==
    /\ main = "notify"
    /\ Tell \/ TellFails
    /\ main' = "select"
    /\ UNCHANGED <<hwVars, mem, diskVars, todo, served, callVars, watchVars,
                   sleepVars, pastVars>>

\* notify_profile_changed, whose failure is only logged; the guard goes out
\* of scope after it.
Notify ==
    /\ main = "notify"
    /\ Tell \/ TellFails
    /\ lock' = None
    /\ main' = "select"
    /\ UNCHANGED <<hwVars, mem, diskVars, todo, served, pc, req, watchVars,
                   sleepVars, pastVars>>

-----------------------------------------------------------------------------
(* The clients and the method handlers (iface.rs, auth.rs).                *)

Goto(c, step) == pc' = [pc EXCEPT ![c] = step]

\* The handler returns, with a reply or an error, and drops the lock.
Return(c) ==
    /\ pc' = [pc EXCEPT ![c] = "idle"]
    /\ req' = [req EXCEPT ![c] = None]
    /\ lock' = None

Call(c) ==
    /\ served
    /\ pc[c] = "idle"
    /\ \E r \in Requests : req' = [req EXCEPT ![c] = r]
    /\ Goto(c, "queued")
    /\ UNCHANGED <<hwVars, mem, diskVars, main, todo, served, lock, watchVars,
                   sleepVars, toldVars, pastVars>>

\* Faulty: the method takes `&self`, so that it need not wait.
AcquireShared(c) ==
    /\ pc[c] = "queued"
    /\ Goto(c, "polkit")
    /\ UNCHANGED <<hwVars, mem, diskVars, main, todo, served, lock, req,
                   watchVars, sleepVars, toldVars, pastVars>>

\* zbus takes the write lock of the interface for a `&mut self` method,
\* before the handler asks polkit and until it returns.
Acquire(c) ==
    /\ pc[c] = "queued"
    /\ lock = None
    /\ lock' = c
    /\ Goto(c, "polkit")
    /\ UNCHANGED <<hwVars, mem, diskVars, main, todo, served, req, watchVars,
                   sleepVars, toldVars, pastVars>>

\* Authorizer::check lets the handler go on; set_ppt looks at the profile
\* first.
Allow(c) ==
    /\ pc[c] = "polkit"
    /\ "yes" \in Verdicts
    /\ granted' = granted \cup {req[c]}
    /\ Goto(c, IF req[c].op = "ppt" THEN "check" ELSE "apply")
    /\ UNCHANGED <<hwVars, mem, diskVars, main, todo, served, lock, req,
                   watchVars, sleepVars, toldVars, moved, missed,
                   barred>>

\* Faulty: the outcome of authorize is not propagated.
DenyIgnored(c) ==
    /\ pc[c] = "polkit"
    /\ "no" \in Verdicts
    /\ Goto(c, "apply")
    /\ UNCHANGED <<hwVars, mem, diskVars, main, todo, served, lock, req,
                   watchVars, sleepVars, toldVars, pastVars>>

\* NotAuthorized, or Failed when polkit cannot be asked.
Deny(c) ==
    /\ pc[c] = "polkit"
    /\ "no" \in Verdicts
    /\ Return(c)
    /\ UNCHANGED <<hwVars, mem, diskVars, main, todo, served, watchVars,
                   sleepVars, toldVars, pastVars>>

\* set_ppt: CustomModeRequired unless the profile is Custom now.
CheckCustom(c) ==
    /\ pc[c] = "check"
    /\ IF hwProfile = Custom
       THEN Goto(c, "apply") /\ UNCHANGED <<req, lock>>
       ELSE Return(c)
    /\ moved' = FALSE
    /\ UNCHANGED <<hwVars, mem, diskVars, main, todo, served, watchVars,
                   sleepVars, toldVars, missed, barred,
                   granted>>

SetProfile(c) ==
    /\ pc[c] = "apply" /\ req[c].op = "profile"
    /\ ProfileAccepted(req[c].arg)
    /\ hwProfile' = req[c].arg
    /\ pending' = watching
    /\ mem' = [mem EXCEPT !.profile = req[c].arg]
    /\ moved' = FALSE
    /\ Goto(c, "create")
    /\ UNCHANGED <<hwBattery, hwPpt, hwSwitch, diskVars, main, todo, served,
                   lock, req, watching, last, sleepVars, toldVars, missed,
                   barred, granted>>

SetBatteryMode(c) ==
    /\ pc[c] = "apply" /\ req[c].op = "battery"
    /\ BatteryAccepted(req[c].arg)
    /\ hwBattery' = req[c].arg
    /\ mem' = [mem EXCEPT !.battery_mode = req[c].arg]
    /\ Goto(c, "create")
    /\ UNCHANGED <<hwProfile, hwPpt, hwSwitch, diskVars, main, todo, served,
                   lock, req, watchVars, sleepVars, toldVars, pastVars>>

SetPpt(c) ==
    /\ pc[c] = "apply" /\ req[c].op = "ppt"
    /\ \E gate \in GateBehaviour :
         PptAccepted(req[c].attr, req[c].arg, hwProfile, gate)
    /\ hwPpt' = [hwPpt EXCEPT ![req[c].attr] = req[c].arg]
    /\ mem' = [mem EXCEPT !.ppt[req[c].attr] = req[c].arg]
    /\ barred' = barred \ {req[c].attr}
    /\ Goto(c, "create")
    /\ UNCHANGED <<hwProfile, hwBattery, hwSwitch, diskVars, main, todo,
                   served, lock, req, watchVars, sleepVars, toldVars, moved,
                   missed, granted>>

\* Faulty: the outcome of the setter is not propagated.
SwitchErrorDropped(c) ==
    /\ pc[c] = "apply" /\ req[c].op = "switch"
    /\ hwSwitch' = IF SwitchAccepted(req[c].attr, req[c].arg)
                   THEN [hwSwitch EXCEPT ![req[c].attr] = req[c].arg]
                   ELSE hwSwitch
    /\ Goto(c, "emit")
    /\ UNCHANGED <<hwProfile, hwBattery, hwPpt, mem, diskVars, main, todo,
                   served, lock, req, watchVars, sleepVars, toldVars,
                   pastVars>>

\* set_fn_lock, set_camera_power, set_usb_charging, set_kbd_backlight,
\* set_cpu_boost, set_fan_mode: nothing is remembered.
SetSwitch(c) ==
    /\ pc[c] = "apply" /\ req[c].op = "switch"
    /\ SwitchAccepted(req[c].attr, req[c].arg)
    /\ hwSwitch' = [hwSwitch EXCEPT ![req[c].attr] = req[c].arg]
    /\ Goto(c, "emit")
    /\ UNCHANGED <<hwProfile, hwBattery, hwPpt, mem, diskVars, main, todo,
                   served, lock, req, watchVars, sleepVars, toldVars,
                   pastVars>>

\* The argument is rejected, or the driver refuses the write.
Refused(r) ==
    CASE r.op = "profile" -> ~ProfileAccepted(r.arg)
      [] r.op = "battery" -> ~BatteryAccepted(r.arg)
      [] r.op = "ppt"     -> \E gate \in GateBehaviour :
                                ~PptAccepted(r.attr, r.arg, hwProfile, gate)
      [] OTHER            -> ~SwitchAccepted(r.attr, r.arg)

Refuse(c) ==
    /\ pc[c] = "apply"
    /\ Refused(req[c])
    /\ Return(c)
    /\ UNCHANGED <<hwVars, mem, diskVars, main, todo, served, watchVars,
                   sleepVars, toldVars, pastVars>>

-----------------------------------------------------------------------------
(* Daemon::persist and State::save (state.rs).                             *)

\* Faulty: state.json is written in place.
CreateInPlace(c) ==
    /\ pc[c] = "create"
    /\ file' = Torn
    /\ Goto(c, "write")
    /\ UNCHANGED <<hwVars, mem, tmp, dirty, main, todo, served, lock, req,
                   watchVars, sleepVars, toldVars, pastVars>>

\* fs::write creates or truncates the temporary file ...
CreateTmp(c) ==
    /\ pc[c] = "create"
    /\ tmp' = Torn
    /\ Goto(c, "write")
    /\ UNCHANGED <<hwVars, mem, file, dirty, main, todo, served, lock, req,
                   watchVars, sleepVars, toldVars, pastVars>>

\* ... and fills it with the whole state.
WriteTmp(c) ==
    /\ pc[c] = "write"
    /\ tmp' = mem
    /\ Goto(c, "rename")
    /\ UNCHANGED <<hwVars, mem, file, dirty, main, todo, served, lock, req,
                   watchVars, sleepVars, toldVars, pastVars>>

\* fs::rename replaces state.json.
Rename(c) ==
    /\ pc[c] = "rename"
    /\ file' = tmp
    /\ tmp' = Absent
    /\ dirty' = FALSE
    /\ Goto(c, "emit")
    /\ UNCHANGED <<hwVars, mem, main, todo, served, lock, req, watchVars,
                   sleepVars, toldVars, pastVars>>

\* Any of the file operations may fail; persist only logs it.
SaveFails(c) ==
    /\ "save" \in Faults
    /\ pc[c] \in SaveSteps
    /\ dirty' = TRUE
    /\ Goto(c, "emit")
    /\ UNCHANGED <<hwVars, mem, file, tmp, main, todo, served, lock, req,
                   watchVars, sleepVars, toldVars, pastVars>>

\* profile_changed, for set_profile; then the reply.  The other handlers'
\* signals carry values this model keeps no view of; set_ppt and set_fan_mode
\* emit none.
EmitAndReply(c) ==
    /\ pc[c] = "emit"
    /\ IF req[c].op = "profile" THEN Tell ELSE UNCHANGED toldVars
    /\ Return(c)
    /\ UNCHANGED <<hwVars, mem, diskVars, main, todo, served, watchVars,
                   sleepVars, pastVars>>

\* The signal fails: an error reply to a call that was carried out and saved.
\* (set_fan_mode, which sends none, is one of the switches here.)
EmitFails(c) ==
    /\ pc[c] = "emit" /\ req[c].op # "ppt"
    /\ IF req[c].op = "profile" THEN TellFails
       ELSE "signal" \in Faults /\ UNCHANGED toldVars
    /\ Return(c)
    /\ UNCHANGED <<hwVars, mem, diskVars, main, todo, served, watchVars,
                   sleepVars, pastVars>>

\* A property getter: a shared reader, so only a writer keeps it out.  The
\* first read of the subscriber; from then on it follows the signals.
ClientReads ==
    /\ served
    /\ lock \notin Clients
    /\ view = None
    /\ view' = hwProfile
    /\ ahead' = AheadOfWatcher
    /\ UNCHANGED <<hwVars, mem, diskVars, main, todo, served, callVars,
                   watchVars, sleepVars, dropped, pastVars>>

Handler(c) ==
    \/ Allow(c) \/ Deny(c) \/ CheckCustom(c)
    \/ SetProfile(c) \/ SetBatteryMode(c) \/ SetPpt(c) \/ SetSwitch(c)
    \/ Refuse(c)
    \/ CreateTmp(c) \/ WriteTmp(c) \/ Rename(c) \/ SaveFails(c)
    \/ EmitAndReply(c) \/ EmitFails(c)

-----------------------------------------------------------------------------
(* The firmware, logind and the process's fate.                            *)

\* The user presses Fn+Q and the firmware changes the profile.  Where no
\* watcher is open, nobody will read it for a subscriber already told.
FnQ ==
    /\ \E p \in FnQProfiles \ {hwProfile} : hwProfile' = p
    /\ pending' = watching
    /\ dropped' = IF watching THEN dropped ELSE view \notin {None, hwProfile'}
    /\ moved' = TRUE
    /\ UNCHANGED <<hwBattery, hwPpt, hwSwitch, mem, diskVars, main, todo,
                   served, callVars, watching, last, sleepVars, view, ahead,
                   missed, barred, granted>>

\* Faulty: the task forwards `args.start` as it is.
SignalNotNegated(kind) ==
    sleepq' = IF subscribed
              THEN Append(sleepq, CHOOSE k \in Signals : k # kind) ELSE sleepq

\* The signal task puts `!args.start` on the channel, if there is one.
Signal(kind) == sleepq' = IF subscribed THEN Append(sleepq, kind) ELSE sleepq

\* logind announces a suspend ...
PrepareForSleep ==
    /\ suspend = "none"
    /\ Len(sleepq) < MaxQueue
    /\ suspend' = "begun"
    /\ Signal("suspending")
    /\ UNCHANGED <<hwVars, mem, diskVars, main, todo, served, callVars,
                   watchVars, subscribed, toldVars, pastVars>>

\* ... over which the firmware forgets the charge mode and the limits ...
Forget ==
    /\ hwBattery' = DefaultMode
    /\ hwPpt' = [a \in Attrs |-> DefaultWatts]
    /\ UNCHANGED <<hwProfile, hwSwitch>>

Wake ==
    /\ suspend = "begun"
    /\ suspend' = "over"
    /\ Forget
    /\ missed' = (missed \/ (main # "down" /\ ~subscribed))
    /\ UNCHANGED <<mem, diskVars, main, todo, served, callVars, watchVars,
                   subscribed, sleepq, toldVars, moved, barred, granted>>

\* ... and announces its end, when the daemon may be at work again already.
Resume ==
    /\ suspend = "over"
    /\ suspend' = "none"
    /\ Signal("resumed")
    /\ UNCHANGED <<hwVars, mem, diskVars, main, todo, served, callVars,
                   watchVars, subscribed, toldVars, pastVars>>

\* The process ends: killed, crashed, or on ctrl_c.  Files and hardware stay.
ProcessEnds ==
    /\ mem' = EmptyState
    /\ main' = "down" /\ todo' = {} /\ served' = FALSE
    /\ lock' = None
    /\ pc' = [c \in Clients |-> "idle"]
    /\ req' = [c \in Clients |-> None]
    /\ watching' = FALSE /\ pending' = FALSE /\ last' = None
    /\ subscribed' = FALSE /\ sleepq' = <<>>
    /\ view' = None /\ ahead' = FALSE /\ dropped' = FALSE
    /\ moved' = FALSE /\ missed' = FALSE /\ barred' = {}

Crash ==
    /\ "crash" \in Faults
    /\ main # "down"
    /\ ProcessEnds
    /\ UNCHANGED <<hwVars, diskVars, suspend, granted>>

\* An orderly reboot: the daemon is stopped wherever it is, the kernel writes
\* the files out, and the firmware forgets as over a suspend.
Reboot ==
    /\ "crash" \in Faults
    /\ ProcessEnds
    /\ Forget
    /\ suspend' = "none"
    /\ UNCHANGED <<diskVars, granted>>

-----------------------------------------------------------------------------

Startup  == Start \/ Serve \/ OpenWatch \/ Subscribe
Reapply  == ReapplyProfile \/ ReapplyBattery \/ ReapplyPpt \/ ReapplyDone
Watcher  == WatcherWakes \/ WatcherReadsNothing
MainLoop == Watcher \/ WatchFails \/ SleepSignal \/ MainLocks \/ Notify
Environment == FnQ \/ PrepareForSleep \/ Wake \/ Resume \/ Crash \/ Reboot

Next ==
    \/ Startup \/ Reapply \/ MainLoop
    \/ \E c \in Clients : Call(c) \/ Acquire(c) \/ Handler(c)
    \/ ClientReads
    \/ Environment

Spec == Init /\ [][Next]_vars

(***************************************************************************)
(* Fairness.  The runtime polls every ready task; systemd starts the       *)
(* daemon again; tokio's RwLock is first in, first out, so whoever waits   *)
(* for it gets it, others coming and going (SF); select! picks among its   *)
(* ready arms at random, so neither arm starves the other (SF).  That      *)
(* polkit answers every question is an assumption about the user, not a    *)
(* fact of the code: there is no timeout (it is part of Handler's WF).     *)
(* logind announces the end of a suspend the machine has woken from.       *)
(***************************************************************************)
Fairness ==
    /\ WF_vars(Startup \/ Reapply \/ Notify)
    /\ SF_vars(Watcher) /\ SF_vars(SleepSignal) /\ SF_vars(MainLocks)
    /\ \A c \in Clients : SF_vars(Acquire(c)) /\ WF_vars(Handler(c))
    /\ WF_vars(Resume)

FairSpec == Spec /\ Fairness

-----------------------------------------------------------------------------
(* Safety.                                                                 *)

(***************************************************************************)
(* The interface lock serializes what the daemon does to its state and to  *)
(* the hardware (zbus around iface.rs, iface_ref.get in main.rs): a call   *)
(* past its wait holds it to the end, and so does the main task while it   *)
(* reapplies and signals; before the name is owned no call is under way,   *)
(* so the startup reapplication needs no lock.                             *)
(***************************************************************************)
LockDiscipline ==
    /\ \A c \in Clients : pc[c] \notin {"idle", "queued"} => lock = c
    /\ main \in ReapplySteps /\ served => lock = Main
    /\ main = "notify" => lock = Main
    /\ main \in {"watch", "subscribe"} \cup LoopSteps => served
    /\ main = "down" => ~served
    /\ ~served => \A c \in Clients : pc[c] = "idle"

(***************************************************************************)
(* The lock is never left behind (the guards in main.rs and zbus's own go  *)
(* out of scope with the work they are for): whoever holds it has a step   *)
(* of its own to take, for which it waits for nobody else.  Without this   *)
(* the watcher, the reapplication and every caller would wait for good.    *)
(***************************************************************************)
LockIsReturned ==
    /\ lock \in Clients => pc[lock] \notin {"idle", "queued"}
    /\ lock = Main => served /\ main \in ReapplySteps \cup {"notify"}

\* The signal that a suspend has ended is still to come, or waits, or the
\* reapplication it asks for has not reached the battery yet.
ResumeOwed ==
    \/ subscribed /\ suspend = "over"
    \/ main \in {"lockReapply", "profile", "battery"}
    \/ \E i \in DOMAIN sleepq : sleepq[i] = "resumed"

(***************************************************************************)
(* The firmware forgets the charge mode over a suspend and the daemon puts *)
(* it back (main.rs, the sleep arm): while no reapplication is owed, the   *)
(* battery is in the mode the daemon remembers, whatever suspends, calls,  *)
(* crashes and failed saves came before.  The one exception is a suspend   *)
(* that ended while the daemon ran and did not listen to logind yet.       *)
(***************************************************************************)
BatteryLostOnlyIfMissed ==
    main # "down" /\ mem.battery_mode # None /\ ~ResumeOwed /\ ~missed
        => hwBattery = mem.battery_mode

\* What main.rs says of a daemon that listens, without the exception.
BatteryInForce ==
    subscribed /\ mem.battery_mode # None /\ ~ResumeOwed
        => hwBattery = mem.battery_mode

(***************************************************************************)
(* State::save writes a temporary file and renames it: wherever the daemon *)
(* stops, state.json is never a torn file, and unless the last save failed *)
(* what a restart would load is what the daemon remembers, from the moment *)
(* a handler is past its save, so before any client is told.  (Not after a *)
(* power failure: the files are not synced.)                               *)
(***************************************************************************)
FileFollowsMemory ==
    /\ file # Torn
    /\ main # "down" /\ ~dirty /\ (\A c \in Clients : pc[c] \notin SaveSteps)
         => Load(file) = mem

Allowed(r) == r \in granted

StateAllowed(s) ==
    /\ s.profile # None =>
         Allowed([op |-> "profile", arg |-> s.profile])
           /\ ProfileAccepted(s.profile)
    /\ s.battery_mode # None =>
         Allowed([op |-> "battery", arg |-> s.battery_mode])
           /\ BatteryAccepted(s.battery_mode)
    /\ \A a \in Attrs : s.ppt[a] # None =>
         Allowed([op |-> "ppt", attr |-> a, arg |-> s.ppt[a]])
           /\ InRange(a, s.ppt[a])

(***************************************************************************)
(* Every write is authorized once (README.md, "every write is authorized   *)
(* once, by polkit"): a value the daemon remembers, a state file holds or  *)
(* the hardware is in is the firmware's own or one that polkit allowed a   *)
(* caller to set and the driver accepted.  A denied or refused call leaves *)
(* nothing behind that a reapplication or a restart could bring into force.*)
(* (The profile in force is left out: Fn+Q sets it with no call at all.)   *)
(***************************************************************************)
SettingsAreAuthorized ==
    /\ StateAllowed(mem)
    /\ StateAllowed(Load(file))
    /\ StateAllowed(Load(tmp))
    /\ hwBattery # DefaultMode =>
         Allowed([op |-> "battery", arg |-> hwBattery])
    /\ \A a \in Attrs : hwPpt[a] # DefaultWatts =>
         Allowed([op |-> "ppt", attr |-> a, arg |-> hwPpt[a]])
    /\ \A s \in Switches : hwSwitch[s] # 0 =>
         Allowed([op |-> "switch", attr |-> s, arg |-> hwSwitch[s]])

\* A set_profile call is between its write and its signal.
ProfileCallOpen ==
    \E c \in Clients : pc[c] \in SaveSteps \cup {"emit"}
                         /\ req[c].op = "profile"

\* Nothing the daemon has read or been asked makes it send a Profile signal.
ProfileSettled ==
    /\ main \notin ReapplySteps \cup {"lockNotify", "notify"}
    /\ ~pending
    /\ ~ProfileCallOpen

(***************************************************************************)
(* No change of the profile is lost silently (main.rs, the profile arm;    *)
(* watch.rs; iface.rs): while the subscriber's profile is not the          *)
(* hardware's, a signal is on its way: raised, taken up, or owed by a      *)
(* handler or a reapplication.  There are two exceptions.  One is `ahead`: *)
(* the subscriber was last told a profile that the watcher had not read    *)
(* yet, and the hardware went back to the one the watcher had read         *)
(* (next_change).  The other is `dropped`: since then the daemon has let a *)
(* change go by, for a re-read or a signal that failed, or because no      *)
(* watcher was open when Fn+Q came (before ProfileWatcher::new, after it   *)
(* found nothing to watch, or after the reactor failed).                   *)
(***************************************************************************)
StaleOnlyIfAhead ==
    ProfileSettled /\ view # None /\ ~ahead /\ ~dropped => view = hwProfile

\* What README.md promises of Fn+Q, where the watcher is open and nothing has
\* failed: the same without the exception `ahead`.
SettledViewIsCurrent ==
    ProfileSettled /\ watching /\ view # None /\ ~dropped
        => view = hwProfile

\* The daemon remembers what request r asked for, and the hardware has it,
\* or has lost it to Fn+Q or to a suspend not yet acted on.
CarriedOut(r) ==
    LET forgotten == ResumeOwed \/ missed
    IN  CASE r.op = "profile" -> /\ mem.profile = r.arg
                                 /\ hwProfile = r.arg \/ moved
          [] r.op = "battery" -> /\ mem.battery_mode = r.arg
                                 /\ hwBattery = r.arg \/ forgotten
          [] r.op = "ppt"     -> /\ mem.ppt[r.attr] = r.arg
                                 /\ hwPpt[r.attr] = r.arg \/ forgotten
          [] OTHER            -> hwSwitch[r.attr] = r.arg

(***************************************************************************)
(* A successful reply is true (iface.rs, the setters): when a handler      *)
(* signals and replies, what it was asked for is carried out, although     *)
(* other calls and reapplications wait all around it.                      *)
(***************************************************************************)
RepliesAreTrue ==
    \A c \in Clients : pc[c] = "emit" => CarriedOut(req[c])

(***************************************************************************)
(* set_ppt writes a limit only in the Custom profile, even when the driver *)
(* does not enforce it (iface.rs, set_ppt): the profile it checked is the  *)
(* profile it writes in, because the interface lock keeps a set_profile    *)
(* and a reapplication out in between.  Only Fn+Q can come there.          *)
(***************************************************************************)
LimitsOnlyInCustom ==
    [][\A c \in Clients :
         pc[c] = "apply" /\ req[c].op = "ppt" /\ pc'[c] = "create"
           => hwProfile = Custom \/ moved]_vars

(***************************************************************************)
(* reapply_state restores the profile before the limits (iface.rs): when   *)
(* the remembered profile is Custom, the known limits that the daemon      *)
(* remembers are in force when reapply_state ends, unless Fn+Q came after  *)
(* its first step or the firmware forgot once more.                        *)
(***************************************************************************)
LimitsRestored ==
    [][ReapplyDone /\ mem.profile = Custom /\ ~moved /\ ~missed /\ ~ResumeOwed
         => \A a \in Remembered(mem) : hwPpt[a] = mem.ppt[a]]_vars

(***************************************************************************)
(* Between reapplications nothing loses a limit (iface.rs, reapply_state): *)
(* what the daemon remembers of the limits it knows is in force, or about  *)
(* to be tried, in whatever profile.  Two exceptions: a suspend it did not *)
(* hear of, and a limit that was last tried outside Custom, where a driver *)
(* may refuse it.  A limit tried in Custom, or set by a call, is not lost. *)
(***************************************************************************)
LimitsLostOnlyIfBarred ==
    main # "down" /\ ~missed =>
      \A a \in Remembered(mem) \ barred :
        \/ hwPpt[a] = mem.ppt[a]
        \/ ResumeOwed
        \/ main = "ppt" /\ a \in todo

(***************************************************************************)
(* What state.rs promises of the limits: with no suspend missed, nothing   *)
(* left to reapply and the profile one where limits apply, the remembered  *)
(* limits are in force.                                                    *)
(***************************************************************************)
LimitsInForce ==
    main = "select" /\ ~missed /\ ~ResumeOwed /\ hwProfile = Custom
        => \A a \in Remembered(mem) : hwPpt[a] = mem.ppt[a]

(***************************************************************************)
(* state.rs calls reapplying the profile harmless: it would be if it left  *)
(* a running daemon's profile as the user has it.                          *)
(***************************************************************************)
ReapplyHarmless ==
    [][served /\ ReapplyProfile => hwProfile' = hwProfile]_vars

-----------------------------------------------------------------------------
(* Liveness.                                                               *)

\* Every call is answered, if polkit answers (no handler waits for another
\* in a circle, and the main task does not keep the lock).
CallsAreAnswered ==
    \A c \in Clients : pc[c] # "idle" ~> pc[c] = "idle"

\* A charge mode the firmware forgot over a suspend comes back, if the daemon
\* was listening.
BatteryIsRestored ==
    subscribed /\ ~missed
      /\ mem.battery_mode # None /\ hwBattery # mem.battery_mode
        ~> main = "down" \/ hwBattery = mem.battery_mode

\* A profile change reaches the subscriber, unless one of the exceptions of
\* StaleOnlyIfAhead holds.
FnQIsAnnounced ==
    view # None /\ view # hwProfile /\ ~ahead /\ ~dropped
        ~> view \in {None, hwProfile} \/ ahead \/ dropped
=============================================================================
