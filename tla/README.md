# TLA+ models of the Legion Linux Toolkit

These modules describe the daemon `legiond`, what it drives and the two programs
that use it, so that the orders of events nobody writes a test for (Fn+Q in the
middle of a call, a suspend in the startup window, a crash between a sysfs write
and a rename, root writing beside a daemon that starts) can be checked by TLC
and, for any number of clients and any machine, proved with TLAPS. Definitions
follow the Rust sources by name; `PROJECT.json` maps each of them to its lines.

## The system

```
 firmware / kernel ── sysfs ── legiond ── D-Bus ──┬── legion-gui (dashboard)
   Fn+Q, suspend                │  polkit, logind  ├── legion-gui --tray
                           state.json              └── legion-ctl
```

| component | state | operations | what is hard, what makes it correct |
|---|---|---|---|
| `legion-hw` settings (profile, battery, firmware_attrs, ideapad, kbd_backlight, cpu) | the sysfs attributes | get, set, range check | the power limits can be written in Custom only; the firmware forgets the charge mode and the limits over a suspend |
| `legion-hw` profile_watch | an open, armed descriptor | open, consume | it stays with the device found at startup while get and set look the device up each time |
| `legiond` iface, error | `Daemon.state`, the interface lock around it | the setters, `reapply_state`, `notify_profile_changed` | polkit is asked with the lock held; check then write; nothing of a refused call may remain |
| `legiond` main | which arm of `select!` runs, the channel from the signal task | startup, profile arm, sleep arm | events in the startup window; several suspends queued; both arms wait for the lock |
| `legiond` state | `state.json`, `state.json.tmp` | load, save | crash or failure at each file operation |
| `legiond` watch | the last value read | new, next_change | POLLPRI also fires for the daemon's own writes; events merge; the watcher cannot be opened, a re-read fails, the reactor fails |
| `legiond` auth | – | check | denial, error, no timeout |
| `legion-gui` bus, main | request and event channels, a subscription, the proxy's property cache | connect, snapshot, apply | a change between the snapshot and the subscription; a daemon that restarts or is not there; a cached value nobody announces |
| `legion-gui` tray, single_instance, state | the last tray state; an abstract socket | update, menu actions; acquire, signal_show; slider bounds | toggles computed from an old snapshot; two starts at once; u32 to i32 |
| `legion-ctl` | daemon or direct sysfs, chosen once | one command | root writes beside a daemon that has just started, or that reapplies after a suspend |

The components meet at the D-Bus interface (calls, `PropertiesChanged`), at
sysfs (the daemon, root's `legion-ctl` and the firmware all write it) and at
`state.json` (the daemon before and after a crash). Every hazard found in the
survey is listed in `PROJECT.json` with its line and the properties about it.

## Modules

* `Platform` – `legion-hw` as values: which profile, mode, limit or switch
  level a setter accepts, in which profile, and the shape of the persisted
  `State`. What the kernel does is not in the repository; it is taken from what
  the code and its comments rely on, and it varies where they leave it open
  (`GateBehaviour`: `set_ppt` says a driver may stop enforcing the Custom gate).
* `Legiond` – the daemon with its environment. One variable for each piece of
  state in the table above, one action for each step between two points where
  another task, the firmware or a crash can come in.

| code | actions |
|---|---|
| `main`: load, `reapply_state`, serve, watcher, `sleep_watch` | `Start`, `ReapplyProfile`, `ReapplyBattery`, `ReapplyPpt`, `ReapplyDone`, `Serve`, `OpenWatch`, `Subscribe` |
| `select!`: profile arm (`next_change`: a new value or the last one, an unreadable one, a failed reactor), sleep arm | `WatcherWakes`, `WatcherReadsNothing`, `WatchFails`; `SleepSignal`; `MainLocks`, `Reapply…`, `Notify` |
| a setter: lock, polkit, check, write, save, signal and reply | `Call`, `Acquire`, `Allow` / `Deny`, `CheckCustom`, `SetProfile` / `SetBatteryMode` / `SetPpt` / `SetSwitch` / `Refuse`, `CreateTmp`, `WriteTmp`, `Rename` / `SaveFails`, `EmitAndReply` / `EmitFails` |
| a getter | `ClientReads` |
| outside the repository | `FnQ`, `PrepareForSleep`, `Wake`, `Resume`, `Crash`, `Reboot` |

* `SettingsService` – what `legiond` promises a caller, with nothing of locks,
  polkit, files or the main task: a call is refused and leaves no trace, or takes
  effect in one step, is saved in one step and is then answered (with an error
  if its signal cannot be sent); after the end of the process or an orderly
  reboot, what was saved comes back whole.
* `LegiondService` – `Legiond` as that service: `Settings`, `Phase` and `Calls`
  are the refinement mapping, `ServiceSpec` the property.
* `LegiondProofs`, `LegiondServiceProofs` – theorems about `Legiond`, and that it
  implements the service.
* `Dashboard` – `legion-gui`: bus task, channels, pump, tray, window, against a
  daemon reduced to what its clients see (it changes a property, then announces
  it; it stops and starts). `Legiond` is where that daemon is modelled in
  full: `StaleOnlyIfAhead` says when an announcement is missing.

| code | actions |
|---|---|
| `main`, `single_instance` | `Launch`, `SecondStart`, `Quit` |
| `bus_task`: connect, refresh, subscribe, the two arms | `Connect`, `FillCache`, `ReadCapabilities`, `ReadProfile`, `ReadFnLock`, `Subscribe`, `TakeRequest`, `CallReturns`, `ReceiveSignal` |
| the event pump, `tray::spawn`, `TrayHandle::update` | `RegisterTray`, `Pump` |
| closures on the Slint thread, UI callbacks, tray menu | `RunPosted`, `ClickWindow`, `ClickTray` |
| the daemon | `RefuseCall`, `ApplyCall`, `AnnounceCall`, `ChangeElsewhere`, `Announce`, `DaemonStops`, `DaemonStarts` |

* `DashboardProofs` – theorems about `Dashboard`.
* `PowerLimits` – the numbers of a power limit, as pure operators: how
  `firmware_attrs` reads a range from files that may be missing, and how
  `SliderBounds` makes of it a slider in i32. The width of a word is a parameter.
* `ProfileDevice` – the platform-profile class: handlers that come and go,
  `device_dir` on each access, and the watcher's file, which stays the one it
  opened. State and actions; `LegionCtl` composes them.
* `LegionCtl` – `legion-ctl` with the daemon and beside it, on `ProfileDevice` and
  `PowerLimits`. The daemon is taken at the level of whole calls here; its steps
  are in `Legiond`, whose lock (`LockDiscipline`) and whose refinement of
  `SettingsService` justify that. The module adds what `Legiond` leaves out:
  which error a command ends with, several devices, callers who write sysfs
  themselves, and the sliders of the dashboard.

| code | actions |
|---|---|
| `Backend::connect`, once per command | `Connect` |
| the checks of a command before it writes (`commands.rs`) | `Check` (`CliSays`) |
| `call_method`: answered, cut off by the end of the daemon, answered by the bus | `CallDaemon`, `CallCutOff`, `CallNobody` |
| the setters of `legion-hw`, called without the daemon, as root or not | `WriteDirect` (`SysfsWrite`) |
| the getters, `status` | `Show`, `Exit` (`SysfsRead`, `PropertyRead`, `StatusLines`) |
| `main` of the daemon with `reapply_state` and `ProfileWatcher::new`; its sleep arm; its end | `DaemonStarts`, `DaemonResumes` (`Reapply`), `DaemonStops` |
| `ProfileWatchFd::consume` | `WatcherReads` |
| `apply_snapshot`, `SliderBounds`; a slider that is moved | `Refresh`, `Slide` |
| outside the repository: `Register`, `Unregister`, `FnQ` of `ProfileDevice`; a suspend | `Outside`, `Sleep` |

* `PowerLimitsProofs`, `LegionCtlProofs` – theorems about these.
* `MCLegiond`, `MCDashboard`, `MCLegionCtl` and the `.cfg` files – instances for
  TLC.

Some definitions come with a "Faulty" twin (`AcquireShared`, `CreateInPlace`…).
They are not part of the specification: each is the definition with a plausible
bug, and `PROJECT.json` names the property that notices it.

### Simplifications

* `legiond` has one thread (`flavor = "current_thread"`), so its tasks interleave
  at awaits only. A sysfs write and the assignment to `Daemon.state` after it
  are one step: no task runs in between, and a crash there loses the memory
  anyway.
* Strings are members of small sets. A name that no parser accepts is `Junk`.
* One subscriber stands for all clients that follow `Profile`; it reads the
  property once and then follows the signals. The other properties' signals
  carry no state here.
* The six switch setters differ in the attribute only and are one action.
* `ctrl_c` and a kill are both `Crash`: neither leaves anything to do.
* `State::save` syncs neither the file nor the directory, so what a power
  failure leaves of them is the file system's affair: `Reboot` is an orderly
  one, and what is said of files is said of the end of the process and of that.
* A reactor that failed under the watcher (`WatchFails`) is taken to fail each
  time the loop comes back to it. `next_change` never returns then, which is what
  `watching = FALSE` says.
* `set_fan_mode` is one of the switches, and so `EmitFails` may happen to it
  though it emits no signal; it has no state that could tell.
* A call cut off by a crash counts as answered (the bus replies `NoReply`).
* In `Dashboard` two properties stand for the dozen that a snapshot reads.
  `zbus` is not in the repository; `Proxy::new` (`bus.rs`) gives a proxy that
  caches properties, and that cache is modelled from its documented default: the
  first property read fills it with all properties, from then on only
  `PropertiesChanged` brings new values, and if filling fails every read fails
  until the process ends. A value is in the cache in the step that announces it:
  the bus task reads it only after the reply to a call (`GetPpt`) that comes by
  the same socket, so a read that overtakes the announcement is not modelled.
* In `LegionCtl` the daemon handles a call, starts, and reapplies in one step,
  and its save and its signal succeed (a crash between the write and the save,
  and either failing, are in `Legiond`). A suspend is one step too; whether a
  running daemon hears of its end is left open, since it may not listen to
  logind or not yet (`Legiond` has when). A reboot is a suspend over which the
  daemon stops. `CallCutOff` is the crash that a caller can tell: after the save
  and before the reply. A daemon started anew in `Legiond` may find an Fn+Q
  before its watcher is open; here it may not.
* In `LegionCtl` the three switches of ideapad and the CPU boost are one toggle.
  Whether the caller is root is chosen when it writes. What is on the terminal
  is a function of the state when the command is `shown`, and not state itself.
  A driver with a gate looks at the profile of the device that `get` finds.
* `EBUSY`, `EINVAL` and the like are the kinds that `HwError::from_io` and
  `DaemonError` make of them; both ends word a kind alike, and no property is
  about the wording.
* The bus delivers `PropertiesChanged` of a restarted daemon to an old
  subscription: the match is on the well-known name.

## What the runs check

| run | asks | properties |
|---|---|---|
| `Settings` | two clients, profile and charge mode, Fn+Q, suspends, crashes; the watcher, its re-reads and signals may fail | `TypeOK`, `BatteryLostOnlyIfMissed`, `StaleOnlyIfAhead` |
| `Access` | two clients, a call of every kind, polkit answering either way, crashes and failed saves | `SettingsAreAuthorized`, `FileFollowsMemory`, `RepliesAreTrue`, `ServiceSpec` |
| `Limits` | limits against profile changes, Fn+Q, suspends and crashes; a driver with and without the gate | `LockDiscipline`, `LockIsReturned`, `RepliesAreTrue`, `LimitsLostOnlyIfBarred`, `LimitsOnlyInCustom`, `LimitsRestored` |
| `Live` | fair scheduling, failed re-reads, no crashes | `CallsAreAnswered`, `BatteryIsRestored`, `FnQIsAnnounced` |
| `Window` | two profiles and a switch, changed from everywhere; outages; restarts of the dashboard; no tray host | `TypeOK`, `WindowIsCurrent`, `TrayLeadsWindow`, `ClicksAreHeard` |
| `WindowLive` | fair scheduling of the dashboard, outages and endless changes by others; a second start; a failed subscription | `RequestsAreServed`, `VanishedDaemonIsNoticed` |
| `Ctl` | a command of each kind, with the daemon and beside it, on eleven machines; handlers that come and go, restarts, suspends, the dashboard's sliders | `TypeOK`, `WaysAgree`, `LastWordKept`, `WatchFollowsDevice`, `SlidersFollowFirmware` |

Where the code cannot keep a promise, the property names the way it fails, and
a history variable records that it happened; the runs reach those states and
the theorems have no other condition.

| history | set | exception of |
|---|---|---|
| `ahead` | the subscriber was last told a profile (by a handler, a getter or a notification) that the watcher had not read yet | `StaleOnlyIfAhead`, `FnQIsAnnounced` |
| `dropped` | since the subscriber was last told, the daemon let a change go by: a re-read or a signal failed, or Fn+Q came while no watcher was open | `StaleOnlyIfAhead`, `FnQIsAnnounced` |
| `missed` | a suspend ended while the daemon ran and did not listen to logind; the next reapplication clears it | `BatteryLostOnlyIfMissed`, `BatteryIsRestored`, `LimitsRestored`, `LimitsLostOnlyIfBarred`, `RepliesAreTrue` |
| `moved` | Fn+Q since the daemon last knew the profile: from the check of `set_ppt`, a write of the profile, or the start of a reapplication | `LimitsOnlyInCustom`, `LimitsRestored`, `RepliesAreTrue` |
| `barred` | the limits that were last tried outside Custom and left as they were | `LimitsLostOnlyIfBarred` |
| `unheard` | the properties that differ from the dashboard's cache since a change the daemon never announced, because it was away or stopped too early | `WindowIsCurrent` |
| `failed` | the dashboard's last snapshot could not be read, so the window shows the notice | `WindowIsCurrent` |
| `lastSet`, `lost` | who last set what; which of it the firmware has forgotten over a suspend and nobody has set or restored since | `LastWordKept` |
| `parted` | the watcher found nothing it could open, or a handler came or went since that `device_dir` prefers to the one that is watched | `WatchFollowsDevice` |

`LockIsReturned` is the safety half of `CallsAreAnswered`: whoever holds the lock
has a step of its own to take. `RepliesAreTrue` is what a caller relies on: when
the daemon replies success, the setting is remembered and in force, although
another call, a reapplication or Fn+Q waited at every await before it.
`ClicksAreHeard` is the safety half of `RequestsAreServed`: what can be clicked has a
bus task behind it.

`ServiceSpec` says that the daemon implements `SettingsService`: `Acquire`,
`Allow`, `CreateTmp`, a suspend or Fn+Q are stutters of the service,
`SetProfile` and its kind are `Apply`, `Rename` and `SaveFails` are `Save`,
`EmitAndReply` and `EmitFails` are `Answer`, a crash or a reboot is `Restart`.
The mapping reads what the service remembers from the daemon's memory, and
while it is down from the file it will load.

What `Ctl` shows of the two ways, in `WaysAgree`: "behaviour is identical either
way apart from who is allowed to write" (`commands.rs`) holds for every setter
past its own checks, errors included, with two exceptions, and for everything
that can be read. The exceptions are a limit where the driver does not enforce
the Custom gate (the daemon refuses, sysfs takes it) and a profile file that
holds no known name. For what cannot be read, direct access reports an error and
the daemon's getters (`unwrap_or_default`) a default that `legion-ctl` shows as a
value. That the errors come in the same order is due to the early range check of
`ppt` (`commands.rs`, whose comment gives another reason for it): without it the
daemon would say "custom" where sysfs says "out of range".

What it shows of the two writers, in `LastWordKept`: the daemon's setting outlives
its restarts and, by way of the sleep arm, a suspend, although root and Fn+Q
write beside it; what root wrote beside it is overwritten by the daemon's next
reapplication, at a start or after a resume, with what the daemon was last asked
for. Between the suspend and the reapplication the setting is the firmware's.

What it shows of the sliders, in `SlidersFollowFirmware`: a proper range is on the
slider as it is, and one that is upside down, of one value or altogether beyond
an i32 is survived. "Clamping a nonsensical firmware range" (`state.rs`) does not
cover a range whose upper end alone does not fit an i32, which includes every
attribute without a readable `max_value` (`firmware_attrs.rs` takes u32::MAX):
cast, it is -1, and `clamp` panics. `PanicsExactly` proves that this is the only
way.

Five runs record where the code does not do what a comment or the README says;
TLC must find the violation, and its trace is the explanation.

| run | violated | in short |
|---|---|---|
| `LostFnQ` | `SettledViewIsCurrent` | With the watcher open and nothing failing: it last read *balanced*. A client sets *quiet*, and a subscriber learns it, from the signal of that call or by reading the property; before the watcher runs, the user presses Fn+Q back to *balanced*. The watcher reads *balanced* again, swallows it, and the subscriber stays with *quiet*. `StaleOnlyIfAhead` says that, but for the failures in `dropped`, being told ahead of the watcher is the only way for a settled view to be wrong. |
| `LimitsLost` | `LimitsInForce` | With no suspend missed: a limit is set in Custom, the profile changes, the daemon hears of a suspend, its reapplication of the limit gets EBUSY; the profile becomes Custom again and the limit stays at its default. `LimitsRestored` says that the reapplication itself is right whenever the remembered profile is Custom, and `LimitsLostOnlyIfBarred` that a try in vain outside Custom is the only way to lose a limit, but for a suspend that was missed. |
| `ProfileReverted` | `ReapplyHarmless` | Fn+Q after a `SetProfile`, then a suspend: the older `SetProfile` comes back. |
| `EarlySuspend` | `BatteryInForce` | The machine goes to sleep and wakes after the startup reapplication, and logind says so before the daemon listens to it. |
| `Reopen` | `ReopeningHelps` | The dashboard (say the autostarted tray) finds no daemon, its bus task returns. The daemon starts; a second `legion-gui` raises the window of the first, which still shows the notice and its advice to reopen it. |

### Bounds

Two clients are enough for every pair of calls, and the main task makes a third
holder of the lock. (`Live` has one: that the lock comes back from two is a
safety question, asked in `Limits` and proved for any number.) Each run keeps
the values its question tells apart: two or three profiles (one of them Custom
when limits are asked about), a charge mode that is set, one that is refused
and the default, a limit in range and one out of range, one attribute the code
knows and one it does not (`raw_attr`).

A suspend is announced only while fewer than `MaxQueue` signals wait. That is 2
in `Settings`, so up to three signals of two suspends queue up, which covers an
old "resumed" followed by a new suspend; and 1 in the other runs, where a
suspend still comes while the reapplication for the one before it waits for the
lock. `Access` has 0 and no Fn+Q: of what the firmware does, only the
forgetting over a reboot matters to authorization and files, and that pays for
one call of each kind by two clients.

`Faults` has what may fail in a run: the watcher, its re-reads and the signals
in `Settings`, where they matter to what subscribers are told; the saves in
`Access`, where they matter to the file; the proofs have them all at once.
`Live` leaves crashes out, since the promises it checks are a running daemon's,
and of the failures it has the one after which something must still happen, a
re-read that fails. The runs in which `Legiond` breaks a promise have no
failure and no crash: what they show happens in a healthy daemon. `FnQProfiles`
is what Fn+Q moves to: in `Limits` it is enough that it leaves Custom, and it
is empty in `LimitsLost`, whose trace is to show that limits are lost with no
Fn+Q at all.

The views in the cfg files leave out history that no guard reads, where no
property of the run speaks of it: `granted`, `moved` and `barred` (`WithoutPast`);
in `Limits` `granted` and what the subscriber was told (`WithoutTold`, since
nobody else acts on it); in `Access` that and `barred` (`OnlyGranted`); in the
dashboard's runs `opened`, and for its liveness `unheard` and `failed`
(`WithoutOpened`, `WithoutHistory`). The clients are symmetric, and so are the
profiles of `Window`.

In `Dashboard` every channel is cut to one element: an unbounded one adds only
delay, since each event carries a whole snapshot and each signal only says that
something changed. `Window` has two values of each property, so that a snapshot
can mix old and new ones; `WindowLive` and `Reopen` need one profile, as
nothing there depends on which. `Mishaps` are where they matter: no tray host
in `Window`, which asks about the tray; a second start and a failed
subscription in `WindowLive`, where they compete with the bus task or leave it
deaf; all three in `Reopen` and in the proofs. (`WindowIsCurrent` says nothing
without a subscription: such a dashboard shows what the user's own requests
bring.)

`Ctl` has words of eight values (`Half` = 4), the least width in which a range may
lie below, across and above the end of an i32 and still have an inside; the
theorems have no bound there. One caller is enough: commands share no state but
the machine, and the daemon, the sliders and root act beside it. Each of the
eleven machines has what one question needs (two handlers; one that is foreign
and has no Custom; two limits with the gate and without; a limit that the code
does not know; four odd ranges; the other settings; nothing at all), since every
combination of them would multiply the states and share nothing. The limits and
the profile are on one machine because the gate ties them together. Deadlock is
checked in every run.

### Fairness

Weak fairness of the startup and of a reapplication under way: nothing disables
them and the runtime polls a ready task. Weak fairness of each handler past its
wait: it holds the lock. This includes polkit's answer, which the code does not
guarantee (there is no timeout): it is an assumption about the user. Strong
fairness of taking the lock, because tokio's `RwLock` is first in, first out,
and of the two arms of `select!`, which picks at random among those that are
ready. Once the machine is awake logind says so (weak fairness of `Resume`). A
pending POLLPRI is taken up (strong fairness of `Watcher`), by a re-read that
may fail as often as it likes; a read that succeeds is not assumed. Nothing is
assumed of clients, Fn+Q or further suspends.

In `Dashboard`: weak fairness of the bus task, of tray registration and of the
Slint thread, strong fairness of the two arms of `select!` (tokio picks at random)
and of the pump, which the bound on its output, not the program, may stop.
The daemon answers, refuses or dies; it need not come back.

## What is proved

`LegiondProofs` proves, for every set of clients, calls, profiles, modes,
limits and switches, every queue bound and every combination of faults, from
the named assumptions in `Platform` and `Legiond` only:

| theorem | property | inductive invariant |
|---|---|---|
| `TypeCorrect` | `TypeOK` | itself |
| `LockIsKept` | `LockDiscipline` | itself, with the types: the conjuncts about the name being owned are there because the startup reapplication runs without the lock and is alone only for that reason |
| `FileIsDurable` | `FileFollowsMemory` | `FileInv` adds that the temporary file is complete, and is the memory, when it is renamed; uses the lock, as two saves share one temporary file. Process ends and orderly reboots only: nothing is synced |
| `OnlyAuthorized` | `SettingsAreAuthorized` | `AuthInv` adds that a handler past polkit acts on an allowed call |
| `BatteryIsKept` | `BatteryLostOnlyIfMissed` | itself; uses `OnlyAuthorized` (a remembered mode is one the driver takes) and how signals move through the channel |
| `OnlyInCustom` | `LimitsOnlyInCustom` | `CustomInv`: from the check on, and up to the write, the profile is Custom or Fn+Q moved it; uses the lock |
| `StaleViewExplained` | `StaleOnlyIfAhead` | `ViewInv`: for a subscriber that was not told ahead of the watcher and from whom nothing was dropped, with no POLLPRI raised the watcher's last reading is the hardware's profile, and the subscriber has that reading or is about to be told; before the first reading (or with no watcher) only a raised POLLPRI, a `set_profile` or a reapplication under way can part the two |
| `LimitsComeBack` | `LimitsRestored` | `RestoreInv`: while a reapplication runs, the remembered profile is in force before the limits are written, and every limit is either written or still to do, or a further suspend has ended, whose signal waits or was missed; uses the lock and `OnlyAuthorized` (a remembered limit is in range) |
| `LockIsNotLeaked` | `LockIsReturned` | itself, with the lock |
| `RepliesHold` | `RepliesAreTrue` | `RepliesInv` has the promise from the write on, through the save: nobody writes hardware or memory in between (the lock), and what the firmware forgets is owed or missed (`ResumeStaysOwed`) |
| `LimitsStay` | `LimitsLostOnlyIfBarred` | itself; uses `OnlyAuthorized` (a remembered limit is in range, so in Custom it is accepted, `CustomAccepts`) and `ResumeStaysOwed` |

None of them has a condition: what no daemon can exclude (Fn+Q between a check
and a write) or this one does not (a suspend before it listens) is in the
property, as the table of history variables has it. That each exception is
reached shows in the violation runs: `EarlySuspend` is `BatteryLostOnlyIfMissed`
without `missed`, `LostFnQ` is `StaleOnlyIfAhead` without `ahead`, and `LimitsLost`
reaches `barred`. `dropped` needs no run: a re-read, a signal or the watcher
fails, or Fn+Q comes in the window before the watcher is open.

`DashboardProofs` proves, for every set of profiles, every mishap and channels of
every length, from `DashboardAssumption` only:

| theorem | property | inductive invariant |
|---|---|---|
| `TypeCorrect` | `TypeOK` | itself |
| `TrayIsAhead` | `TrayLeadsWindow` | `TrayInv` adds that before the tray is registered nothing was posted: the pump starts after `tray::spawn` |
| `WindowIsFresh` | `WindowIsCurrent` | `WindowInv`, in three parts. `CacheInv`: what the cache has wrong is about to be announced, or is in `unheard`. `FreshInv`: whatever in the snapshot being read, in a channel or in the window differs from the cache has a cause for another snapshot behind it (a request, a call, a signal, an announcement to come); the first `Refresh` of `main` is that cause until the subscription has been tried. `TaskInv`: where the bus task may be, and that past a snapshot that succeeded the cache is filled |
| `ClicksReachTheTask` | `ClicksAreHeard` | `HeardInv`: the property, which has the channels in it because a snapshot on its way would bring switches, and where the bus task may be |

`AppendNewest` and `TailNewest` are the lemmas about channels that these use: what
appending and taking the head do to the newest element of some kinds.

`LegiondServiceProofs` proves `ImplementsService`, `Spec => ServiceSpec`, for every
constant. The initial states agree; `ServiceNext` goes through the actions of
`Legiond` and says of each which step of the service it is, or that it is hidden. What is needed from
the invariants: the types, `LockDiscipline` (at most one handler is past its
write, hence `NoOther` in the service's `Apply`), and `FileInv` (what `Rename` puts in
place is the memory, whole, so that `Save` saves the settings and nothing else).

`PowerLimitsProofs` proves, for words of every width:

| theorem | says |
|---|---|
| `SliderIsExact` | with both ends in an i32 the slider has the firmware's range, and all its positions pass the range check of `write_by_name` |
| `PanicsExactly` | `clamp` panics exactly for a range whose upper end alone is beyond an i32 |

`LegionCtlProofs` proves, for every set of handlers, profiles, machines, callers,
commands and verdicts, from the named assumptions of `PowerLimits`, `ProfileDevice`
and `LegionCtl`:

| theorem | property |
|---|---|
| `TypeCorrect` | `TypeOK` |
| `LastWordStays` | `LastWordKept` |
| `WatchFollows` | `WatchFollowsDevice` |
| `SlidersFollow` | `SlidersFollowFirmware` |
| `EitherWay` | `WaysAgree` |

They come from one inductive invariant, `IInv`: the types, `LastWord`,
`StillInRange`, `SameRanges`, `WatchFollowsDevice` and `SlidersFollowFirmware`.
`LastWord` adds to `LastWordKept` that what the daemon last made it also remembers:
a start or a resume puts the remembered value in force, and only that makes the
value survive both; what a suspend took and no reapplication could bring back
(EBUSY, say) is in `lost`, with the firmware's value. `StillInRange` has a limit that
passed the command's own check pass it at any later time; with it `WaysAgree`
follows state by state. Both that and the sliders rest on one fact about limits,
`Kept`, and on `SameRanges`: neither a write nor a suspend changes a range or
whether it can be read, which for a suspend is so because the ranges are those
the machine had at first. For the watcher, `DeviceDirIs` and `HandlersStay` say
what `device_dir` finds before and after a handler comes (at the lowest free
number) or goes; that a least number exists is well-founded induction on the
naturals.

Liveness is out of TLAPS's reach, as is ENABLED: `CallsAreAnswered`,
`BatteryIsRestored`, `FnQIsAnnounced`, `RequestsAreServed` and
`VanishedDaemonIsNoticed` are checked by TLC only. What can be proved of them is
their safety half, that what is owed stays owed until it is done: the lock is
not leaked (`LockIsNotLeaked`), a forgotten charge mode has a reapplication owed
(`BatteryIsKept`), and so has a limit (`LimitsStay`), a stale view has an
announcement coming (`StaleViewExplained`), a click has a task that hears it
(`ClicksReachTheTask`) and an old window has a cause for another snapshot
(`WindowIsFresh`), each up to its exceptions above. Fairness then only has to
keep what is owed moving.

## Plan

Done: `Platform`, `Legiond` and its proofs; `Dashboard` and its proofs; the settings
service and the refinement; `ProfileDevice`, `PowerLimits` and `LegionCtl` with
their proofs.

Left, in order of use:

1. The dashboard's view of settings other than the profile after a resume,
   which no signal announces.
2. `legion-ctl profile --watch` on the property cache that `Dashboard` has.
3. Devices that come and go in `Legiond` itself, so that a missed Fn+Q and a
   displaced handler meet in one model.
4. What is left of `state.json` after a power failure, as a file system without
   syncs may leave it, and what `State::load` makes of that.

## Not modelled

* Read-only statistics and identification: `fan`, `cpu::info`, `battery::stats`, the
  machine's name and generation in `detect` (which settings it finds is `Probed`),
  the capabilities. They keep no state, and nothing acts on them but a label.
* Formatting and labels, the Slint pages, packaging and policy files.
* The text of what a command prints. `WaysAgree` compares what is shown as
  values, and errors as kinds.
* `legion-ctl profile --watch`: it keeps no state of its own; it prints what the
  proxy's cache holds when a signal comes.
* A power failure: files that were never synced may be lost or cut off.
* Time: polkit's prompt and the bus have no timeout in the code.
* Showing and hiding the window by the tray icon changes no state that a
  property is about.
* Two dashboards started in the same instant: one of them binds the abstract
  socket. A second start that finds the name taken just as the first process
  goes connects to nobody and shows no window; nothing in `single_instance.rs`
  promises more. (A comment there says that uniqueness is not enforced where the
  address cannot be made; the code would then end as a second start does. A
  constant name never brings that about, so no run can show it.)
