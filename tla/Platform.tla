------------------------------ MODULE Platform ------------------------------
(***************************************************************************)
(* legion-hw: the sysfs backend the daemon drives.                         *)
(*                                                                         *)
(* The attributes are values, not files: what a write stores, what it is   *)
(* refused for, and what the firmware forgets over a suspend or a reboot.  *)
(* Parsing and formatting of sysfs strings are abstracted to membership    *)
(* (a name a parser rejects is Junk).  The kernel side (which values a     *)
(* driver accepts, the Custom gate of the power limits, what is lost over  *)
(* a suspend) is not in the repository; it is taken from what the code and *)
(* its comments rely on.                                                   *)
(***************************************************************************)
EXTENDS Integers

CONSTANTS
    Profiles,      \* PowerProfile: the profile names the code can parse
    Choices,       \* those this firmware advertises and accepts
    Custom,        \* the profile in which power limits may be written
    Modes,         \* ChargeMode: the charge modes the code can parse
    Supported,     \* those this battery driver accepts
    DefaultMode,   \* charge mode the firmware comes up with
    Attrs,         \* firmware attributes this machine exposes
    KnownAttrs,    \* PptAttr: those PptAttr::from_key recognises
    Watts,         \* values a client may ask for
    MinWatts,      \* firmware-declared range (min_value, max_value)
    MaxWatts,
    DefaultWatts,  \* limit the firmware comes up with
    Switches,      \* fn_lock, camera_power, usb_charging, kbd_backlight, ...
    Levels,        \* values a client may ask a switch for
    Settable,      \* the <<switch, level>> pairs the code and driver accept
    GateBehaviour, \* what the driver may do with a limit outside Custom:
                   \* TRUE refuses it with EBUSY, FALSE stores it
    None,          \* absence of a value
    Junk           \* an argument no parser accepts

ASSUME ProfileAssumption ==
    /\ Choices \subseteq Profiles
    /\ Choices # {}
    /\ Custom \in Profiles
    /\ None \notin Profiles
    /\ Junk \notin Profiles

ASSUME ModeAssumption ==
    /\ Supported \subseteq Modes
    /\ DefaultMode \in Modes
    /\ None \notin Modes
    /\ Junk \notin Modes

ASSUME AttrAssumption ==
    /\ Watts \subseteq Nat
    /\ MinWatts \in Nat
    /\ MaxWatts \in Nat
    /\ DefaultWatts \in Nat
    /\ None \notin Nat
    /\ Junk \notin Attrs

ASSUME SwitchAssumption ==
    /\ Levels \subseteq Nat
    /\ 0 \in Levels
    /\ Settable \subseteq Switches \X Levels

ASSUME GateAssumption ==
    /\ GateBehaviour \subseteq BOOLEAN
    /\ GateBehaviour # {}

-----------------------------------------------------------------------------
(* What the daemon remembers (state.rs, State) and what the clients ask.   *)

State == [profile      : Profiles \cup {None},
          battery_mode : Modes \cup {None},
          ppt          : [Attrs -> Nat \cup {None}]]

EmptyState == [profile      |-> None,
               battery_mode |-> None,
               ppt          |-> [a \in Attrs |-> None]]

ProfileRequests == [op : {"profile"}, arg : Profiles \cup {Junk}]
BatteryRequests == [op : {"battery"}, arg : Modes \cup {Junk}]
PptRequests     == [op : {"ppt"}, attr : Attrs \cup {Junk}, arg : Watts]
SwitchRequests  == [op : {"switch"}, attr : Switches, arg : Levels]

AllRequests == ProfileRequests \cup BatteryRequests
                 \cup PptRequests \cup SwitchRequests

-----------------------------------------------------------------------------
(* Which writes succeed.  A false answer is an error reply: the parser's   *)
(* InvalidArgument, the driver's refusal, or CustomModeRequired.           *)

\* profile::set after PowerProfile::from_user / from_sysfs.
ProfileAccepted(p) == p \in Choices

\* battery::set_mode after ChargeMode::from_user / from_sysfs.
BatteryAccepted(m) == m \in Supported

\* AttrInfo::in_range, on an attribute that exists.
InRange(a, w) == a \in Attrs /\ MinWatts <= w /\ w <= MaxWatts

\* firmware_attrs::write_by_name: the range check, then the driver's gate.
PptAccepted(a, w, p, gate) == InRange(a, w) /\ (p = Custom \/ ~gate)

\* ideapad::set, set_fan_mode, kbd_backlight::set, cpu::set_boost.
SwitchAccepted(s, v) == <<s, v>> \in Settable

=============================================================================
