----------------------------- MODULE ProfileDevice -----------------------------
(***************************************************************************)
(* The platform-profile class: several handlers may be registered, and     *)
(* come and go as kernel modules are loaded (profile.rs).  Every access    *)
(* looks the device up again; the daemon's watcher (profile_watch.rs)      *)
(* keeps the file it opened.                                               *)
(*                                                                         *)
(* The kernel side is external: a handler gets the lowest free number, it  *)
(* has a profile of its own, and a change of it raises POLLPRI on its own  *)
(* file.  Numbers have one digit, so that list_dir's order is theirs.      *)
(***************************************************************************)
EXTENDS Naturals

CONSTANTS
    Slots,       \* the N of platform-profile-N
    Drivers,     \* names a handler may have
    Gamezone,    \* lenovo-wmi-gamezone
    Choices,     \* driver -> the profile names its handler knows
    Profiles,    \* PowerProfile: the names the code can parse
    NoDevice     \* no handler, no device, no open watcher

ASSUME DeviceAssumption ==
    /\ Slots \subseteq Nat
    /\ NoDevice \notin Drivers \cup Nat \cup Profiles
    /\ \A d \in Drivers : NoDevice \notin Choices[d]

VARIABLES
    handler,    \* slot -> the driver registered there
    profileOf,  \* slot -> the profile its file reads
    watched,    \* the slot whose file the watcher has open
    woken,      \* POLLPRI is raised on that file
    parted      \* history: nothing could be opened, or a handler came or
                \* went since that may make the driven device another one

deviceVars == <<handler, profileOf, watched, woken, parted>>
watchVars  == <<watched, woken, parted>>

Least(S) == CHOOSE i \in S : \A j \in S : i <= j

Registered == {i \in Slots : handler[i] # NoDevice}

\* Faulty: the kernel's numbering is trusted.
FirstDevice == IF Registered = {} THEN NoDevice ELSE Least(Registered)

\* profile::device_dir: gamezone by name, or else the first there is.
DeviceDir ==
    LET named == {i \in Registered : handler[i] = Gamezone}
    IN  IF named # {} THEN Least(named)
        ELSE IF Registered # {} THEN Least(Registered) ELSE NoDevice

DeviceTypes ==
    /\ handler \in [Slots -> Drivers \cup {NoDevice}]
    /\ DOMAIN profileOf = Slots
    /\ \A i \in Slots :
         profileOf[i] \in IF i \in Registered THEN Choices[handler[i]]
                          ELSE {NoDevice}
    /\ watched \in Registered \cup {NoDevice}
    /\ woken \in BOOLEAN /\ parted \in BOOLEAN

\* What `profile::get` reads, before it is parsed.
CurrentProfile ==
    IF DeviceDir = NoDevice THEN NoDevice ELSE profileOf[DeviceDir]

\* The write of `profile::set`, on device i; POLLPRI tells of it.
WriteProfile(i, p) == profileOf' = [profileOf EXCEPT ![i] = p]

Wake(i) ==
    /\ woken' = (woken \/ watched = i)
    /\ UNCHANGED <<watched, parted>>

\* Faulty: the watcher opens the first device.
OpenFirst(p) == IF p \in Profiles THEN FirstDevice ELSE NoDevice

\* ProfileWatchFd::open, when the driven device reads p: the reading that
\* arms the descriptor must parse.
OpenDevice(p) == IF p \in Profiles THEN DeviceDir ELSE NoDevice

OpenWatch(p) ==
    /\ watched' = OpenDevice(p)
    /\ parted' = (OpenDevice(p) = NoDevice)
    /\ woken' = FALSE

CloseWatch ==
    /\ watched' = NoDevice
    /\ woken' = FALSE
    /\ parted' = FALSE

\* ProfileWatchFd::consume.
Consume ==
    /\ woken
    /\ woken' = FALSE
    /\ UNCHANGED <<handler, profileOf, watched, parted>>

\* Comes handler d, at i, before the watched one in device_dir's eyes?
Displaces(i, d) ==
    /\ watched # NoDevice
    /\ \/ d = Gamezone
       \/ i < watched /\ handler[watched] # Gamezone

Register(d) ==
    /\ d \notin {handler[i] : i \in Slots}
    /\ Slots \ Registered # {}
    /\ LET i == Least(Slots \ Registered)
       IN  /\ handler' = [handler EXCEPT ![i] = d]
           /\ \E p \in Choices[d] : WriteProfile(i, p)
           /\ parted' = (parted \/ Displaces(i, d))
    /\ UNCHANGED <<watched, woken>>

\* The open file of a handler that is gone reads as an error, and never
\* again as a profile.
Unregister(i) ==
    /\ i \in Registered
    /\ handler' = [handler EXCEPT ![i] = NoDevice]
    /\ WriteProfile(i, NoDevice)
    /\ parted' = (parted \/ watched = i)
    /\ watched' = IF watched = i THEN NoDevice ELSE watched
    /\ woken' = (woken /\ watched # i)

\* The firmware changes the profile of a handler.
FnQ ==
    \E i \in Registered :
      /\ \E p \in Choices[handler[i]] \ {profileOf[i]} : WriteProfile(i, p)
      /\ Wake(i)
      /\ UNCHANGED handler
=============================================================================
