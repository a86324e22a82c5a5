---------------------------- MODULE LegionCtlProofs ----------------------------
(***************************************************************************)
(* The invariants of LegionCtl, for every number of callers and handlers,  *)
(* for every word, machine and command.  Two facts carry them: what        *)
(* device_dir finds, and that neither a write nor a suspend changes the    *)
(* range of a limit.                                                       *)
(***************************************************************************)
EXTENDS LegionCtl, PowerLimitsProofs, WellFoundedInduction

-----------------------------------------------------------------------------
(* The device.                                                             *)

\* Among the numbers of handlers there is a least one, and one only.
LEMMA LeastIs ==
  ASSUME NEW S \in SUBSET Nat, S # {}
  PROVE  /\ Least(S) \in S
         /\ \A j \in S : Least(S) <= j
         /\ \A i \in S : (\A j \in S : i <= j) => i = Least(S)
  <1>1. PICK i \in S : \A j \in S : ~(<<j, i>> \in OpToRel(<, Nat))
    <2>1. IsWellFoundedOn(OpToRel(<, Nat), Nat)
      BY NatLessThanWellFounded
    <2> HIDE DEF OpToRel
    <2> QED
      BY <2>1, WFMin
  <1>2. \A j \in S : ~(j < i)
    BY <1>1 DEF OpToRel
  <1>3. \A j \in S : i <= j
    BY <1>2
  <1>4. Least(S) \in S /\ \A j \in S : Least(S) <= j
    BY <1>3 DEF Least
  <1>5. ASSUME NEW j \in S, \A k \in S : j <= k PROVE j = Least(S)
    <2>1. j \in Nat /\ Least(S) \in Nat /\ j <= Least(S) /\ Least(S) <= j
      BY <1>4, <1>5
    <2> QED
      BY <2>1
  <1> QED
    BY <1>4, <1>5

\* device_dir finds a registered handler, if there is one.
LEMMA DeviceDirIs ==
  ASSUME DeviceTypes
  PROVE  /\ DeviceDir # NoDevice => DeviceDir \in Registered
         /\ DeviceDir = NoDevice <=> Registered = {}
  <1>1. Registered \in SUBSET Nat /\ NoDevice \notin Registered
    BY DeviceAssumption DEF Registered
  <1> DEFINE named == {i \in Registered : handler[i] = Gamezone}
  <1>2. named \in SUBSET Nat
    BY <1>1
  <1>3. named # {} => DeviceDir \in named
    BY <1>2, LeastIs DEF DeviceDir
  <1>4. named = {} /\ Registered # {} => DeviceDir \in Registered
    BY <1>1, LeastIs DEF DeviceDir
  <1>5. Registered = {} => DeviceDir = NoDevice
    BY DEF DeviceDir
  <1> QED
    BY <1>1, <1>3, <1>4, <1>5

\* The device depends on the handlers alone.
LEMMA HandlersStay ==
  ASSUME handler' = handler
  PROVE  DeviceDir' = DeviceDir /\ Registered' = Registered
  BY DEF DeviceDir, Registered

\* A handler that device_dir does not prefer leaves the device what it is.
LEMMA RegisterKeeps ==
  ASSUME DeviceTypes, NEW d \in Drivers, Register(d),
         watched = DeviceDir, watched # NoDevice,
         ~parted'
  PROVE  DeviceDir' = DeviceDir
  <1> DEFINE n == Least(Slots \ Registered)
             named == {j \in Registered : handler[j] = Gamezone}
  <1>1. /\ Registered \in SUBSET Nat /\ Slots \ Registered \in SUBSET Nat
        /\ NoDevice \notin Registered /\ d # NoDevice
    BY DeviceAssumption DEF Registered
  <1>2. n \in Slots \ Registered
    BY <1>1, LeastIs DEF Register
  <1>3. /\ handler' = [handler EXCEPT ![n] = d] /\ watched' = watched
        /\ ~Displaces(n, d)
    BY DEF Register
  <1>4. Registered' = Registered \cup {n}
    BY <1>1, <1>2, <1>3 DEF DeviceTypes, Registered
  <1>5. DeviceDir \in Registered /\ d # Gamezone
    BY <1>3, DeviceDirIs DEF Displaces
  <1>6. named' = named
    BY <1>2, <1>3, <1>4, <1>5 DEF DeviceTypes
  <1> HIDE DEF n
  <1>7. CASE named # {}
    BY <1>6, <1>7 DEF DeviceDir
  <1>8. CASE named = {}
    <2>1. DeviceDir = Least(Registered)
      BY <1>5, <1>8 DEF DeviceDir
    <2>2. handler[watched] # Gamezone
      BY <1>5, <1>8
    <2>3. ~(n < watched)
      BY <1>3, <2>2 DEF Displaces
    <2>4. \A j \in Registered \cup {n} : DeviceDir <= j
      <3>1. DeviceDir \in Nat /\ n \in Nat
        BY <1>1, <1>2, <1>5
      <3>2. \A j \in Registered : DeviceDir <= j
        BY <1>1, <1>5, <2>1, LeastIs
      <3> QED
        BY <2>3, <3>1, <3>2
    <2>5. DeviceDir = Least(Registered \cup {n})
      <3>1. Registered \cup {n} \in SUBSET Nat /\ Registered \cup {n} # {}
        BY <1>1, <1>2
      <3> QED
        BY <1>5, <2>4, <3>1, LeastIs
    <2> QED
      BY <1>4, <1>5, <1>6, <1>8, <2>5 DEF DeviceDir
  <1> QED
    BY <1>7, <1>8

\* A handler that is not the driven one leaves it what it is.
LEMMA UnregisterKeeps ==
  ASSUME DeviceTypes, NEW i \in Slots, Unregister(i),
         watched = DeviceDir, watched # NoDevice,
         ~parted'
  PROVE  DeviceDir' = DeviceDir
  <1> DEFINE named == {j \in Registered : handler[j] = Gamezone}
  <1>1. Registered \in SUBSET Nat /\ NoDevice \notin Registered
    BY DeviceAssumption DEF Registered
  <1>2. i \in Registered /\ handler' = [handler EXCEPT ![i] = NoDevice]
          /\ i # DeviceDir
    BY DEF Unregister
  <1>3. Registered' = Registered \ {i}
    BY <1>1, <1>2 DEF DeviceTypes, Registered
  <1>4. DeviceDir \in Registered
    BY DeviceDirIs
  <1>5. named' = named \ {i}
    BY <1>2, <1>3, <1>4 DEF DeviceTypes
  <1>6. CASE named # {}
    <2>1. DeviceDir = Least(named) /\ named \in SUBSET Nat
      BY <1>1, <1>6 DEF DeviceDir
    <2>2. DeviceDir \in named /\ \A j \in named : DeviceDir <= j
      BY <1>6, <2>1, LeastIs
    <2>3. DeviceDir \in named' /\ \A j \in named' : DeviceDir <= j
      BY <1>2, <1>5, <2>2
    <2>4. DeviceDir = Least(named')
      <3>1. named' \in SUBSET Nat /\ named' # {}
        BY <1>5, <2>1, <2>3
      <3> HIDE DEF named
      <3> QED
        BY <2>3, <3>1, LeastIs
    <2> QED
      BY <2>3, <2>4 DEF DeviceDir
  <1>7. CASE named = {}
    <2>1. DeviceDir = Least(Registered)
      BY <1>4, <1>7 DEF DeviceDir
    <2>2. \A j \in Registered : DeviceDir <= j
      BY <1>1, <1>4, <2>1, LeastIs
    <2>3. DeviceDir \in Registered' /\ \A j \in Registered' : DeviceDir <= j
      BY <1>2, <1>3, <1>4, <2>2
    <2>4. DeviceDir = Least(Registered')
      <3>1. Registered' \in SUBSET Nat /\ Registered' # {}
        BY <1>1, <1>3, <2>3
      <3> QED
        BY <2>3, <3>1, LeastIs
    <2>5. named' = {}
      BY <1>5, <1>7
    <2> QED
      BY <2>3, <2>4, <2>5 DEF DeviceDir
  <1> QED
    BY <1>6, <1>7

-----------------------------------------------------------------------------
(* A write.                                                                *)

\* A request as a command or a slider makes it: numbers are words.
Request(r) ==
    /\ r.op \in Setters
    /\ r.op \in {"ppt", "backlight"} => r.arg \in Word

\* What a request that is carried out says of the machine.
Fits(r) ==
    /\ r.op = "profile" => /\ r.arg \in Profiles /\ DeviceDir # NoDevice
                           /\ r.arg \in Choices[handler[DeviceDir]]
    /\ r.op = "battery" => r.arg \in Modes
    /\ r.op = "toggle" => r.arg \in BOOLEAN
    /\ r.op = "backlight" => r.arg \in 0..LedMax
    /\ r.op = "ppt" => /\ r.attr \in Attrs /\ Listed(r.attr)
                       /\ InRange(Info(r.attr), r.arg)

\* Neither setter writes what does not fit.
LEMMA OkFits ==
  ASSUME HardwareTypes, NEW r, Request(r), NEW root \in BOOLEAN,
         SysfsWrite(r, root) = "ok"
  PROVE  Fits(r)
  <1>1. ~Malformed(r) /\ ~Lacks(r) /\ DriverSays(r) = "ok"
    BY DEF SysfsWrite
  <1>2. r.op \in {"profile", "battery", "toggle", "backlight", "ppt"}
    BY DEF Request, Setters
  <1>3. ASSUME r.op = "profile" PROVE Fits(r)
    <2>1. r.arg \in Profiles /\ DeviceDir # NoDevice
      BY <1>1, <1>3 DEF Malformed, Lacks
    <2>2. r.arg \in Choices[handler[DeviceDir]]
      BY <1>1, <1>3 DEF DriverSays
    <2> QED
      BY <1>3, <2>1, <2>2 DEF Fits
  <1>4. ASSUME r.op = "battery" PROVE Fits(r)
    BY <1>1, <1>4 DEF Malformed, Fits
  <1>5. ASSUME r.op = "toggle" PROVE Fits(r)
    BY <1>1, <1>5 DEF Malformed, Fits
  <1>6. ASSUME r.op = "backlight" PROVE Fits(r)
    <2>1. led # None /\ ~(r.arg > LedMax)
      BY <1>1, <1>6 DEF Malformed, Lacks
    <2>2. r.arg \in Nat /\ LedMax \in Nat
      BY <1>6, ValueAssumption, WordAssumption
         DEF Request, Word, MaxWord
    <2> QED
      BY <1>6, <2>1, <2>2 DEF Fits
  <1>7. ASSUME r.op = "ppt" PROVE Fits(r)
    <2>1. r.attr \in Attrs /\ attrs[r.attr] # None
      BY <1>1, <1>7 DEF Lacks
    <2>2. Listed(r.attr) /\ InRange(Info(r.attr), r.arg)
      BY <1>1, <1>7, <2>1 DEF Malformed
    <2> QED
      BY <1>7, <2>1, <2>2 DEF Fits
  <1> QED
    BY <1>2, <1>3, <1>4, <1>5, <1>6, <1>7

\* The daemon's setter is that of sysfs behind its gates.
LEMMA HandledFits ==
  ASSUME HardwareTypes, NEW r, Request(r), NEW verdict,
         Handled(r, verdict) = "ok"
  PROVE  Fits(r)
  <1>1. SysfsWrite(r, TRUE) = "ok"
    BY DEF Handled
  <1> QED
    BY <1>1, OkFits

\* What a limit is but for its value: no write changes it.
Kept(a) ==
    /\ Listed(a)' = Listed(a)
    /\ Listed(a) => /\ Info(a).min' = Info(a).min
                    /\ Info(a).max' = Info(a).max

\* A new value in a directory leaves the rest of it as it is.
LEMMA ValueKeeps ==
  ASSUME HardwareTypes, NEW a \in Attrs, Listed(a), NEW w \in Word,
         attrs'[a] = [attrs[a] EXCEPT !.current = w]
  PROVE  Kept(a) /\ attrs'[a] \in Attribute /\ attrs'[a].current = w
  <1>1. attrs[a] \in Attribute /\ attrs[a] # None /\ Readable(attrs[a])
    BY DEF HardwareTypes, Listed
  <1>2. /\ attrs'[a] \in Attribute /\ attrs'[a].current = w
        /\ attrs'[a].min = attrs[a].min /\ attrs'[a].max = attrs[a].max
    BY <1>1 DEF Attribute
  <1>3. attrs'[a] # None /\ w # Missing
    BY <1>2, ValueAssumption, WordAssumption DEF Word, MaxWord
  <1>4. Listed(a)' /\ Info(a).min' = Info(a).min /\ Info(a).max' = Info(a).max
    BY <1>2, <1>3 DEF Listed, Readable, Info, ReadByName
  <1> QED
    BY <1>2, <1>4 DEF Kept

\* A directory that stays as it is keeps its range.
LEMMA SameKeeps ==
  ASSUME NEW a, attrs'[a] = attrs[a]
  PROVE  Kept(a)
  BY DEF Kept, Listed, Info, ReadByName, Readable

\* The part of DeviceTypes that a write touches.
ProfilesTyped ==
    /\ DOMAIN profileOf = Slots
    /\ \A i \in Slots :
         profileOf[i] \in IF i \in Registered THEN Choices[handler[i]]
                          ELSE {NoDevice}

\* Handlers and types survive a write that fits.
LEMMA WriteTyped ==
  ASSUME DeviceTypes, HardwareTypes, NEW r, Request(r), Fits(r), Write(r)
  PROVE  /\ HardwareTypes' /\ ProfilesTyped'
         /\ handler' = handler /\ \A a \in Attrs : Kept(a)
  <1>1. handler' = handler /\ machine' = machine
    BY DEF Write
  <1>2. Registered' = Registered
    BY <1>1, HandlersStay
  <1>3. ProfilesTyped'
    <2>1. CASE r.op = "profile"
      <3>1. DeviceDir \in Registered /\ DeviceDir \in Slots
        BY <2>1, DeviceDirIs DEF Fits, Registered
      <3>2. profileOf' = [profileOf EXCEPT ![DeviceDir] = r.arg]
        BY <2>1 DEF Write, WriteProfile
      <3>3. r.arg \in Choices[handler[DeviceDir]]
        BY <2>1 DEF Fits
      <3> QED
        BY <1>1, <1>2, <3>1, <3>2, <3>3 DEF ProfilesTyped, DeviceTypes
    <2>2. CASE r.op # "profile"
      BY <1>1, <1>2, <2>2 DEF Write, ProfilesTyped, DeviceTypes
    <2> QED
      BY <2>1, <2>2
  <1>4. /\ battery' \in Modes \cup {None} /\ toggle' \in BOOLEAN \cup {None}
        /\ led' \in 0..LedMax \cup {None}
    BY DEF Write, Fits, HardwareTypes
  <1>5. /\ attrs' \in [Attrs -> Attribute \cup {None}]
        /\ \A a \in Attrs : Kept(a)
    <2>1. CASE r.op = "ppt"
      <3>1. /\ attrs' = [attrs EXCEPT ![r.attr].current = r.arg]
            /\ r.attr \in Attrs /\ Listed(r.attr) /\ r.arg \in Word
        BY <2>1 DEF Write, Fits, Request
      <3>2. /\ attrs'[r.attr] = [attrs[r.attr] EXCEPT !.current = r.arg]
            /\ \A a \in Attrs \ {r.attr} : attrs'[a] = attrs[a]
            /\ DOMAIN attrs' = Attrs
        BY <3>1 DEF HardwareTypes
      <3>3. Kept(r.attr) /\ attrs'[r.attr] \in Attribute
        BY <3>1, <3>2, ValueKeeps
      <3>4. \A a \in Attrs \ {r.attr} : Kept(a)
        BY <3>2, SameKeeps
      <3>5. attrs' = [a \in Attrs |-> attrs'[a]]
        BY <3>1 DEF HardwareTypes
      <3> QED
        BY <3>2, <3>3, <3>4, <3>5 DEF HardwareTypes
    <2>2. CASE r.op # "ppt"
      <3>1. attrs' = attrs
        BY <2>2 DEF Write
      <3> QED
        BY <3>1, SameKeeps DEF HardwareTypes
    <2> QED
      BY <2>1, <2>2
  <1> QED
    BY <1>1, <1>3, <1>4, <1>5 DEF HardwareTypes

\* The names of what is tracked are apart.
LEMMA TrackedNames ==
  /\ "profile" \in Tracked /\ "battery" \in Tracked
  /\ "toggle" \notin Tracked /\ "backlight" \notin Tracked
  /\ \A a \in Attrs : a # "profile" /\ a # "battery" /\ a \in Tracked
  /\ \A s \in Tracked : s \in Attrs \/ s = "profile" \/ s = "battery"
  BY ValueAssumption DEF Tracked

\* What a tracked setting reads, case by case.
LEMMA NowIs ==
  /\ Now("profile") = CurrentProfile /\ Now("battery") = battery
  /\ \A a \in Attrs : Now(a) = attrs[a].current /\ InMind(a) = mem.ppt[a]
  /\ InMind("profile") = mem.profile /\ InMind("battery") = mem.battery
  BY TrackedNames, ValueAssumption DEF Now, InMind

\* A write changes the setting it is about, to what was asked, and no other.
LEMMA WriteNow ==
  ASSUME DeviceTypes, HardwareTypes, NEW r, Request(r), Fits(r), Write(r),
         NEW s \in Tracked
  PROVE  Now(s)' = IF s = Setting(r) THEN r.arg ELSE Now(s)
  <1>1. handler' = handler
    BY DEF Write
  <1>2. r.op \in {"profile", "battery", "toggle", "backlight", "ppt"}
    BY DEF Request, Setters
  <1>3. Setting(r) = s => (r.op = "ppt" <=> s \in Attrs)
    BY <1>2, TrackedNames DEF Setting, Fits
  <1>4. CASE s = "profile"
    <2>1. CASE r.op = "profile"
      <3>1. DeviceDir \in Slots /\ DeviceDir # NoDevice
        BY <2>1, DeviceDirIs DEF Fits, Registered
      <3>2. profileOf' = [profileOf EXCEPT ![DeviceDir] = r.arg]
        BY <2>1 DEF Write, WriteProfile
      <3>3. CurrentProfile' = r.arg
        BY <1>1, <3>1, <3>2, HandlersStay DEF CurrentProfile, DeviceTypes
      <3> QED
        BY <1>4, <2>1, <3>3, NowIs DEF Setting, Now
    <2>2. CASE r.op # "profile"
      <3>1. CurrentProfile' = CurrentProfile
        BY <1>1, <2>2, HandlersStay DEF Write, CurrentProfile
      <3>2. Setting(r) # s
        BY <1>3, <1>4, <2>2, TrackedNames DEF Setting
      <3> QED
        BY <1>4, <3>1, <3>2 DEF Now
    <2> QED
      BY <2>1, <2>2
  <1>5. CASE s = "battery"
    <2>1. Setting(r) = s <=> r.op = "battery"
      BY <1>3, <1>5, TrackedNames DEF Setting
    <2> QED
      BY <1>5, <2>1 DEF Now, Write
  <1>6. CASE s \in Attrs
    <2>1. Setting(r) = s <=> r.op = "ppt" /\ r.attr = s
      BY <1>3, <1>6 DEF Setting
    <2>2. Now(s) = attrs[s].current /\ Now(s)' = attrs'[s].current
      BY <1>6, TrackedNames DEF Now
    <2>3. CASE r.op = "ppt"
      <3>1. /\ attrs' = [attrs EXCEPT ![r.attr].current = r.arg]
            /\ r.attr \in Attrs /\ Listed(r.attr) /\ r.arg \in Word
        BY <2>3 DEF Write, Fits, Request
      <3>2. attrs[r.attr] \in Attribute
        BY <3>1 DEF Listed, HardwareTypes
      <3>3. r.attr = s => attrs'[s] = [attrs[s] EXCEPT !.current = r.arg]
        BY <1>6, <3>1 DEF HardwareTypes
      <3>4. r.attr = s => attrs'[s].current = r.arg
        BY <3>2, <3>3 DEF Attribute
      <3>5. r.attr # s => attrs'[s] = attrs[s]
        BY <1>6, <3>1 DEF HardwareTypes
      <3> QED
        BY <2>1, <2>2, <2>3, <3>4, <3>5
    <2>4. CASE r.op # "ppt"
      BY <2>1, <2>2, <2>4 DEF Write
    <2> QED
      BY <2>3, <2>4
  <1> QED
    BY <1>4, <1>5, <1>6, TrackedNames

\* The daemon has the setting down as what was asked.
LEMMA RememberIs ==
  ASSUME DaemonTypes, HardwareTypes, NEW r, Request(r), Fits(r),
         mem' = Remember(r)
  PROVE  /\ mem' \in [profile : Profiles \cup {None},
                      battery : Modes \cup {None},
                      ppt : [Attrs -> Word \cup {None}]]
         /\ \A s \in Tracked :
              InMind(s)' = IF s = Setting(r) THEN r.arg ELSE InMind(s)
  <1>1. r.op \in {"profile", "battery", "toggle", "backlight", "ppt"}
    BY DEF Request, Setters
  <1>2. CASE r.op = "profile"
    <2>1. mem' = [mem EXCEPT !.profile = r.arg]
      BY <1>2 DEF Remember
    <2> QED
      BY <1>2, <2>1, TrackedNames DEF Fits, DaemonTypes, InMind, Setting
  <1>3. CASE r.op = "battery"
    <2>1. mem' = [mem EXCEPT !.battery = r.arg]
      BY <1>3 DEF Remember
    <2> QED
      BY <1>3, <2>1, TrackedNames DEF Fits, DaemonTypes, InMind, Setting
  <1>4. CASE r.op = "ppt"
    <2>1. mem' = [mem EXCEPT !.ppt[r.attr] = r.arg]
      BY <1>4 DEF Remember
    <2>2. r.attr \in Attrs /\ r.arg \in Word
      BY <1>4 DEF Fits, Request
    <2> QED
      BY <1>4, <2>1, <2>2, TrackedNames DEF DaemonTypes, InMind, Setting
  <1>5. CASE r.op \in {"toggle", "backlight"}
    <2>1. mem' = mem
      BY <1>5 DEF Remember
    <2> QED
      BY <1>5, <2>1, TrackedNames DEF DaemonTypes, InMind, Setting
  <1> QED
    BY <1>1, <1>2, <1>3, <1>4, <1>5

-----------------------------------------------------------------------------
(* The invariants that are kept beside TypeOK.                             *)

\* What was last asked of the daemon it remembers, until it is asked again,
\* whatever the firmware forgets.
WordHolds(s) ==
    LET forgotten == s \in lost /\ Now(s) = Firmware(s) IN
    /\ lastSet[s].by = "daemon" =>
         /\ InMind(s) = lastSet[s].value
         /\ Now(s) = lastSet[s].value \/ forgotten
    /\ lastSet[s].by = "direct" =>
         Now(s) \in {lastSet[s].value, InMind(s)} \/ forgotten

LastWord == \A s \in Tracked : WordHolds(s)

\* The limits that are listed, and their ranges, are those of the machine.
SameRanges ==
    \A a \in Attrs :
      LET stated == machine.attrs[a] IN
      /\ Listed(a) <=> stated # None /\ Readable(stated)
      /\ Listed(a) => /\ Info(a).min = ReadByName(stated).min
                      /\ Info(a).max = ReadByName(stated).max

\* A limit that passed legion-ctl's own check passes it at any later time.
StillInRange ==
    \A x \in Callers :
      job[x].stage = "checked" /\ job[x].cmd.op = "ppt" =>
        /\ job[x].cmd.attr \in Attrs
        /\ Listed(job[x].cmd.attr)
        /\ InRange(Info(job[x].cmd.attr), job[x].cmd.arg)

IInv ==
    /\ TypeOK
    /\ LastWord
    /\ StillInRange
    /\ SameRanges
    /\ WatchFollowsDevice
    /\ SlidersFollowFirmware

Keeps == \A a \in Attrs : Kept(a)

\* Ranges that are kept are still those of the machine.
LEMMA RangesStay ==
  ASSUME SameRanges, Keeps, machine' = machine
  PROVE  SameRanges'
  <1>1. ASSUME NEW a \in Attrs
        PROVE  (/\ Listed(a) <=> machine.attrs[a] # None
                                  /\ Readable(machine.attrs[a])
                /\ Listed(a) =>
                     /\ Info(a).min = ReadByName(machine.attrs[a]).min
                     /\ Info(a).max = ReadByName(machine.attrs[a]).max)'
    <2>1. /\ Listed(a)' = Listed(a)
          /\ Listed(a) => /\ Info(a)'.min = Info(a).min
                          /\ Info(a)'.max = Info(a).max
      BY DEF Keeps, Kept
    <2> DEFINE stated == machine.attrs[a]
    <2>2. /\ Listed(a) <=> stated # None /\ Readable(stated)
          /\ Listed(a) => /\ Info(a).min = ReadByName(stated).min
                          /\ Info(a).max = ReadByName(stated).max
      BY DEF SameRanges
    <2>3. stated' = stated
      OBVIOUS
    <2> QED
      BY <2>1, <2>2, <2>3 DEF Readable, ReadByName
  <1> QED
    BY <1>1 DEF SameRanges

\* A setting keeps its last word while nobody touches it, and when it becomes
\* what the daemon has it down as.
LEMMA WordStays ==
  ASSUME NEW s, WordHolds(s), machine' = machine,
         lastSet'[s] = lastSet[s], InMind(s)' = InMind(s),
         \/ Now(s)' = InMind(s)
         \/ Now(s)' = Now(s) /\ (s \in lost => s \in lost')
  PROVE  WordHolds(s)'
  <1>1. Firmware(s)' = Firmware(s)
    BY DEF Firmware
  <1> QED
    BY <1>1 DEF WordHolds

\* A write with its note, by the daemon or by root.
LEMMA Carried ==
  ASSUME TypeOK, LastWord, NEW r, Request(r), Fits(r), Write(r),
         \/ mem' = Remember(r) /\ Note(r, "daemon")
         \/ mem' = mem /\ Note(r, "direct")
  PROVE  LastWord' /\ DOMAIN lastSet' = Tracked
           /\ lost' \subseteq Tracked \ {"profile"}
  <1>1. DeviceTypes /\ HardwareTypes /\ DaemonTypes /\ DOMAIN lastSet = Tracked
    BY DEF TypeOK
  <1>2. PICK who \in {"daemon", "direct"} :
          /\ Note(r, who)
          /\ mem' = IF who = "daemon" THEN Remember(r) ELSE mem
    OBVIOUS
  <1>3. ASSUME NEW s \in Tracked
        PROVE  lastSet'[s] = IF s = Setting(r)
                             THEN [by |-> who, value |-> r.arg]
                             ELSE lastSet[s]
    BY <1>1, <1>2 DEF Note
  <1>4. DOMAIN lastSet' = Tracked /\ lost' \subseteq Tracked \ {"profile"}
          /\ machine' = machine
    BY <1>1, <1>2 DEF Note, Write, TypeOK
  <1>5. ASSUME NEW s \in Tracked
        PROVE  Now(s)' = IF s = Setting(r) THEN r.arg ELSE Now(s)
    BY <1>1, WriteNow
  <1>6. ASSUME NEW s \in Tracked
        PROVE  InMind(s)' = IF who = "daemon" /\ s = Setting(r) THEN r.arg
                            ELSE InMind(s)
    <2>1. CASE who = "daemon"
      BY <1>1, <1>2, <2>1, RememberIs
    <2>2. CASE who = "direct"
      BY <1>2, <2>2 DEF InMind
    <2> QED
      BY <2>1, <2>2
  <1>7. ASSUME NEW s \in Tracked
        PROVE  WordHolds(s)'
    <2>1. CASE s = Setting(r)
      <3>1. lastSet'[s].by = who /\ lastSet'[s].value = r.arg
        BY <1>3, <2>1
      <3> QED
        BY <1>5, <1>6, <2>1, <3>1 DEF WordHolds
    <2>2. CASE s # Setting(r)
      <3>1. lastSet'[s] = lastSet[s] /\ Now(s)' = Now(s)
              /\ InMind(s)' = InMind(s)
        BY <1>3, <1>5, <1>6, <2>2
      <3>2. s \in lost => s \in lost'
        BY <1>2, <2>2 DEF Note
      <3> QED
        BY <1>4, <3>1, <3>2, WordStays DEF LastWord
    <2> QED
      BY <2>1, <2>2
  <1> QED
    BY <1>4, <1>7 DEF LastWord

\* What concerns settings only survives what changes none.
LEMMA SettingsStay ==
  ASSUME LastWord, profileOf' = profileOf, handler' = handler,
         UNCHANGED <<hwVars, mem, pastVars>>
  PROVE  LastWord' /\ Keeps
  <1>1. CurrentProfile' = CurrentProfile
    BY HandlersStay DEF CurrentProfile
  <1>2. \A s \in Tracked : Now(s)' = Now(s) /\ InMind(s)' = InMind(s)
    BY <1>1 DEF Now, InMind, hwVars
  <1>3. Keeps
    BY SameKeeps DEF Keeps, hwVars
  <1>4. machine' = machine /\ lastSet' = lastSet /\ lost' = lost
    BY DEF hwVars, pastVars
  <1>5. \A s \in Tracked : WordHolds(s)'
    BY <1>2, <1>4, WordStays DEF LastWord
  <1> QED
    BY <1>3, <1>5 DEF LastWord

\* The types that concern what was set.
PastTypes == DOMAIN lastSet = Tracked /\ lost \subseteq Tracked \ {"profile"}

\* A call the daemon answers, however it answers.
LEMMA Served ==
  ASSUME TypeOK, LastWord, NEW r, Request(r), NEW verdict,
         Serve(r, Handled(r, verdict))
  PROVE  /\ DeviceTypes' /\ HardwareTypes' /\ PastTypes'
         /\ up' = up /\ owed' = owed => DaemonTypes'
         /\ LastWord' /\ Keeps
         /\ UNCHANGED <<handler, watched, parted, machine>>
  <1>1. DeviceTypes /\ HardwareTypes /\ DaemonTypes
    BY DEF TypeOK
  <1>2. CASE Handled(r, verdict) = "ok"
    <2>1. Fits(r) /\ Write(r) /\ Awaken(r) /\ mem' = Remember(r)
            /\ Note(r, "daemon")
      BY <1>1, <1>2, HandledFits DEF Serve
    <2>2. HardwareTypes' /\ ProfilesTyped' /\ handler' = handler /\ Keeps
      BY <1>1, <2>1, WriteTyped DEF Keeps
    <2>3. watched' = watched /\ parted' = parted /\ woken' \in BOOLEAN
      BY <1>1, <2>1 DEF Awaken, Wake, watchVars, DeviceTypes
    <2>4. DeviceTypes'
      BY <1>1, <2>2, <2>3, HandlersStay DEF DeviceTypes, ProfilesTyped
    <2>5. up' = up /\ owed' = owed => DaemonTypes'
      BY <1>1, <2>1, RememberIs DEF DaemonTypes
    <2>6. LastWord' /\ PastTypes' /\ machine' = machine
      BY <2>1, Carried DEF PastTypes, Write
    <2> QED
      BY <2>2, <2>3, <2>4, <2>5, <2>6
  <1>3. CASE Handled(r, verdict) # "ok"
    <2>1. UNCHANGED <<deviceVars, hwVars, mem, pastVars>>
      BY <1>3 DEF Serve
    <2>2. UNCHANGED <<handler, profileOf, watched, woken, parted>>
      BY <2>1 DEF deviceVars
    <2>3. /\ DeviceTypes' /\ HardwareTypes' /\ machine' = machine
          /\ up' = up /\ owed' = owed => DaemonTypes'
      BY <1>1, <2>1, <2>2, HandlersStay
         DEF DeviceTypes, HardwareTypes, DaemonTypes, hwVars
    <2>4. PastTypes'
      BY <2>1 DEF TypeOK, PastTypes, pastVars
    <2> QED
      BY <2>1, <2>2, <2>3, <2>4, SettingsStay
  <1> QED
    BY <1>2, <1>3

-----------------------------------------------------------------------------
(* Frames: what a step leaves to the other parts of the invariant.         *)

\* Commands that go on or end.
LEMMA JobsEnd ==
  ASSUME TypeOK, StillInRange, Keeps,
         \/ job' = job
         \/ \E x \in Callers : End(x)
  PROVE  job' \in [Callers -> Job] /\ StillInRange'
  <1>1. job \in [Callers -> Job] /\ Idle \in Job
    BY DEF TypeOK, Job
  <1>2. /\ job' \in [Callers -> Job]
        /\ \A x \in Callers : job'[x] = job[x] \/ job'[x] = Idle
    BY <1>1 DEF End
  <1>3. ASSUME NEW x \in Callers,
               (job[x].stage = "checked" /\ job[x].cmd.op = "ppt")'
        PROVE  (/\ job[x].cmd.attr \in Attrs
                /\ Listed(job[x].cmd.attr)
                /\ InRange(Info(job[x].cmd.attr), job[x].cmd.arg))'
    <2>1. job'[x] = job[x]
      BY <1>2, <1>3 DEF Idle
    <2> DEFINE a == job[x].cmd.attr
    <2>2. a \in Attrs /\ Listed(a) /\ InRange(Info(a), job[x].cmd.arg)
      BY <1>3, <2>1 DEF StillInRange
    <2>3. Kept(a)
      BY <2>2 DEF Keeps
    <2> QED
      BY <2>1, <2>2, <2>3 DEF Kept, Listed, Info, InRange
  <1> QED
    BY <1>2, <1>3 DEF StillInRange

\* The dashboard that is not redrawn is right as long as ranges are kept.
LEMMA SlidersStay ==
  ASSUME TypeOK, SlidersFollowFirmware, Keeps, UNCHANGED guiVars
  PROVE  GuiTypes' /\ SlidersFollowFirmware'
  <1>1. window' = window /\ sliders' = sliders
    BY DEF guiVars
  <1>2. GuiTypes'
    BY <1>1 DEF TypeOK, GuiTypes
  <1>3. ASSUME NEW a \in KnownAttrs
        PROVE  /\ Listed(a)' = Listed(a)
               /\ Listed(a) => /\ Sensible(Info(a)') = Sensible(Info(a))
                               /\ Overturned(Info(a)') = Overturned(Info(a))
                               /\ Info(a)'.min = Info(a).min
                               /\ Info(a)'.max = Info(a).max
    <2>1. Kept(a)
      BY ValueAssumption DEF Keeps
    <2> QED
      BY <2>1 DEF Kept, Sensible, Overturned
  <1>4. CASE window = "open"
    <2>1. ASSUME NEW a \in KnownAttrs, Listed(a)', Sensible(Info(a)')
          PROVE  LET slider == sliders'.bounds[a] IN
                 /\ slider.min = Info(a)'.min /\ slider.max = Info(a)'.max
                 /\ slider.value \in Positions(slider)
                 /\ \A i \in Positions(slider) : InRange(Info(a)', AsWord(i))
      <3>1. Listed(a) /\ Sensible(Info(a))
        BY <1>3, <2>1
      <3> DEFINE slider == sliders.bounds[a]
      <3>2. /\ slider.min = Info(a).min /\ slider.max = Info(a).max
            /\ slider.value \in Positions(slider)
            /\ \A i \in Positions(slider) : InRange(Info(a), AsWord(i))
        BY <1>4, <3>1 DEF SlidersFollowFirmware
      <3> HIDE DEF slider
      <3>3. sliders'.bounds[a] = slider
        BY <1>1 DEF slider
      <3> QED
        BY <1>3, <3>1, <3>2, <3>3 DEF InRange
    <2>2. window' # "dead"
      BY <1>1, <1>4
    <2> QED
      BY <1>2, <2>1, <2>2 DEF SlidersFollowFirmware
  <1>5. CASE window = "dead"
    <2>1. PICK a \in KnownAttrs : Listed(a) /\ Overturned(Info(a))
      BY <1>5 DEF SlidersFollowFirmware
    <2>2. Listed(a)' /\ Overturned(Info(a)')
      BY <1>3, <2>1
    <2> QED
      BY <1>1, <1>2, <1>5, <2>2 DEF SlidersFollowFirmware
  <1>6. CASE window \notin {"open", "dead"}
    BY <1>1, <1>2, <1>6 DEF SlidersFollowFirmware
  <1> QED
    BY <1>2, <1>4, <1>5, <1>6

\* The watcher stays where it is, and so does the device.
LEMMA WatchStays ==
  ASSUME WatchFollowsDevice, UNCHANGED <<handler, watched, parted, up>>
  PROVE  WatchFollowsDevice'
  BY HandlersStay DEF WatchFollowsDevice

\* legion-ctl by itself: only the command it is at changes.
LEMMA CommandAlone ==
  ASSUME IInv, job' \in [Callers -> Job],
         UNCHANGED <<deviceVars, hwVars, daemonVars, pastVars, guiVars>>
  PROVE  /\ Keeps
         /\ StillInRange' => IInv'
  <1>1. UNCHANGED <<handler, profileOf, watched, woken, parted, up, owed, mem>>
    BY DEF deviceVars, daemonVars
  <1>2. DeviceTypes' /\ HardwareTypes' /\ DaemonTypes'
    BY <1>1, HandlersStay
       DEF IInv, TypeOK, DeviceTypes, HardwareTypes, DaemonTypes, hwVars
  <1>3. LastWord' /\ Keeps
    BY <1>1, SettingsStay DEF IInv
  <1>4. GuiTypes' /\ SlidersFollowFirmware'
    BY <1>3, SlidersStay DEF IInv
  <1>5. WatchFollowsDevice'
    BY <1>1, WatchStays DEF IInv
  <1>6. PastTypes'
    BY DEF IInv, TypeOK, PastTypes, pastVars
  <1>7. SameRanges'
    BY <1>3, RangesStay DEF IInv, hwVars
  <1> QED
    BY <1>2, <1>3, <1>4, <1>5, <1>6, <1>7 DEF IInv, TypeOK, PastTypes

-----------------------------------------------------------------------------
(* The invariant, step by step.                                            *)

\* No daemon, no window and no command: nothing is promised yet.
LEMMA InitInv == Init => IInv
  <1> SUFFICES ASSUME Init PROVE IInv
    OBVIOUS
  <1>1. DeviceTypes
    <2>1. handler \in [Slots -> Drivers \cup {NoDevice}]
      BY MachineAssumption DEF Init
    <2> QED
      BY <2>1 DEF Init, DeviceTypes
  <1>2. HardwareTypes
    BY MachineAssumption DEF Init, HardwareTypes
  <1>3. DaemonTypes
    BY DEF Init, DaemonTypes
  <1>4. GuiTypes /\ SlidersFollowFirmware
    <2>1. window = "closed"
      BY DEF Init
    <2> QED
      BY <2>1 DEF GuiTypes, SlidersFollowFirmware
  <1>5. job \in [Callers -> Job] /\ StillInRange
    <2>1. Idle \in Job /\ Idle.stage = "idle"
      BY DEF Job, Idle
    <2>2. job = [x \in Callers |-> Idle]
      BY DEF Init
    <2>3. job \in [Callers -> Job] /\ \A x \in Callers : job[x].stage = "idle"
      BY <2>1, <2>2
    <2> QED
      BY <2>3 DEF StillInRange
  <1>6. PastTypes /\ LastWord
    <2>1. lastSet = [s \in Tracked |-> Nobody] /\ lost = {}
      BY DEF Init
    <2>2. \A s \in Tracked : lastSet[s].by = "nobody"
      BY <2>1 DEF Nobody
    <2> QED
      BY <2>1, <2>2 DEF PastTypes, LastWord, WordHolds
  <1>7. WatchFollowsDevice
    BY DEF Init, WatchFollowsDevice
  <1>8. SameRanges
    BY DEF Init, SameRanges, Listed, Info
  <1> QED
    BY <1>1, <1>2, <1>3, <1>4, <1>5, <1>6, <1>7, <1>8
       DEF IInv, TypeOK, PastTypes

\* Steps of legion-ctl that touch nothing else: it begins, gives up, gets no
\* answer, shows and is done.
LEMMA CommandStep ==
  ASSUME IInv, NEW x \in Callers,
         Connect(x) \/ CallNobody(x) \/ Show(x) \/ Exit(x)
  PROVE  IInv'
  <1>1. UNCHANGED <<deviceVars, hwVars, daemonVars, pastVars, guiVars>>
    BY DEF Connect, CallNobody, Show, Exit
  <1>2. job \in [Callers -> Job] /\ Idle \in Job
    BY DEF IInv, TypeOK, Job
  <1>3. Keeps
    BY <1>1, SameKeeps DEF Keeps, hwVars
  <1>4. CASE Connect(x)
    <2>1. PICK r \in Commands, via \in {"daemon", "direct"} :
            job' = [job EXCEPT ![x] = [stage |-> "connected", cmd |-> r,
                                       via |-> via]]
      BY <1>4 DEF Connect
    <2>2. [stage |-> "connected", cmd |-> r, via |-> via] \in Job
      BY DEF Job
    <2>3. job' \in [Callers -> Job]
      BY <1>2, <2>1, <2>2
    <2>4. \A y \in Callers : job'[y] = job[y] \/ job'[y].stage = "connected"
      BY <1>2, <2>1
    <2>5. StillInRange'
      BY <1>1, <2>4
         DEF IInv, StillInRange, Listed, Info, hwVars
    <2> QED
      BY <1>1, <2>3, <2>5, CommandAlone
  <1>5. CASE Show(x)
    <2>1. /\ job[x].stage = "connected" /\ job[x].cmd.op \notin Setters
          /\ job' = [job EXCEPT ![x] = [job[x] EXCEPT !.stage = "shown"]]
      BY <1>5 DEF Show
    <2>2. job[x] \in [stage : {"connected"}, cmd : Commands,
                      via : {"daemon", "direct"}]
      BY <1>2, <2>1 DEF Job, Idle
    <2>3. [job[x] EXCEPT !.stage = "shown"] \in Job
      BY <2>1, <2>2 DEF Job
    <2>4. job' \in [Callers -> Job]
      BY <1>2, <2>1, <2>3
    <2>5. \A y \in Callers : job'[y] = job[y] \/ job'[y].stage = "shown"
      BY <1>2, <2>1, <2>2
    <2>6. StillInRange'
      BY <1>1, <2>5
         DEF IInv, StillInRange, Listed, Info, hwVars
    <2> QED
      BY <1>1, <2>4, <2>6, CommandAlone
  <1>6. CASE CallNobody(x) \/ Exit(x)
    <2>1. End(x)
      BY <1>6 DEF CallNobody, Exit
    <2>2. job' \in [Callers -> Job] /\ StillInRange'
      BY <1>3, <2>1, JobsEnd DEF IInv
    <2> QED
      BY <1>1, <2>2, CommandAlone
  <1> QED
    BY <1>4, <1>5, <1>6

\* Its own checks.
LEMMA CheckStep ==
  ASSUME IInv, NEW x \in Callers, Check(x)
  PROVE  IInv'
  <1>1. UNCHANGED <<deviceVars, hwVars, daemonVars, pastVars, guiVars>>
    BY DEF Check
  <1>2. job \in [Callers -> Job]
    BY DEF IInv, TypeOK
  <1>3. Keeps
    BY <1>1, SameKeeps DEF Keeps, hwVars
  <1>4. CASE End(x)
    <2>1. job' \in [Callers -> Job] /\ StillInRange'
      BY <1>3, <1>4, JobsEnd DEF IInv
    <2> QED
      BY <1>1, <2>1, CommandAlone
  <1>5. CASE /\ CliSays(job[x].cmd) = "ok"
             /\ job' = [job EXCEPT ![x].stage = "checked"]
    <2>1. /\ job[x].stage = "connected" /\ job[x].cmd.op \in Setters
          /\ job' = [job EXCEPT ![x] = [job[x] EXCEPT !.stage = "checked"]]
      BY <1>5 DEF Check
    <2>2. job[x] \in [stage : {"connected"}, cmd : Commands,
                      via : {"daemon", "direct"}]
      BY <1>2, <2>1 DEF Job, Idle
    <2>3. [job[x] EXCEPT !.stage = "checked"] \in Job
      BY <2>1, <2>2 DEF Job
    <2>4. job' \in [Callers -> Job]
      BY <1>2, <2>1, <2>3
    <2>5. ASSUME job[x].cmd.op = "ppt"
          PROVE  /\ job[x].cmd.attr \in Attrs
                 /\ Listed(job[x].cmd.attr)
                 /\ InRange(Info(job[x].cmd.attr), job[x].cmd.arg)
      BY <1>5, <2>5 DEF CliSays
    <2>6. \A y \in Callers : job'[y] = job[y] \/ y = x
      BY <1>2, <2>1
    <2>7. job'[x].cmd = job[x].cmd
      BY <1>2, <2>1, <2>2
    <2>8. StillInRange'
      BY <1>1, <2>5, <2>6, <2>7
         DEF IInv, StillInRange, Listed, Info, hwVars
    <2> QED
      BY <1>1, <2>4, <2>8, CommandAlone
  <1> QED
    BY <1>4, <1>5 DEF Check

\* A command is a request.
LEMMA CommandRequests ==
  ASSUME TypeOK, NEW x \in Callers, job[x].stage = "checked"
  PROVE  Request(job[x].cmd)
  <1>1. job[x].cmd \in Commands /\ job[x].cmd.op \in Setters
    BY DEF TypeOK, Job, Idle
  <1> QED
    BY <1>1, CommandAssumption DEF Request

\* A call, answered.
LEMMA CallStep ==
  ASSUME IInv, NEW x \in Callers, CallDaemon(x)
  PROVE  IInv'
  <1>1. PICK verdict \in Verdicts :
          Serve(job[x].cmd, Handled(job[x].cmd, verdict))
    BY DEF CallDaemon
  <1>2. Request(job[x].cmd)
    BY CommandRequests DEF CallDaemon, At, IInv
  <1>3. up' = up /\ owed' = owed /\ UNCHANGED guiVars
    BY DEF CallDaemon
  <1>4. /\ DeviceTypes' /\ HardwareTypes' /\ DaemonTypes'
        /\ PastTypes' /\ LastWord' /\ Keeps
        /\ UNCHANGED <<handler, watched, parted, machine>>
    BY <1>1, <1>2, <1>3, Served DEF IInv
  <1>5. job' \in [Callers -> Job] /\ StillInRange'
    BY <1>4, JobsEnd DEF CallDaemon, IInv
  <1>6. GuiTypes' /\ SlidersFollowFirmware' /\ WatchFollowsDevice'
          /\ SameRanges'
    BY <1>3, <1>4, SlidersStay, WatchStays, RangesStay DEF IInv
  <1> QED
    BY <1>4, <1>5, <1>6 DEF IInv, TypeOK, PastTypes

\* A call that is carried out and not answered.
LEMMA CutOffStep ==
  ASSUME IInv, NEW x \in Callers, CallCutOff(x)
  PROVE  IInv'
  <1> DEFINE r == job[x].cmd
  <1>1. TypeOK /\ DeviceTypes /\ HardwareTypes /\ DaemonTypes /\ LastWord
    BY DEF IInv, TypeOK
  <1>2. Request(r)
    BY <1>1, CommandRequests DEF CallCutOff, At
  <1>3. /\ Write(r) /\ mem' = Remember(r) /\ Note(r, "daemon")
        /\ up' = FALSE /\ owed' = FALSE /\ CloseWatch
        /\ UNCHANGED guiVars /\ End(x)
        /\ Handled(r, "yes") = "ok"
    BY DEF CallCutOff
  <1> HIDE DEF r
  <1>4. Fits(r)
    BY <1>1, <1>2, <1>3, HandledFits
  <1>5. HardwareTypes' /\ ProfilesTyped' /\ handler' = handler /\ Keeps
    BY <1>1, <1>2, <1>3, <1>4, WriteTyped DEF Keeps
  <1>6. LastWord' /\ PastTypes'
    BY <1>1, <1>2, <1>3, <1>4, Carried DEF PastTypes
  <1>7. DeviceTypes'
    BY <1>1, <1>3, <1>5, HandlersStay
       DEF CloseWatch, DeviceTypes, ProfilesTyped
  <1>8. DaemonTypes'
    BY <1>1, <1>2, <1>3, <1>4, RememberIs DEF DaemonTypes
  <1>9. job' \in [Callers -> Job] /\ StillInRange'
    BY <1>3, <1>5, JobsEnd DEF IInv
  <1>10. GuiTypes' /\ SlidersFollowFirmware' /\ WatchFollowsDevice'
    BY <1>3, <1>5, SlidersStay DEF IInv, WatchFollowsDevice
  <1>11. SameRanges'
    BY <1>3, <1>5, RangesStay DEF IInv, Write
  <1> QED
    BY <1>5, <1>6, <1>7, <1>8, <1>9, <1>10, <1>11
       DEF IInv, TypeOK, PastTypes

\* A write beside the daemon.
LEMMA DirectStep ==
  ASSUME IInv, NEW x \in Callers, WriteDirect(x)
  PROVE  IInv'
  <1> DEFINE r == job[x].cmd
  <1>1. TypeOK /\ DeviceTypes /\ HardwareTypes /\ DaemonTypes /\ LastWord
    BY DEF IInv, TypeOK
  <1>2. Request(r)
    BY <1>1, CommandRequests DEF WriteDirect, At
  <1>3. up' = up /\ owed' = owed /\ mem' = mem /\ UNCHANGED guiVars /\ End(x)
    BY DEF WriteDirect, daemonVars
  <1>4. PICK root \in BOOLEAN :
          IF SysfsWrite(r, root) = "ok"
          THEN Write(r) /\ Awaken(r) /\ Note(r, "direct")
          ELSE UNCHANGED <<deviceVars, hwVars, pastVars>>
    BY DEF WriteDirect
  <1> HIDE DEF r
  <1>5. /\ DeviceTypes' /\ HardwareTypes' /\ PastTypes'
        /\ LastWord' /\ Keeps
        /\ UNCHANGED <<handler, watched, parted, machine>>
    <2>1. CASE SysfsWrite(r, root) = "ok"
      <3>1. Fits(r) /\ Write(r) /\ Awaken(r) /\ Note(r, "direct")
        BY <1>1, <1>2, <1>4, <2>1, OkFits
      <3>2. HardwareTypes' /\ ProfilesTyped' /\ handler' = handler /\ Keeps
        BY <1>1, <1>2, <3>1, WriteTyped DEF Keeps
      <3>3. watched' = watched /\ parted' = parted /\ woken' \in BOOLEAN
        BY <1>1, <3>1 DEF Awaken, Wake, watchVars, DeviceTypes
      <3>4. DeviceTypes'
        BY <1>1, <3>2, <3>3, HandlersStay DEF DeviceTypes, ProfilesTyped
      <3>5. LastWord' /\ PastTypes' /\ machine' = machine
        BY <1>1, <1>2, <1>3, <3>1, Carried DEF PastTypes, Write
      <3> QED
        BY <3>2, <3>3, <3>4, <3>5
    <2>2. CASE SysfsWrite(r, root) # "ok"
      <3>1. UNCHANGED <<deviceVars, hwVars, pastVars>>
        BY <1>4, <2>2
      <3>2. UNCHANGED <<handler, profileOf, watched, woken, parted>>
        BY <3>1 DEF deviceVars
      <3>3. DeviceTypes' /\ HardwareTypes' /\ machine' = machine
        BY <1>1, <3>1, <3>2, HandlersStay
           DEF DeviceTypes, HardwareTypes, hwVars
      <3>4. PastTypes'
        BY <1>1, <3>1 DEF TypeOK, PastTypes, pastVars
      <3> QED
        BY <1>1, <1>3, <3>1, <3>2, <3>3, <3>4, SettingsStay
    <2> QED
      BY <2>1, <2>2
  <1>6. job' \in [Callers -> Job] /\ StillInRange'
    BY <1>3, <1>5, JobsEnd DEF IInv
  <1>7. GuiTypes' /\ SlidersFollowFirmware' /\ WatchFollowsDevice'
          /\ SameRanges'
    BY <1>3, <1>5, SlidersStay, WatchStays, RangesStay DEF IInv
  <1>8. DaemonTypes'
    BY <1>1, <1>3 DEF DaemonTypes
  <1> QED
    BY <1>5, <1>6, <1>7, <1>8 DEF IInv, TypeOK, PastTypes

\* A slider, moved.
LEMMA SlideStep ==
  ASSUME IInv, NEW a \in KnownAttrs, Slide(a)
  PROVE  IInv'
  <1>1. sliders.bounds[a] \in Slider
    BY DEF Slide, IInv, TypeOK, GuiTypes
  <1>2. PICK i \in Positions(sliders.bounds[a]), verdict \in Verdicts :
          LET r == [op |-> "ppt", attr |-> a, arg |-> AsWord(i)]
          IN  Serve(r, Handled(r, verdict))
    BY DEF Slide
  <1> DEFINE r == [op |-> "ppt", attr |-> a, arg |-> AsWord(i)]
  <1>3. AsWord(i) \in Word
    BY <1>1, PositionTyped
  <1>4. Request(r)
    BY <1>3 DEF Request, Setters
  <1>5. Serve(r, Handled(r, verdict))
    BY <1>2
  <1> HIDE DEF r
  <1>6. up' = up /\ owed' = owed /\ job' = job /\ UNCHANGED guiVars
    BY DEF Slide
  <1>7. /\ DeviceTypes' /\ HardwareTypes' /\ DaemonTypes'
        /\ PastTypes' /\ LastWord' /\ Keeps
        /\ UNCHANGED <<handler, watched, parted, machine>>
    BY <1>4, <1>5, <1>6, Served DEF IInv
  <1>8. job' \in [Callers -> Job] /\ StillInRange'
    BY <1>6, <1>7, JobsEnd DEF IInv
  <1>9. GuiTypes' /\ SlidersFollowFirmware' /\ WatchFollowsDevice'
          /\ SameRanges'
    BY <1>6, <1>7, SlidersStay, WatchStays, RangesStay DEF IInv
  <1> QED
    BY <1>7, <1>8, <1>9 DEF IInv, TypeOK, PastTypes

\* A reapplication brings settings back to what the daemon has them down as,
\* and leaves the others as they are.
LEMMA Reapplied ==
  ASSUME IInv, Reapply
  PROVE  /\ HardwareTypes' /\ ProfilesTyped' /\ PastTypes' /\ LastWord'
         /\ GuiTypes' /\ SlidersFollowFirmware' /\ SameRanges'
         /\ job' \in [Callers -> Job] /\ StillInRange'
         /\ UNCHANGED <<handler, mem>>
  <1> DEFINE set == CanSetProfile(mem.profile)
  <1>1. TypeOK /\ DeviceTypes /\ HardwareTypes /\ DaemonTypes /\ LastWord
    BY DEF IInv, TypeOK
  <1>2. /\ handler' = handler /\ machine' = machine /\ toggle' = toggle
        /\ led' = led /\ mem' = mem /\ job' = job /\ lastSet' = lastSet
        /\ UNCHANGED guiVars
    BY DEF Reapply
  <1>3. /\ profileOf' = IF set
                        THEN [profileOf EXCEPT ![DeviceDir] = mem.profile]
                        ELSE profileOf
        /\ attrs' = [a \in Attrs |->
                       IF Restored(a)
                       THEN [attrs[a] EXCEPT !.current = mem.ppt[a]]
                       ELSE attrs[a]]
        /\ battery' = IF Restored("battery") THEN mem.battery ELSE battery
        /\ lost' = {s \in lost : ~Restored(s)}
    BY DEF Reapply
  <1>4. set => /\ DeviceDir \in Registered /\ DeviceDir \in Slots
               /\ mem.profile \in Choices[handler[DeviceDir]]
    BY <1>1, DeviceDirIs DEF CanSetProfile, Registered
  <1> HIDE DEF set
  <1>5. ProfilesTyped' /\ Registered' = Registered /\ DeviceDir' = DeviceDir
    <2>1. Registered' = Registered /\ DeviceDir' = DeviceDir
      BY <1>2, HandlersStay
    <2> QED
      BY <1>1, <1>2, <1>3, <1>4, <2>1 DEF ProfilesTyped, DeviceTypes
  <1>6. ASSUME NEW a \in Attrs
        PROVE  /\ Kept(a) /\ attrs'[a] \in Attribute \cup {None}
               /\ attrs'[a].current = IF Restored(a) THEN mem.ppt[a]
                                      ELSE attrs[a].current
    <2>1. CASE Restored(a)
      <3>1. a # "battery"
        BY ValueAssumption
      <3>2. Listed(a) /\ mem.ppt[a] \in Word
        BY <1>1, <2>1, <3>1 DEF Restored, DaemonTypes
      <3>3. attrs'[a] = [attrs[a] EXCEPT !.current = mem.ppt[a]]
        BY <1>3, <2>1
      <3> QED
        BY <1>1, <2>1, <3>2, <3>3, ValueKeeps
    <2>2. CASE ~Restored(a)
      <3>1. attrs'[a] = attrs[a]
        BY <1>3, <2>2
      <3> QED
        BY <1>1, <2>2, <3>1, SameKeeps DEF HardwareTypes
    <2> QED
      BY <2>1, <2>2
  <1>7. Keeps
    BY <1>6 DEF Keeps
  <1>8. HardwareTypes'
    <2>1. attrs' \in [Attrs -> Attribute \cup {None}]
      BY <1>3, <1>6
    <2>2. Restored("battery") => mem.battery \in DriverModes
      BY ValueAssumption DEF Restored
    <2>3. battery' \in Modes \cup {None}
      BY <1>1, <1>3, <2>2, ValueAssumption DEF HardwareTypes
    <2> QED
      BY <1>1, <1>2, <2>1, <2>3 DEF HardwareTypes
  <1>9. ASSUME NEW s \in Tracked
        PROVE  /\ InMind(s)' = InMind(s)
               /\ \/ Now(s)' = InMind(s)
                  \/ Now(s)' = Now(s) /\ (s \in lost => s \in lost')
    <2>1. InMind(s)' = InMind(s)
      BY <1>2 DEF InMind
    <2>2. CASE s = "profile"
      <3>1. CurrentProfile' \in {CurrentProfile, mem.profile}
        BY <1>1, <1>3, <1>4, <1>5 DEF CurrentProfile, DeviceTypes
      <3>2. s \notin lost
        BY <1>1, <2>2 DEF TypeOK
      <3> QED
        BY <2>1, <2>2, <3>1, <3>2, TrackedNames DEF Now, InMind
    <2>3. CASE s = "battery"
      BY <1>3, <2>1, <2>3, TrackedNames DEF Now, InMind
    <2>4. CASE s \in Attrs
      <3>1. Now(s)' = attrs'[s].current /\ Now(s) = attrs[s].current
              /\ InMind(s) = mem.ppt[s]
        BY <2>4, TrackedNames DEF Now, InMind
      <3> QED
        BY <1>3, <1>6, <2>1, <2>4, <3>1
    <2> QED
      BY <2>2, <2>3, <2>4, TrackedNames
  <1>10. LastWord'
    <2>1. ASSUME NEW s \in Tracked PROVE WordHolds(s)'
      BY <1>1, <1>2, <1>9, WordStays DEF LastWord
    <2> QED
      BY <2>1 DEF LastWord
  <1>11. /\ GuiTypes' /\ SlidersFollowFirmware' /\ SameRanges'
         /\ job' \in [Callers -> Job] /\ StillInRange'
    BY <1>2, <1>7, SlidersStay, JobsEnd, RangesStay DEF IInv
  <1>12. PastTypes'
    BY <1>1, <1>2, <1>3 DEF TypeOK, PastTypes
  <1> QED
    BY <1>2, <1>5, <1>8, <1>10, <1>11, <1>12

\* The start: the watcher opens on the device that was just written.
LEMMA StartStep ==
  ASSUME IInv, DaemonStarts
  PROVE  IInv'
  <1>1. TypeOK /\ DeviceTypes /\ DaemonTypes
    BY DEF IInv, TypeOK
  <1>2. Reapply /\ up' = TRUE /\ owed' = FALSE /\ OpenWatch(NextProfile)
    BY DEF DaemonStarts
  <1>3. /\ HardwareTypes' /\ ProfilesTyped' /\ PastTypes' /\ LastWord'
        /\ GuiTypes' /\ SlidersFollowFirmware' /\ SameRanges'
        /\ job' \in [Callers -> Job] /\ StillInRange'
        /\ handler' = handler /\ mem' = mem
    BY <1>2, Reapplied
  <1>4. DeviceDir' = DeviceDir /\ Registered' = Registered
    BY <1>3, HandlersStay
  <1>5. DeviceTypes'
    <2>1. watched' \in Registered \cup {NoDevice} /\ woken' = FALSE
            /\ parted' \in BOOLEAN
      BY <1>1, <1>2, DeviceDirIs DEF OpenWatch, OpenDevice
    <2> QED
      BY <1>1, <1>3, <1>4, <2>1 DEF DeviceTypes, ProfilesTyped
  <1>6. WatchFollowsDevice'
    BY <1>2, <1>4 DEF WatchFollowsDevice, OpenWatch, OpenDevice
  <1>7. DaemonTypes'
    BY <1>1, <1>2, <1>3 DEF DaemonTypes
  <1> QED
    BY <1>3, <1>5, <1>6, <1>7 DEF IInv, TypeOK, PastTypes

\* The sleep arm: the watcher stays where it is.
LEMMA ResumeStep ==
  ASSUME IInv, DaemonResumes
  PROVE  IInv'
  <1>1. TypeOK /\ DeviceTypes /\ DaemonTypes
    BY DEF IInv, TypeOK
  <1>2. /\ Reapply /\ up' = up /\ owed' = FALSE
        /\ watched' = watched /\ parted' = parted /\ woken' \in BOOLEAN
    BY <1>1 DEF DaemonResumes, Wake, watchVars, DeviceTypes
  <1>3. /\ HardwareTypes' /\ ProfilesTyped' /\ PastTypes' /\ LastWord'
        /\ GuiTypes' /\ SlidersFollowFirmware' /\ SameRanges'
        /\ job' \in [Callers -> Job] /\ StillInRange'
        /\ handler' = handler /\ mem' = mem
    BY <1>2, Reapplied
  <1>4. DeviceTypes'
    BY <1>1, <1>2, <1>3, HandlersStay DEF DeviceTypes, ProfilesTyped
  <1>5. WatchFollowsDevice'
    BY <1>2, <1>3, WatchStays DEF IInv
  <1>6. DaemonTypes'
    BY <1>1, <1>2, <1>3 DEF DaemonTypes
  <1> QED
    BY <1>3, <1>4, <1>5, <1>6 DEF IInv, TypeOK, PastTypes

\* The daemon stops, and its watcher reads: settings are left alone.
LEMMA DaemonStep ==
  ASSUME IInv, DaemonStops \/ WatcherReads
  PROVE  IInv'
  <1>1. TypeOK /\ DeviceTypes /\ HardwareTypes /\ DaemonTypes /\ LastWord
    BY DEF IInv, TypeOK
  <1>2. /\ handler' = handler /\ profileOf' = profileOf /\ mem' = mem
        /\ job' = job /\ UNCHANGED pastVars
        /\ UNCHANGED hwVars /\ UNCHANGED guiVars
    BY DEF DaemonStops, WatcherReads, Consume, daemonVars
  <1>3. LastWord' /\ Keeps
    BY <1>1, <1>2, SettingsStay
  <1>4. /\ watched' \in {watched, NoDevice} /\ woken' = FALSE
        /\ parted' \in BOOLEAN /\ up' \in BOOLEAN /\ owed' \in BOOLEAN
    BY <1>1 DEF DaemonStops, WatcherReads, Consume, CloseWatch, daemonVars,
                DeviceTypes, DaemonTypes
  <1>5. DeviceTypes' /\ HardwareTypes' /\ DaemonTypes'
    BY <1>1, <1>2, <1>4, HandlersStay
       DEF DeviceTypes, HardwareTypes, DaemonTypes, hwVars
  <1>6. WatchFollowsDevice'
    <2>1. CASE DaemonStops
      BY <2>1 DEF DaemonStops, WatchFollowsDevice
    <2>2. CASE WatcherReads
      BY <2>2, WatchStays DEF WatcherReads, Consume, daemonVars, IInv
    <2> QED
      BY <2>1, <2>2
  <1>7. /\ GuiTypes' /\ SlidersFollowFirmware'
        /\ job' \in [Callers -> Job] /\ StillInRange'
    BY <1>2, <1>3, SlidersStay, JobsEnd DEF IInv
  <1>8. SameRanges' /\ PastTypes'
    BY <1>2, <1>3, RangesStay DEF IInv, TypeOK, PastTypes, hwVars, pastVars
  <1> QED
    BY <1>3, <1>5, <1>6, <1>7, <1>8 DEF IInv, TypeOK, PastTypes

\* The dashboard draws its sliders, or panics over them.
LEMMA RefreshStep ==
  ASSUME IInv, Refresh
  PROVE  IInv'
  <1>1. TypeOK /\ DeviceTypes /\ HardwareTypes /\ DaemonTypes /\ LastWord
    BY DEF IInv, TypeOK
  <1>2. UNCHANGED <<handler, profileOf, watched, woken, parted, up, owed, mem>>
          /\ job' = job /\ UNCHANGED pastVars /\ UNCHANGED hwVars
    BY DEF Refresh, deviceVars, daemonVars
  <1>3. /\ LastWord' /\ Keeps /\ WatchFollowsDevice'
        /\ SameRanges' /\ PastTypes'
    <2>1. LastWord' /\ Keeps /\ WatchFollowsDevice'
      BY <1>1, <1>2, SettingsStay, WatchStays DEF IInv
    <2> QED
      BY <1>2, <2>1, RangesStay DEF IInv, TypeOK, PastTypes, hwVars, pastVars
  <1>4. DeviceTypes' /\ HardwareTypes' /\ DaemonTypes'
    BY <1>1, <1>2, HandlersStay
       DEF DeviceTypes, HardwareTypes, DaemonTypes, hwVars
  <1>5. job' \in [Callers -> Job] /\ StillInRange'
    BY <1>2, <1>3, JobsEnd DEF IInv
  <1>6. ASSUME NEW a \in KnownAttrs
        PROVE  /\ Listed(a)' = Listed(a) /\ Info(a)' = Info(a)
               /\ Listed(a) => Info(a) \in AttrInfo
    <2>1. attrs' = attrs
      BY <1>2 DEF hwVars
    <2>2. Listed(a) => attrs[a] \in Attribute /\ Readable(attrs[a])
      BY <1>1, ValueAssumption DEF HardwareTypes, Listed
    <2> QED
      BY <2>1, <2>2, ReadTyped DEF Listed, Info
  <1>7. CASE /\ window' = "dead"
             /\ \E a \in KnownAttrs : Listed(a) /\ Panics(Info(a))
    <2>1. PICK a \in KnownAttrs : Listed(a) /\ Panics(Info(a))
      BY <1>7
    <2>2. Listed(a)' /\ Overturned(Info(a)')
      BY <1>6, <2>1, PanicsExactly
    <2> QED
      BY <1>3, <1>4, <1>5, <1>7, <2>2
         DEF IInv, TypeOK, PastTypes, GuiTypes, SlidersFollowFirmware
  <1>8. CASE /\ window' = "open"
             /\ sliders' = [enabled |-> CurrentProfile = Custom,
                            bounds  |-> [a \in KnownAttrs |-> Find(a)]]
    <2>1. \A a \in KnownAttrs : Find(a) \in Slider
      BY <1>6, SliderTyped DEF Find
    <2>2. GuiTypes'
      BY <1>8, <2>1 DEF GuiTypes
    <2>3. ASSUME NEW a \in KnownAttrs, Listed(a)', Sensible(Info(a)')
          PROVE  LET slider == sliders'.bounds[a] IN
                 /\ slider.min = Info(a)'.min /\ slider.max = Info(a)'.max
                 /\ slider.value \in Positions(slider)
                 /\ \A i \in Positions(slider) : InRange(Info(a)', AsWord(i))
      <3>1. sliders'.bounds[a] = FromAttr(Info(a))
        BY <1>6, <1>8, <2>3 DEF Find
      <3> QED
        BY <1>6, <2>3, <3>1, SliderIsExact
    <2>4. SlidersFollowFirmware'
      BY <1>8, <2>3 DEF SlidersFollowFirmware
    <2> QED
      BY <1>3, <1>4, <1>5, <2>2, <2>4 DEF IInv, TypeOK, PastTypes
  <1> QED
    BY <1>7, <1>8 DEF Refresh

\* Handlers come and go and Fn+Q is pressed: no limit and no file is touched.
LEMMA OutsideStep ==
  ASSUME IInv, Outside
  PROVE  IInv'
  <1>1. TypeOK /\ DeviceTypes /\ HardwareTypes /\ DaemonTypes /\ LastWord
    BY DEF IInv, TypeOK
  <1>2. /\ UNCHANGED hwVars /\ up' = up /\ owed' = owed /\ mem' = mem
        /\ job' = job /\ lost' = lost /\ UNCHANGED guiVars /\ Overtaken
    BY DEF Outside, daemonVars
  <1>3. machine.modules \subseteq Drivers
    BY <1>1, MachineAssumption DEF HardwareTypes
  <1>4. DeviceTypes' /\ WatchFollowsDevice'
    <2>1. ASSUME NEW d \in Drivers, Register(d)
          PROVE  DeviceTypes' /\ WatchFollowsDevice'
      <3> DEFINE n == Least(Slots \ Registered)
      <3>1. n \in Slots \ Registered
        <4>1. Slots \ Registered \in SUBSET Nat /\ Slots \ Registered # {}
          BY <2>1, DeviceAssumption DEF Register
        <4> QED
          BY <4>1, LeastIs
      <3>2. /\ handler' = [handler EXCEPT ![n] = d]
            /\ watched' = watched /\ woken' = woken
            /\ parted' = (parted \/ Displaces(n, d))
        BY <2>1 DEF Register
      <3>3. PICK p \in Choices[d] : profileOf' = [profileOf EXCEPT ![n] = p]
        BY <2>1 DEF Register, WriteProfile
      <3> HIDE DEF n
      <3>4. Registered' = Registered \cup {n} /\ d # NoDevice
        BY <1>1, <3>1, <3>2, DeviceAssumption DEF DeviceTypes, Registered
      <3>5. DeviceTypes'
        <4>1. parted' \in BOOLEAN
          BY <1>1, <3>2 DEF DeviceTypes, Displaces
        <4> QED
          BY <1>1, <3>1, <3>2, <3>3, <3>4, <4>1 DEF DeviceTypes
      <3>6. WatchFollowsDevice'
        <4>1. up' /\ ~parted' =>
                up /\ ~parted /\ watched = DeviceDir /\ watched # NoDevice
          BY <1>2, <3>2 DEF IInv, WatchFollowsDevice
        <4> QED
          BY <1>1, <2>1, <3>2, <4>1, RegisterKeeps DEF WatchFollowsDevice
      <3> QED
        BY <3>5, <3>6
    <2>2. ASSUME NEW i \in Slots, Unregister(i)
          PROVE  DeviceTypes' /\ WatchFollowsDevice'
      <3>1. /\ i \in Registered
            /\ handler' = [handler EXCEPT ![i] = NoDevice]
            /\ profileOf' = [profileOf EXCEPT ![i] = NoDevice]
            /\ parted' = (parted \/ watched = i)
            /\ watched' = IF watched = i THEN NoDevice ELSE watched
            /\ woken' = (woken /\ watched # i)
        BY <2>2 DEF Unregister, WriteProfile
      <3>2. Registered' = Registered \ {i}
        BY <1>1, <3>1 DEF DeviceTypes, Registered
      <3>3. DeviceTypes'
        BY <1>1, <3>1, <3>2 DEF DeviceTypes
      <3>4. up' /\ ~parted' =>
              /\ up /\ ~parted /\ watched = DeviceDir /\ watched # NoDevice
              /\ watched' = watched
        BY <1>2, <3>1 DEF IInv, WatchFollowsDevice
      <3>5. WatchFollowsDevice'
        BY <1>1, <2>2, <3>4, UnregisterKeeps DEF WatchFollowsDevice
      <3> QED
        BY <3>3, <3>5
    <2>3. ASSUME FnQ PROVE DeviceTypes' /\ WatchFollowsDevice'
      <3>1. PICK i \in Registered, p \in UNION {Choices[d] : d \in Drivers} :
              /\ p \in Choices[handler[i]]
              /\ profileOf' = [profileOf EXCEPT ![i] = p]
              /\ Wake(i) /\ handler' = handler
        <4>1. PICK i \in Registered :
                /\ \E p \in Choices[handler[i]] \ {profileOf[i]} :
                     WriteProfile(i, p)
                /\ Wake(i) /\ handler' = handler
          BY <2>3 DEF FnQ
        <4>2. handler[i] \in Drivers
          BY <1>1 DEF DeviceTypes, Registered
        <4> QED
          BY <4>1, <4>2 DEF WriteProfile
      <3>2. watched' = watched /\ parted' = parted /\ woken' \in BOOLEAN
        BY <1>1, <3>1 DEF Wake, DeviceTypes
      <3>3. DeviceTypes'
        BY <1>1, <3>1, <3>2, HandlersStay DEF DeviceTypes
      <3>4. WatchFollowsDevice'
        BY <1>2, <3>1, <3>2, WatchStays DEF IInv
      <3> QED
        BY <3>3, <3>4
    <2> QED
      BY <1>3, <2>1, <2>2, <2>3 DEF Outside
  <1>5. PastTypes'
    BY <1>1, <1>2 DEF Overtaken, TypeOK, PastTypes
  <1>6. LastWord'
    <2>1. ASSUME NEW s \in Tracked
          PROVE  /\ InMind(s)' = InMind(s)
                 /\ s # "profile" => Now(s)' = Now(s)
                 /\ s # "profile" => lastSet'[s] = lastSet[s]
      BY <1>1, <1>2, TrackedNames DEF InMind, Now, Overtaken, hwVars, TypeOK
    <2>2. \/ Now("profile")' = Now("profile")
             /\ lastSet'["profile"] = lastSet["profile"]
          \/ lastSet'["profile"].by = "nobody"
      BY <1>1, <1>2, TrackedNames DEF Now, Overtaken, Nobody, TypeOK
    <2>3. machine' = machine
      BY <1>2 DEF hwVars
    <2>4. ASSUME NEW s \in Tracked PROVE WordHolds(s)'
      <3>1. CASE /\ lastSet'[s] = lastSet[s] /\ Now(s)' = Now(s)
        BY <1>1, <1>2, <2>1, <2>3, <3>1, WordStays DEF LastWord
      <3>2. CASE lastSet'[s].by = "nobody"
        BY <3>2 DEF WordHolds
      <3> QED
        BY <2>1, <2>2, <3>1, <3>2
    <2> QED
      BY <2>4 DEF LastWord
  <1>7. Keeps
    BY <1>2, SameKeeps DEF Keeps, hwVars
  <1>8. /\ GuiTypes' /\ SlidersFollowFirmware'
        /\ job' \in [Callers -> Job] /\ StillInRange'
    BY <1>2, <1>7, SlidersStay, JobsEnd DEF IInv
  <1>9. HardwareTypes' /\ DaemonTypes' /\ SameRanges'
    BY <1>1, <1>2, <1>7, RangesStay
       DEF HardwareTypes, DaemonTypes, hwVars, IInv
  <1> QED
    BY <1>4, <1>5, <1>6, <1>8, <1>9 DEF IInv, TypeOK, PastTypes

\* The firmware forgets, but no range.
LEMMA SleepStep ==
  ASSUME IInv, Sleep
  PROVE  IInv'
  <1>1. TypeOK /\ DeviceTypes /\ HardwareTypes /\ DaemonTypes /\ LastWord
    BY DEF IInv, TypeOK
  <1>2. /\ UNCHANGED <<handler, profileOf, watched, woken, parted>>
        /\ UNCHANGED <<machine, toggle, led, up, mem, job, lastSet>>
        /\ UNCHANGED guiVars
        /\ battery' = machine.battery /\ attrs' = machine.attrs
        /\ lost' = {s \in Tracked \ {"profile"} : lastSet[s] # Nobody}
        /\ owed' \in BOOLEAN
    BY <1>1 DEF Sleep, deviceVars, DaemonTypes
  <1>3. DeviceTypes' /\ HardwareTypes' /\ DaemonTypes' /\ PastTypes'
    BY <1>1, <1>2, HandlersStay, MachineAssumption
       DEF DeviceTypes, HardwareTypes, DaemonTypes, TypeOK, PastTypes
  <1>4. Keeps
    <2>1. ASSUME NEW a \in Attrs PROVE Kept(a)
      <3>1. attrs'[a] = machine.attrs[a]
        BY <1>2
      <3> DEFINE stated == machine.attrs[a]
      <3>2. /\ Listed(a) <=> stated # None /\ Readable(stated)
            /\ Listed(a) => /\ Info(a).min = ReadByName(stated).min
                            /\ Info(a).max = ReadByName(stated).max
        BY DEF IInv, SameRanges
      <3> QED
        BY <3>1, <3>2 DEF Kept, Listed, Info, Readable, ReadByName
    <2> QED
      BY <2>1 DEF Keeps
  <1>5. LastWord'
    <2>1. ASSUME NEW s \in Tracked PROVE WordHolds(s)'
      <3>1. lastSet'[s] = lastSet[s] /\ InMind(s)' = InMind(s)
        BY <1>2 DEF InMind
      <3>2. CASE s = "profile"
        <4>1. Now(s)' = Now(s)
          BY <1>2, <3>2, HandlersStay DEF Now, CurrentProfile
        <4>2. s \notin lost
          BY <1>1, <3>2 DEF TypeOK
        <4> QED
          BY <1>1, <1>2, <3>1, <4>1, <4>2, WordStays DEF LastWord
      <3>3. CASE s # "profile" /\ lastSet[s] = Nobody
        <4>1. lastSet'[s].by = "nobody"
          BY <3>1, <3>3 DEF Nobody
        <4> QED
          BY <4>1 DEF WordHolds
      <3>4. CASE s # "profile" /\ lastSet[s] # Nobody
        <4>1. s \in lost'
          BY <1>2, <3>4
        <4>2. Now(s)' = Firmware(s) /\ Firmware(s)' = Firmware(s)
          BY <1>2, <3>4, TrackedNames DEF Now, Firmware
        <4> QED
          BY <1>1, <3>1, <4>1, <4>2 DEF LastWord, WordHolds
      <3> QED
        BY <3>2, <3>3, <3>4
    <2> QED
      BY <2>1 DEF LastWord
  <1>6. /\ GuiTypes' /\ SlidersFollowFirmware' /\ SameRanges'
        /\ job' \in [Callers -> Job] /\ StillInRange'
    BY <1>2, <1>4, SlidersStay, JobsEnd, RangesStay DEF IInv
  <1>7. WatchFollowsDevice'
    BY <1>2, WatchStays DEF IInv
  <1> QED
    BY <1>3, <1>5, <1>6, <1>7 DEF IInv, TypeOK, PastTypes

\* Every step keeps the invariant.
LEMMA NextInv == IInv /\ [Next]_vars => IInv'
  <1> SUFFICES ASSUME IInv, [Next]_vars PROVE IInv'
    OBVIOUS
  <1>1. ASSUME NEW x \in Callers,
               Connect(x) \/ Check(x) \/ CallDaemon(x) \/ CallCutOff(x)
                 \/ CallNobody(x) \/ WriteDirect(x) \/ Show(x) \/ Exit(x)
        PROVE  IInv'
    BY <1>1, CommandStep, CheckStep, CallStep, CutOffStep, DirectStep
  <1>2. ASSUME NEW a \in KnownAttrs, Slide(a) PROVE IInv'
    BY <1>2, SlideStep
  <1>3. ASSUME DaemonStarts \/ DaemonResumes \/ DaemonStops \/ WatcherReads
                 \/ Refresh \/ Outside \/ Sleep
        PROVE  IInv'
    BY <1>3, StartStep, ResumeStep, DaemonStep, RefreshStep, OutsideStep,
       SleepStep
  <1>4. ASSUME UNCHANGED vars PROVE IInv'
    <2>1. UNCHANGED <<deviceVars, hwVars, daemonVars, pastVars, guiVars>>
            /\ job' = job
      BY <1>4 DEF vars
    <2>2. Keeps
      BY <2>1, SameKeeps DEF Keeps, hwVars
    <2>3. job' \in [Callers -> Job] /\ StillInRange'
      BY <2>1, <2>2, JobsEnd DEF IInv
    <2> QED
      BY <2>1, <2>3, CommandAlone
  <1> QED
    BY <1>1, <1>2, <1>3, <1>4 DEF Next

\* IInv is an invariant.
THEOREM Invariance == Spec => []IInv
  BY InitInv, NextInv, PTL DEF Spec

\* Every variable keeps its type, and a command past its own checks is a
\* setter (commands.rs).
THEOREM TypeCorrect == Spec => []TypeOK
  <1>1. IInv => TypeOK
    BY DEF IInv
  <1> QED
    BY <1>1, Invariance, PTL

\* The watcher's file is that of the driven device (profile_watch.rs, open and
\* consume), whatever handlers come and go beside it.
THEOREM WatchFollows == Spec => []WatchFollowsDevice
  <1>1. IInv => WatchFollowsDevice
    BY DEF IInv
  <1> QED
    BY <1>1, Invariance, PTL

\* Sliders have the firmware's range and only an upper end that alone does not
\* fit an i32 stops the dashboard (state.rs, from_attr), for words of every
\* width.
THEOREM SlidersFollow == Spec => []SlidersFollowFirmware
  <1>1. IInv => SlidersFollowFirmware
    BY DEF IInv
  <1> QED
    BY <1>1, Invariance, PTL

\* A setting stays what the daemon or root made it until one of them, Fn+Q or
\* another handler changes it, or the firmware forgets it over a suspend, and
\* a reapplication brings back the daemon's (iface.rs, the setters and
\* reapply_state; main.rs, the start and the sleep arm).
THEOREM LastWordStays == Spec => []LastWordKept
  <1>1. IInv => LastWordKept
    BY DEF IInv, LastWord, WordHolds, LastWordKept
  <1> QED
    BY <1>1, Invariance, PTL

\* A command past its own checks fares alike with the daemon and with sysfs,
\* and they show alike what sysfs can read (commands.rs, backend.rs).
LEMMA WaysAgreeNow == IInv => WaysAgree
  <1> SUFFICES ASSUME IInv, NEW x \in Callers
               PROVE  LET r == job[x].cmd IN
      /\ job[x].stage = "checked" =>
           \/ Handled(r, "yes") = SysfsWrite(r, TRUE)
           \/ r.op = "ppt" /\ ~Enforced
      /\ job[x].stage = "shown" /\ up =>
           IF r.op = "status"
           THEN CurrentProfile \in Profiles \cup {NoDevice} =>
                  StatusLines("daemon") = StatusLines("direct")
           ELSE SysfsRead(r.what).answer = "ok" =>
                  Shown(r, "daemon") = Shown(r, "direct")
    BY DEF WaysAgree
  <1> DEFINE r == job[x].cmd
  <1>1. ASSUME job[x].stage = "checked", r.op = "ppt" => Enforced
        PROVE  Handled(r, "yes") = SysfsWrite(r, TRUE)
    <2>1. CASE r.op # "ppt"
      BY <2>1 DEF Handled
    <2>2. CASE r.op = "ppt" /\ CustomGate = "ok"
      BY <2>2 DEF Handled
    <2>3. CASE r.op = "ppt" /\ CustomGate # "ok"
      <3>1. CurrentProfile # Custom /\ CurrentProfile \in Profiles
              /\ machine.gated /\ CurrentProfile # NoDevice
        BY <1>1, <2>3, DeviceAssumption DEF CustomGate, Enforced
      <3>2. CustomGate = "custom"
        BY <3>1 DEF CustomGate
      <3>3. r.attr \in Attrs /\ Listed(r.attr) /\ InRange(Info(r.attr), r.arg)
        BY <1>1, <2>3 DEF IInv, StillInRange
      <3>4. ~Malformed(r) /\ ~Lacks(r)
        BY <2>3, <3>3 DEF Malformed, Lacks, Listed
      <3>5. DriverSays(r) = "custom"
        BY <2>3, <3>1 DEF DriverSays
      <3>6. SysfsWrite(r, TRUE) = "custom"
        BY <3>4, <3>5 DEF SysfsWrite
      <3> QED
        BY <2>3, <3>2, <3>6 DEF Handled
    <2> QED
      BY <2>1, <2>2, <2>3
  <1>2. ASSUME up, CurrentProfile \in Profiles \cup {NoDevice}
        PROVE  StatusLines("daemon") = StatusLines("direct")
    <2>1. DeviceTypes
      BY DEF IInv, TypeOK
    <2>2. DeviceDir # NoDevice => CurrentProfile \in Profiles
      <3>1. ASSUME DeviceDir # NoDevice PROVE CurrentProfile # NoDevice
        <4>1. DeviceDir \in Registered /\ DeviceDir \in Slots
          BY <2>1, <3>1, DeviceDirIs DEF Registered
        <4>2. CurrentProfile \in Choices[handler[DeviceDir]]
                /\ handler[DeviceDir] \in Drivers
          BY <2>1, <3>1, <4>1 DEF CurrentProfile, DeviceTypes, Registered
        <4> QED
          BY <4>2, DeviceAssumption
      <3> QED
        BY <1>2, <3>1
    <2> DEFINE Known(what, via) ==
          CASE what = "profile" ->
                 /\ via = "daemon" => up
                 /\ via = "daemon" \/ CurrentProfile \in Profiles
            [] what = "ppt" ->
                 (via = "daemon" => up) /\ \E a \in Attrs : Listed(a)
            [] OTHER -> SysfsRead(what).answer = "ok"
    <2>3. ASSUME NEW what \in Setters, Probed(what)
          PROVE  Known(what, "daemon") <=> Known(what, "direct")
      <3>1. CASE what = "profile"
        BY <1>2, <2>2, <2>3, <3>1 DEF Probed
      <3>2. CASE what = "ppt"
        BY <1>2, <3>2
      <3>3. CASE what \notin {"profile", "ppt"}
        BY <3>3
      <3> QED
        BY <3>1, <3>2, <3>3
    <2>4. ASSUME NEW via \in {"daemon", "direct"}
          PROVE  StatusLines(via) =
                   {what \in Setters : Probed(what) /\ Known(what, via)}
      BY DEF StatusLines
    <2> HIDE DEF Known
    <2> QED
      BY <2>3, <2>4
  <1>3. ASSUME job[x].stage = "shown", up, r.op # "status",
               SysfsRead(r.what).answer = "ok"
        PROVE  Shown(r, "daemon") = Shown(r, "direct")
    <2>1. r.op = "show"
      BY <1>3, CommandAssumption DEF IInv, TypeOK, Job, Idle
    <2>2. Shown(r, "direct") = SysfsRead(r.what)
      BY <2>1 DEF Shown
    <2>3. Shown(r, "daemon") = PropertyRead(r.what)
      BY <1>3, <2>1 DEF Shown
    <2>4. PropertyRead(r.what) = SysfsRead(r.what)
      BY <1>3 DEF PropertyRead
    <2> QED
      BY <2>2, <2>3, <2>4
  <1> QED
    BY <1>1, <1>2, <1>3

\* "behaviour is identical either way" (commands.rs), for every command and
\* machine, with the exceptions that WaysAgree names.
THEOREM EitherWay == Spec => []WaysAgree
  BY WaysAgreeNow, Invariance, PTL
=============================================================================
