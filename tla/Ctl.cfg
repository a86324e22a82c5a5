SPECIFICATION Spec
CONSTANTS
    quiet = quiet
    custom = custom
    odd = odd
    legion = legion
    standard = standard
    long_life = long_life
    fast = fast
    spl = spl
    fppt = fppt
    raw_attr = raw_attr
    gamezone = gamezone
    x1 = x1
    Half = 4
    Missing = Missing
    Slots = {0, 1}
    Drivers = {gamezone, legion}
    Gamezone = gamezone
    Choices <- KnownChoices
    Profiles = {quiet, custom}
    NoDevice = NoDevice
    Callers = {x1}
    Commands <- TestCommands
    Verdicts = {"yes", "no"}
    Custom = custom
    Modes = {standard, long_life, fast}
    DriverModes = {standard, long_life}
    LedMax = 1
    Attrs = {spl, fppt, raw_attr}
    KnownAttrs = {spl, fppt}
    Machines <- TestMachines
    None = None
    Junk = Junk
INVARIANTS
    TypeOK
    WaysAgree
    LastWordKept
    WatchFollowsDevice
    SlidersFollowFirmware
