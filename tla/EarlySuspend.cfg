SPECIFICATION Spec
CONSTANTS
    c1 = c1
    c2 = c2
    quiet = quiet
    balanced = balanced
    custom = custom
    standard = standard
    long_life = long_life
    fast = fast
    spl = spl
    raw_attr = raw_attr
    camera = camera
    Profiles = {quiet, balanced, custom}
    Choices = {quiet, balanced, custom}
    Custom = custom
    Modes = {standard, long_life, fast}
    Supported = {standard, long_life}
    DefaultMode = standard
    Attrs = {spl, raw_attr}
    KnownAttrs = {spl}
    Watts = {2, 3, 9}
    MinWatts = 1
    MaxWatts = 4
    DefaultWatts = 1
    Switches = {camera}
    Levels = {0, 1, 2}
    GateBehaviour = {TRUE}
    Junk = Junk
    Absent = Absent
    Torn = Torn
    None = None
    Clients = {c1, c2}
    Main = Main
    Verdicts = {"yes", "no"}
    HasLogind = TRUE
    FnQProfiles = {quiet, balanced}
    MaxQueue = 1
    Faults = {}
    Requests <- SettingRequests
    Settable <- CameraLevels
SYMMETRY Symmetry
VIEW WithoutPast
INVARIANTS
    BatteryInForce
