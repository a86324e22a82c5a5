SPECIFICATION Spec
CONSTANTS
    quiet = quiet
    balanced = balanced
    Profiles = {quiet, balanced}
    NoProfile = NoProfile
    Mishaps = {"no host"}
    MaxRequests = 1
    MaxEvents = 1
    MaxSignals = 1
SYMMETRY Symmetry
VIEW WithoutOpened
INVARIANTS
    TypeOK
    WindowIsCurrent
    TrayLeadsWindow
    ClicksAreHeard
