SPECIFICATION FairSpec
CONSTANTS
    quiet = quiet
    balanced = balanced
    Profiles = {quiet}
    NoProfile = NoProfile
    Mishaps = {"second start", "no stream"}
    MaxRequests = 1
    MaxEvents = 1
    MaxSignals = 1
VIEW WithoutHistory
PROPERTIES
    RequestsAreServed
    VanishedDaemonIsNoticed
