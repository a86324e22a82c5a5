SPECIFICATION FairSpec
CONSTANTS
    quiet = quiet
    balanced = balanced
    Profiles = {quiet}
    NoProfile = NoProfile
    Mishaps = {"second start", "no host", "no stream"}
    MaxRequests = 1
    MaxEvents = 1
    MaxSignals = 1
PROPERTIES
    ReopeningHelps
