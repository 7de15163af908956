SPECIFICATION FairSpec
CONSTANTS
    Namespaces = {n1}
    Providers = {"bundled"}
    Existing = {}
    Theirs = {}
    MaxPlatforms = 2
    MaxEdits = 0
    MaxMishaps = 3
    Faults = {"write", "delete", "status", "crash", "outage"}
    NoNs = NoNs
PROPERTY InstallCompletes
PROPERTY DeletionCompletes
CHECK_DEADLOCK FALSE
