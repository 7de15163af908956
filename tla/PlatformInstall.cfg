SPECIFICATION Spec
CONSTANTS
    Namespaces = {n1, n2}
    Providers = {"bundled", "external"}
    Existing = {n2}
    Theirs = {n2}
    MaxPlatforms = 2
    MaxEdits = 0
    MaxMishaps = 2
    Faults = {"write", "delete", "crash", "release", "ratelimit", "outage", "legacy", "namespace", "read"}
    NoNs = NoNs
INVARIANT TypeOK
INVARIANT DrainedWhenGone
PROPERTY ReleasesKeepContract
CHECK_DEADLOCK FALSE
