SPECIFICATION Spec
CONSTANTS
    Namespaces = {n1, n2}
    Providers = {"bundled", "external"}
    Existing = {n2}
    Theirs = {n2}
    MaxPlatforms = 1
    MaxEdits = 1
    MaxMishaps = 2
    Faults = {"write", "delete", "crash", "status", "namespace", "release", "ratelimit"}
    NoNs = NoNs
INVARIANT DependenciesPresent
INVARIANT ReadyIsInstalled
CHECK_DEADLOCK FALSE
