SPECIFICATION Spec
CONSTANTS
    Namespaces = {n2}
    Providers = {"external"}
    Existing = {n2}
    Theirs = {n2}
    MaxPlatforms = 1
    MaxEdits = 0
    MaxMishaps = 0
    Faults = {}
    NoNs = NoNs
PROPERTY TheirReleaseKept
CHECK_DEADLOCK FALSE
