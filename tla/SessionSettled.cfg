SPECIFICATION Spec
CONSTANTS
    Sessions = {s1}
    Keys = {k1, k2, k3, k4}
    Gateways = {g1}
    External = {}
    Pinned = {s1}
    Misplaced = {}
    TTLs = {1}
    FinalizerTimeout = 1
    MaxTime = 1
    RestartsUntil = 1
    Lag = {"secret", "namespace"}
    Faults = {"crash", "loseSecret", "emptySecret", "catalog", "sessionEnds", "regWrite", "secretRead", "secretWrite", "sessionWrite", "lookup", "regDelete", "nsRead"}
    NoKey = NoKey
    NoSecret = NoSecret
    NoReg = NoReg
    NoGateway = NoGateway
SYMMETRY KeySymmetry
INVARIANTS ReadyMeansServed NoGrantStranded
PROPERTY NoSilentRotation
CHECK_DEADLOCK FALSE
