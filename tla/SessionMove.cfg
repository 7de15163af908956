SPECIFICATION Spec
CONSTANTS
    Sessions = {s1, s2}
    Keys = {k1, k2}
    Gateways = {g1, g2}
    External = {g2}
    Pinned = {s1}
    Misplaced = {s2}
    TTLs = {1}
    FinalizerTimeout = 1
    MaxTime = 1
    RestartsUntil = 0
    Lag = {}
    Faults = {"move", "catalog", "preSecret", "platformDelete", "secretWrite"}
    NoKey = NoKey
    NoSecret = NoSecret
    NoReg = NoReg
    NoGateway = NoGateway
SYMMETRY KeySymmetry
INVARIANT GrantFollowsGateway
PROPERTY SweepSparesLiveKeys
CHECK_DEADLOCK FALSE
