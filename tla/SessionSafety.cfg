SPECIFICATION Spec
CONSTANTS
    Sessions = {s1}
    Keys = {k1, k2, k3}
    Gateways = {g1}
    External = {}
    Pinned = {s1}
    Misplaced = {}
    TTLs = {1, 2}
    FinalizerTimeout = 1
    MaxTime = 1
    RestartsUntil = 1
    Lag = {"session", "namespace"}
    Faults = {"crash", "force", "loseSecret", "regDelete", "regWrite", "sessionWrite", "sessionEnds", "editTTL", "sweepDelete"}
    NoKey = NoKey
    NoSecret = NoSecret
    NoReg = NoReg
    NoGateway = NoGateway
SYMMETRY KeySymmetry
INVARIANTS TypeOK RegistrationGuarded GuardInv
PROPERTY WindowKept
CHECK_DEADLOCK FALSE
