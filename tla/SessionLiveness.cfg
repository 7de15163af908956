SPECIFICATION FairSpec
CONSTANTS
    Sessions = {s1}
    Keys = {k1, k2, k3}
    Gateways = {g1}
    External = {}
    Pinned = {s1}
    Misplaced = {}
    TTLs = {1}
    FinalizerTimeout = 1
    MaxTime = 2
    RestartsUntil = 1
    Lag = {}
    Faults = {"crash", "force", "loseSecret", "regDelete", "sessionEnds"}
    NoKey = NoKey
    NoSecret = NoSecret
    NoReg = NoReg
    NoGateway = NoGateway
PROPERTY DeletionCompletes ExpiredKeyRevoked SecretRepaired KeepsKeyContract
CHECK_DEADLOCK FALSE
