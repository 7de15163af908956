SPECIFICATION FairSpec
CONSTANTS
    Charts = {c1, c2}
    Settings = {v1}
    Deletes = TRUE
    MaxRollouts = 2
    MaxMishaps = 3
    Faults = {"api", "apply", "crash", "foreign", "delete", "rollout", "keepHistory"}
    NoValues = NoValues
    None = None
    Mixed = Mixed
INVARIANT TypeOK
INVARIANT NoChurn
INVARIANT DecisionHolds
PROPERTY GateOpensOnDesired
PROPERTY UsableRevisionKept
PROPERTY ForeignUntouched
PROPERTY KeepsContract
PROPERTY DesiredReached
PROPERTY DrainCompletes
CHECK_DEADLOCK FALSE
