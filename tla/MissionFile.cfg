\* Two processes over one file with two missions and five events.
SPECIFICATION Spec
CONSTANTS
    PlanSteps = 1
    Mission = {m1, m2}
    Key = {"k1"}
    Process = {p1, p2}
    MaxEvents = 5
SYMMETRY Interchangeable
INVARIANT FileIsConsistent
INVARIANT OnlyOverlapLoses
INVARIANT RecoveryAgrees
