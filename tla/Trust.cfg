\* Two approvers and a third person, a key rotated under its own identifier; a
\* skill of three versions.
SPECIFICATION TrustSpec
CONSTANTS
    Person = {"ann", "bea", "cyd"}
    Scope = {"own", "other"}
    Content = {"c", "d"}
    KeyId = {"k"}
    Public = {"old", "new"}
    PlanSteps = 1
    MaxTime = 2
    MaxKeys = 2
    MaxAssignments = 2
    Context <- MCContext
    GateLists <- MCGateLists
    Given <- MCGiven
    NewKeys <- MCNewKeys
    FirstKey <- MCFirstKey
    SkillId = {"igv"}
    Jurisdiction = {"PE", "CL"}
    Definition <- MCDefinition
    Signer = {"s1"}
    MaxDate = 2
    MaxRegistered = 3
    MaxPacks = 3
    MaxPinned = 1
CONSTRAINT Apart
INVARIANT PinsHold
INVARIANT DualApprovalIsReal
INVARIANT TrustIsLostForGood
PROPERTY OthersNeverGrant
PROPERTY HistoryStands
