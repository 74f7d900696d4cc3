\* Two interchangeable scopes and two interchangeable ledgers.
SPECIFICATION Spec
CONSTANTS
    Scope = {a, b}
    Item = {"i1"}
    Channel = {"document", "memory"}
    Id = {"e1", ""}
    Draft <- MCDraft
    Ledger = {l1, l2}
    Payload = {"x"}
    MaxTime = 2
    MaxArtifacts = 2
    MaxEntries = 2
    MaxChain = 3
SYMMETRY Interchangeable
INVARIANT EntriesStand
INVARIANT LossIsDetected
CHECK_DEADLOCK FALSE
