\* Three interchangeable callers, two payloads, one valid key, one fault. Callers
\* stop where the bounds are reached.
SPECIFICATION Spec
CONSTANTS
    Caller = {c1, c2, c3}
    Payload = {p, q}
    Key = {"k-00000001", "short"}
    ValidKey = {"k-00000001"}
    Declared = {"submit"}
    Target = {"submit", "settle"}
    MaxRows = 3
    MaxAttempts = 1
    MaxExecutions = 3
    MaxToken = 3
    MaxFaults = 1
SYMMETRY Interchangeable
INVARIANT DeliveredOnce
INVARIANT ExecutedOnce
INVARIANT OneWorkerPasses
CHECK_DEADLOCK FALSE
