\* Two missions of the atomic protocol, with the plan length of every intent.
\* A mission at the end of its life takes no step: deadlock is not an error.
SPECIFICATION LifecycleFairSpec
CONSTANTS
  Missions = {m1, m2}
  PlanSteps = 3
INVARIANTS
  ApprovalSeesWholePlan
PROPERTIES
  CompletionIsDecided
  PlanIsStaged
CHECK_DEADLOCK FALSE
