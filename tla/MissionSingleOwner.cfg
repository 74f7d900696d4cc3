\* One owner at a time, restarted after crashes; PostgreSQL or in-memory stores.
SPECIFICATION FairSpec
CONSTANTS
  m1 = m1
  Mission = {m1}
  Worker = {w1}
  Key = {k1}
  NoKey = NoKey
  Commands <- AllCommands
  Backends = {"postgres", "memory"}
  PlanSteps = 2
  MaxVersion = 8
  MaxFaults = 2
  MaxFence = 0
INVARIANTS
  AppliedOncePerCall
  LoggedHistoryIsLegal
  LogIsTheTruth
  ProposalIsCurrent
PROPERTIES
  ImplementsLifecycle
  ExecutingSettles
