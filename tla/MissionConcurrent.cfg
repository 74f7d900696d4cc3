\* Two calls at a time around the approval gate, on either backend.
SPECIFICATION SpecAtGate
CONSTANTS
  m1 = m1
  Mission = {m1}
  Worker = {w1, w2}
  Key = {k1}
  NoKey = NoKey
  Commands <- GateCommands
  Backends = {"postgres", "memory"}
  PlanSteps = 1
  MaxVersion = 6
  MaxFaults = 1
  MaxFence = 1
SYMMETRY WorkerSymmetry
INVARIANTS
  CompletedIsLogged
  InMemoryReplayAnswersPayload
