\* Two calls of one process on the in-memory stores, around the approval gate.
SPECIFICATION SpecAtGate
CONSTANTS
  m1 = m1
  Mission = {m1}
  Worker = {w1, w2}
  Key = {k1}
  NoKey = NoKey
  Commands <- GateCommands
  Backends = {"memory"}
  PlanSteps = 1
  MaxVersion = 6
  MaxFaults = 0
  MaxFence = 0
PROPERTIES
  ExpectedVersionHonoured
