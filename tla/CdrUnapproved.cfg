\* One composer at a time, retried after crashes anywhere; nobody else is about.
SPECIFICATION Spec
CONSTANTS
  Mission = {m1}
  NoMission = NoMission
  Composer = {c1}
  Steps = 3
  ExpectedStatus = "RUNNING"
  HandlerProposes <- ComplianceHandler
  CrashPlaces <- Anywhere
  Others = {}
  MaxInterference = 1
  PlanSteps = 1
INVARIANTS
  MissionApprovedFirst
