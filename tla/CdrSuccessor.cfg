\* One composer at a time, retried after crashes between its calls, while
\* clients, restarts and expiring keys get in its way.
SPECIFICATION FairSpec
CONSTANTS
  Mission = {m1, m2}
  NoMission = NoMission
  Composer = {c1}
  Steps = 3
  ExpectedStatus = "RUNNING"
  HandlerProposes <- ComplianceHandler
  CrashPlaces <- BetweenCalls
  Others = {"recovery", "client", "time"}
  MaxInterference = 2
  PlanSteps = 1
INVARIANTS
  SuccessorIsUnique
  MissionApprovedFirst
PROPERTIES
  GatedVersionApproved
  OperationConverges
