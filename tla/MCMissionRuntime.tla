--------------------------- MODULE MCMissionRuntime ---------------------------
(***************************************************************************)
(* Small instances of MissionRuntime: the commands its clients send.       *)
(***************************************************************************)
EXTENDS MissionRuntime, TLC

CONSTANTS m1

Send(type, expected, resolution) ==
  [type |-> type, mission |-> m1, expected |-> expected,
   resolution |-> resolution]

\* Every kind of command, execute also with the version a client believes
\* current, the one before the gate (PlanSteps = 2).
AllCommands ==
  {Send("execute", NoVersion, "RUNNING"), Send("execute", 5, "RUNNING"),
   Send("approve", NoVersion, "RUNNING"), Send("reject", NoVersion, "RUNNING"),
   Send("reconcile", NoVersion, "COMPLETED"), Send("reconcile", NoVersion, "QUEUED")}

\* At the approval gate: the decision on the version that waits, the same
\* decision without a version, and the execute that withdraws the proposal.
GateCommands ==
  {Send("approve", 4, "RUNNING"), Send("approve", NoVersion, "RUNNING"),
   Send("execute", NoVersion, "RUNNING")}

\* A mission that four operations have brought to its approval gate, with the
\* events they logged (PlanSteps = 1), so that a small bound on the version
\* leaves room for what concurrent calls do there.
Executed(s) == Successor(s, Send("execute", NoVersion, "RUNNING"))
PathToGate ==
  <<Draft, Executed(Draft), Executed(Executed(Draft)), Executed(Executed(Executed(Draft)))>>

InitAtGate ==
  /\ backend \in Backends
  /\ mission = [m \in Mission |-> PathToGate[4]]
  /\ log = [m \in Mission |->
              [i \in 1..4 |-> [type |-> "STATE_TRANSITION", snapshot |-> PathToGate[i]]]]
  /\ idem = [k \in Key |-> Free]
  /\ fence = [m \in Mission |-> 0]
  /\ Quiet

SpecAtGate == InitAtGate /\ [][Next]_vars

WorkerSymmetry == Permutations(Worker)
=============================================================================
