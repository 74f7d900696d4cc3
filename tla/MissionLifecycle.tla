--------------------------- MODULE MissionLifecycle ---------------------------
(***************************************************************************)
(* What the mission runtime promises, with every operation atomic: a       *)
(* mission is created as a draft, moved by commands along the transition   *)
(* table, marked UNKNOWN by a recovery pass that finds it RUNNING, and     *)
(* taken back to RUNNING when the external system answers for its          *)
(* interrupted call. MissionRuntime, where an operation is a sequence of   *)
(* store calls, is shown to implement this specification while one owner   *)
(* runs at a time.                                                         *)
(*                                                                         *)
(* The state is what the protocol decides on; versions, which only count   *)
(* the steps, are left to the runtime, so this specification is            *)
(* finite-state and its liveness needs no bound.                           *)
(***************************************************************************)
EXTENDS MissionProtocol

CONSTANT Missions     \* mission identifiers

VARIABLE work     \* [Missions -> status, completed steps, proposal staged?]

Work == [status : Status \union {"NONE"}, done : 0..PlanSteps, staged : BOOLEAN]

\* The part of a snapshot this specification speaks of.
WorkOf(s) == [status |-> s.status, done |-> s.done, staged |-> s.proposal # 0]

\* A snapshot with that part, to put to the protocol's operators.
AsSnapshot(w) == [status |-> w.status, version |-> 1, done |-> w.done,
                  proposal |-> IF w.staged THEN 1 ELSE 0]

LifecycleInit == work = [m \in Missions |-> WorkOf(Absent)]

-----------------------------------------------------------------------------
\* MissionRuntime.start
Create(m) ==
  /\ work[m].status = "NONE"
  /\ work' = [work EXCEPT ![m] = WorkOf(Draft)]

\* MissionRuntime.apply, of a command that is not refused
Apply(c) ==
  LET s == AsSnapshot(work[c.mission])
  IN  /\ Admissible(s, c)
      /\ work' = [work EXCEPT ![c.mission] = WorkOf(Successor(s, c))]

\* A command on mission m, its optimistic version left out.
Request(type, m, resolution) ==
  [type |-> type, mission |-> m, expected |-> NoVersion,
   resolution |-> resolution]

Execute(m)      == Apply(Request("execute", m, "RUNNING"))
Approve(m)      == Apply(Request("approve", m, "RUNNING"))
Reject(m)       == Apply(Request("reject", m, "RUNNING"))
Reconcile(m, r) == Apply(Request("reconcile", m, r))

\* MissionRuntime.recoverIncomplete, on one mission
MarkUnknown(m) ==
  /\ work[m].status \in DefaultRecoverable
  /\ work' = [work EXCEPT ![m].status = "UNKNOWN"]

\* MissionRuntime.reconcile, when the external system confirms or denies
ResumeByEvidence(m) ==
  /\ work[m].status = "UNKNOWN"
  /\ work' = [work EXCEPT ![m].status = "RUNNING"]

LifecycleNext ==
  \E m \in Missions :
    \/ Create(m)
    \/ Execute(m)
    \/ Approve(m)
    \/ Reject(m)
    \/ \E r \in RecoveryTargets : Reconcile(m, r)
    \/ MarkUnknown(m)
    \/ ResumeByEvidence(m)

LifecycleSpec == LifecycleInit /\ [][LifecycleNext]_work

Restart == \E m \in Missions : MarkUnknown(m)

\* The drivers of a mission (the CLI user, CDR's executeSteps) send execute
\* again until the mission waits for a human, and processes stop crashing at
\* some point. Nobody owes a mission its approval, rejection or reconciliation.
LifecycleFairSpec ==
  /\ LifecycleSpec
  /\ \A m \in Missions : WF_work(Execute(m))
  /\ <>[][~Restart]_work

-----------------------------------------------------------------------------
\* Statuses and counters stay in their domains.
LifecycleTypeOK == work \in [Missions -> Work]

\* A mission whose approval is asked or decided has its whole plan staged and
\* a proposal to approve (agents/handlers.ts, stageProposal): no way round the
\* plan, through waits, restarts or reconciliation, leads to the approval gate.
ApprovalSeesWholePlan ==
  \A m \in Missions :
    work[m].status \in {"AWAITING_APPROVAL", "APPROVED", "REJECTED"} =>
      work[m].done = PlanSteps /\ work[m].staged

\* Completion is a decision: a mission completes out of APPROVED, or because a
\* reconcile command said so of an UNKNOWN one. The table also allows
\* RUNNING -> COMPLETED; no command of the runtime takes it, so the agent never
\* completes on its own (agents/handlers.ts: "nothing is approved by the agent").
CompletionIsDecided ==
  [][\A m \in Missions :
       work[m].status # "COMPLETED" /\ work'[m].status = "COMPLETED" =>
         work[m].status \in {"APPROVED", "UNKNOWN"}]_work

\* A mission under way is driven to a human: while execute keeps being sent it
\* reaches its approval gate, or is reconciled to an end
\* (agents/handlers.ts: "pause at the approval gate").
PlanIsStaged ==
  \A m \in Missions :
    work[m].status \in {"DRAFT", "QUEUED", "RUNNING", "WAITING_FOR_EVIDENCE", "UNKNOWN"}
      ~> work[m].status \in {"AWAITING_APPROVAL"} \union Terminal
=============================================================================
