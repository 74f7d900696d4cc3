--------------------------- MODULE MissionProtocol ---------------------------
(***************************************************************************)
(* The mission protocol as pure operators: the fifteen statuses and their  *)
(* transition table (missions/status.ts, missions/transitions.ts), what    *)
(* the agents' plan handler proposes for an execute command                *)
(* (agents/handlers.ts) and how the runtime resolves a command against a   *)
(* snapshot (missions/runtime.ts, resolveTarget and nextSnapshot).         *)
(*                                                                         *)
(* A snapshot keeps the fields the protocol decides on: the status, the    *)
(* version (lastEventSequence starts equal to it and is bumped by the same *)
(* statement, so one number stands for both), the number of completed plan *)
(* steps and the version at which the staged proposal was generated (0     *)
(* when the snapshot's proposal is null).                                  *)
(***************************************************************************)
EXTENDS Naturals

CONSTANT PlanSteps          \* length of an intent plan; every plan has 3

ASSUME PlanStepsAssumption == PlanSteps \in Nat \ {0}

Status == {"DRAFT", "QUEUED", "RUNNING", "BLOCKED", "AWAITING_APPROVAL",
           "APPROVED", "REJECTED", "REVISION_REQUESTED", "COMPLETED", "FAILED",
           "UNKNOWN", "RECOVERING", "WAITING_FOR_EVIDENCE", "BLOCKED_BY_GATE",
           "RETRYING"}

Terminal == {"COMPLETED", "FAILED"}

\* What an UNKNOWN mission may be reconciled to.
RecoveryTargets == {"RUNNING", "FAILED", "COMPLETED"}

ValidTransitions ==
  [s \in Status |->
     CASE s = "DRAFT"              -> {"QUEUED"}
       [] s = "QUEUED"             -> {"RUNNING", "FAILED"}
       [] s = "RUNNING"            -> {"BLOCKED", "AWAITING_APPROVAL", "COMPLETED",
                                       "FAILED", "UNKNOWN", "WAITING_FOR_EVIDENCE",
                                       "BLOCKED_BY_GATE", "RETRYING"}
       [] s \in {"BLOCKED", "WAITING_FOR_EVIDENCE", "RECOVERING", "RETRYING"}
                                   -> {"RUNNING", "FAILED"}
       [] s = "BLOCKED_BY_GATE"    -> {"RUNNING", "AWAITING_APPROVAL", "FAILED"}
       [] s = "AWAITING_APPROVAL"  -> {"APPROVED", "REJECTED", "RUNNING"}
       [] s = "APPROVED"           -> {"COMPLETED", "FAILED"}
       [] s = "REJECTED"           -> {"REVISION_REQUESTED"}
       [] s = "REVISION_REQUESTED" -> {"QUEUED"}
       [] s = "UNKNOWN"            -> RecoveryTargets
       [] s \in Terminal           -> {}]

\* The statuses a restart marks UNKNOWN by default: those that may reach UNKNOWN.
DefaultRecoverable == {s \in Status : "UNKNOWN" \in ValidTransitions[s]}

-----------------------------------------------------------------------------
\* A mission that was never started has version 0 and the status NONE.
Absent == [status |-> "NONE", version |-> 0, done |-> 0, proposal |-> 0]
Draft  == [status |-> "DRAFT", version |-> 1, done |-> 0, proposal |-> 0]

Snapshot == [status : Status \union {"NONE"}, version : Nat,
             done : 0..PlanSteps, proposal : Nat]

\* The snapshot written after s when its contents become those of b.
NextSnapshot(s, status, b) ==
  [b EXCEPT !.status = status, !.version = s.version + 1]

\* Statuses from which the plan handler simply resumes the work.
Resumable == {"WAITING_FOR_EVIDENCE", "BLOCKED", "BLOCKED_BY_GATE", "RETRYING",
              "RECOVERING", "UNKNOWN"}

\* One more step of the plan completed, none beyond its end.
Advanced(s) == IF s.done < PlanSteps THEN s.done + 1 ELSE PlanSteps

\* Whether executing a RUNNING mission reaches the end of its plan.
PlanEndsEarly(s) == Advanced(s) >= PlanSteps - 1                    \* a mutant
PlanEnds(s) == Advanced(s) >= PlanSteps

\* stageProposal: pause at the approval gate, with a proposal of this version.
StagedAsDone(s) == [s EXCEPT !.status = "COMPLETED", !.done = Advanced(s),
                             !.proposal = s.version]                \* a mutant
StagedOneAhead(s) == [s EXCEPT !.status = "AWAITING_APPROVAL", !.done = Advanced(s),
                               !.proposal = s.version + 1]          \* a mutant
Staged(s) == [s EXCEPT !.status = "AWAITING_APPROVAL", !.done = Advanced(s),
                       !.proposal = s.version]

\* Resuming leaves the staged steps as they are.
ResumedAfresh(s) == [s EXCEPT !.status = "RUNNING", !.done = 0]     \* a mutant
Resumed(s) == [s EXCEPT !.status = "RUNNING"]

\* PlanIntentHandler.execute: the snapshot the handler proposes. Where it
\* proposes nothing (null), the runtime's default target RUNNING stands, which
\* is what becomes of AWAITING_APPROVAL, REJECTED and the terminal statuses.
HandlerExecute(s) ==
  CASE s.status = "DRAFT" -> [s EXCEPT !.status = "QUEUED", !.done = 0]
    [] s.status = "RUNNING" /\ PlanEnds(s) -> Staged(s)
    [] s.status = "RUNNING" /\ ~PlanEnds(s) ->
         [s EXCEPT !.status = "WAITING_FOR_EVIDENCE", !.done = Advanced(s)]
    [] s.status \in Resumable -> Resumed(s)
    [] s.status = "REVISION_REQUESTED" -> [s EXCEPT !.status = "QUEUED"]
    [] s.status = "APPROVED" -> [s EXCEPT !.status = "COMPLETED", !.done = PlanSteps]
    [] OTHER -> [s EXCEPT !.status = "RUNNING"]

-----------------------------------------------------------------------------
NoVersion == 0      \* a command without expectedMissionVersion

\* Commands after create. Only a reconcile has a resolution that is read; what
\* an approve says of the proposal (its id, version and evidence hash) is read
\* by nothing in the runtime and left out.
Command(missions) ==
  [type : {"execute", "approve", "reject", "reconcile"}, mission : missions,
   expected : Nat, resolution : Status]

\* The contents a command asks for (resolveTarget): target status and base.
Resolved(s, c) ==
  CASE c.type = "execute"   -> HandlerExecute(s)
    [] c.type = "approve"   -> [s EXCEPT !.status = "APPROVED"]
    [] c.type = "reject"    -> [s EXCEPT !.status = "REJECTED"]
    [] c.type = "reconcile" -> [s EXCEPT !.status = c.resolution]

AdmissibleUnlessTerminal(s, c) == s.status \in Status \ Terminal    \* a mutant

\* guardTerminal, then transition or reconcileTransition.
Admissible(s, c) ==
  /\ s.status \in Status \ Terminal
  /\ IF c.type = "reconcile"
     THEN s.status = "UNKNOWN" /\ c.resolution \in RecoveryTargets
     ELSE Resolved(s, c).status \in ValidTransitions[s.status]

\* The snapshot a command's success writes.
Successor(s, c) == NextSnapshot(s, Resolved(s, c).status, Resolved(s, c))

EventType(c) ==
  CASE c.type = "execute"               -> "STATE_TRANSITION"
    [] c.type \in {"approve", "reject"} -> "APPROVAL_DECIDED"
    [] c.type = "reconcile"             -> "RECONCILED"
=============================================================================
