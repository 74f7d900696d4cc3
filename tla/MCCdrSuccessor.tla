---------------------------- MODULE MCCdrSuccessor ----------------------------
(***************************************************************************)
(* Small instances of CdrSuccessor: the compliance-check handler that      *)
(* drives a mission to UNKNOWN and, once it was reconciled, to its gate.   *)
(***************************************************************************)
EXTENDS CdrSuccessor

ComplianceHandler(s) ==
  CASE s.status = "DRAFT"  -> {"QUEUED"}
    [] s.status = "QUEUED" -> {"RUNNING"}
    [] s.status = "RUNNING" /\ s.version = Steps -> {"UNKNOWN"}
    [] s.status = "RUNNING" /\ s.version # Steps -> {"AWAITING_APPROVAL"}
    [] OTHER -> {"RUNNING"}

\* Between two calls of the runtime, or when apply had only to complete its key.
BetweenCalls == Place \ {"commit", "fail"}

\* In the middle of apply, when it has claimed its key and written nothing.
Anywhere == Place

\* The three steps of the instance lead a draft to the reconciliation.
ASSUME HandlerLeads ==
  Steps = 3 => StepsLead(<<{"DRAFT"}, {"QUEUED"}, {"RUNNING"}, {"UNKNOWN"}>>)
=============================================================================
