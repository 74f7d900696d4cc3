---------------------------- MODULE CandidateReview ---------------------------
(***************************************************************************)
(* The review of an accounting candidate (candidates/lifecycle.ts), from a *)
(* proposal or from the fiscal flow (fiscal/candidate-ordering.ts).        *)
(*                                                                         *)
(* Every operation of the life cycle returns a new immutable snapshot and  *)
(* reads nothing but the one it is given, so the snapshots made from one   *)
(* proposal do not affect each other: candidate is one of them, and a step *)
(* replaces it by a snapshot that an operation makes of it. What an        *)
(* operation throws leaves its caller the snapshot it had.                 *)
(***************************************************************************)
EXTENDS CandidateProtocol

CONSTANTS
  NoCandidate,    \* nothing is in review yet
  Bytes,          \* subject bytes a caller may hand to propose or correct
  ProposedAction  \* materiality inputs of the proposals

ASSUME ReviewAssumption ==
  /\ NoCandidate \notin Candidate
  /\ Bytes \subseteq Subject
  /\ ProposedAction \subseteq Action

VARIABLES
  candidate,      \* the snapshot in review
  origin,         \* the snapshot its proposal made (a history variable)
  inspected       \* the bytes inspect has passed since (a history variable)

reviewVars == <<candidate, origin, inspected>>

ReviewInit ==
  /\ candidate = NoCandidate
  /\ origin = NoCandidate
  /\ inspected = {}

-----------------------------------------------------------------------------
(* One action per operation *)

\* A new proposal is taken up, whatever became of the one before.
TakeUp(c) ==
  /\ candidate' = c
  /\ origin' = c
  /\ inspected' = {}

\* CandidateLifecycle.propose.
Propose(subject, scope, action) == TakeUp(Proposed(subject, scope, action))

\* The fiscal flow: it proposes and inspects with the bytes it proposed. What it
\* checks before that (scope, core rules, evidence) stops it without a candidate.
Order(subject, scope, action) ==
  LET proposed == Proposed(subject, scope, action)
  IN  /\ candidate' = WithStatus(proposed, "inspected")
      /\ origin' = proposed
      /\ inspected' = {subject}

\* Inspect is handed the bytes in review or others.
Inspect(bytes) ==
  /\ Inspectable(candidate, bytes)
  /\ candidate' = WithStatus(candidate, "inspected")
  /\ inspected' = inspected \union {bytes}
  /\ UNCHANGED origin

SubmitForReview ==
  /\ candidate # NoCandidate
  /\ candidate.status = "inspected"
  /\ candidate' = WithStatus(candidate, "reviewing")
  /\ UNCHANGED <<origin, inspected>>

Decide(verdict, reviewer) ==
  /\ candidate # NoCandidate
  /\ Decidable(candidate)
  /\ candidate' = Decided(candidate, verdict, reviewer)
  /\ UNCHANGED <<origin, inspected>>

Correct(bytes) ==
  /\ candidate # NoCandidate
  /\ Correctable(candidate)
  /\ candidate' = Corrected(candidate, bytes)
  /\ UNCHANGED <<origin, inspected>>

ReviewStep ==
  \/ /\ candidate # NoCandidate
     /\ \E bytes \in Bytes \union {candidate.subject} : Inspect(bytes)
  \/ SubmitForReview
  \/ \E p \in Person : Decide("accept", p)
  \/ \E p \in Person : Decide("reject", p)
  \/ \E bytes \in Bytes : Correct(bytes)

Start ==
  \E subject \in Bytes, scope \in Scope, action \in ProposedAction :
    Propose(subject, scope, action) \/ Order(subject, scope, action)

ReviewNext == Start \/ ReviewStep

ReviewSpec == ReviewInit /\ [][ReviewNext]_reviewVars

-----------------------------------------------------------------------------
(* Properties *)

\* The snapshot, its proposal and the inspected bytes have their types.
ReviewTypeOK ==
  /\ candidate \in Candidate \union {NoCandidate}
  /\ origin \in Candidate \union {NoCandidate}
  /\ inspected \subseteq Subject

\* What is reviewed and decided is what was inspected: from the inspection on,
\* through a correction too, the snapshot's subject is bytes that inspect (or
\* the fiscal flow) has checked (lifecycle.ts inspect, correct).
ReviewedWasInspected ==
  candidate # NoCandidate =>
    (candidate.status \in {"inspected", "reviewing", "accepted", "rejected"}
       => candidate.subject \in inspected)

\* The lineage leads from the subject in review back to the subject proposed,
\* over one correction at most, in the frozen scope and under the materiality
\* derived for the proposal (lifecycle.ts correct; candidate.md, Correction).
LineageIntact ==
  candidate # NoCandidate =>
    /\ origin # NoCandidate
    /\ candidate.scope = origin.scope
    /\ candidate.tier = origin.tier
    /\ Len(candidate.corrections) <= 1
    /\ IF candidate.corrections = <<>>
       THEN candidate.subject = origin.subject
       ELSE /\ candidate.corrections[1].from = origin.subject
            /\ candidate.corrections[1].to = candidate.subject

\* One decision ends a review, so no path of the life cycle brings an R3
\* candidate the two acceptances the Guardian asks for: it stays blocked
\* (guardian.ts, dual approval; lifecycle.ts accept).
GuardianHoldsR3 ==
  candidate # NoCandidate =>
    (candidate.tier = 3 => "dual-approval" \in Blockers(candidate))
=============================================================================
