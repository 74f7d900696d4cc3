-------------------------- MODULE CandidateProtocol --------------------------
(***************************************************************************)
(* Accounting candidates as pure operators: how materiality is derived     *)
(* (candidates/materiality.ts), the snapshots the life cycle makes         *)
(* (candidates/lifecycle.ts), and what the Guardian finds in one           *)
(* (guardian/guardian.ts).                                                 *)
(*                                                                         *)
(* Subject bytes stand for their own SHA-256 hash, and with the scope for  *)
(* the candidate's identity: equal bytes and scope give equal identities.  *)
(* Identifiers, reasons and timestamps of records are left out.            *)
(***************************************************************************)
EXTENDS Integers, Sequences, FiniteSets

CONSTANTS
  Subject,        \* subject bytes a candidate may be about
  Person,         \* identities of reviewers
  Scope,          \* fiscal scopes: a RUC and a period, of the right shape
  Checksummed,    \* the scopes whose RUC has a valid check digit
  MediumValue,    \* MEDIUM_VALUE_CENTS
  HighValue       \* HIGH_VALUE_CENTS

ASSUME CandidateAssumption ==
  /\ Checksummed \subseteq Scope
  /\ MediumValue \in Nat \ {0}
  /\ HighValue \in Nat
  /\ MediumValue < HighValue

-----------------------------------------------------------------------------
(* Materiality: R0 to R3 as their ordinals *)

Tier == 0..3

Action == [value : Int,
           reversibility : {"reversible", "partially-reversible", "irreversible"},
           jurisdiction : {"PE", "other"}]

BaseTierByValue(a) ==                                               \* a mutant
  CASE a.value = 0                                -> 0
    [] a.value >= HighValue                       -> 3
    [] a.value >= MediumValue /\ a.value < HighValue -> 2
    [] a.value < MediumValue /\ a.value # 0       -> 1
BaseTier(a) ==
  CASE a.reversibility = "irreversible"                         -> 3
    [] a.reversibility = "partially-reversible"                 -> 2
    [] a.reversibility = "reversible" /\ a.value = 0            -> 0
    [] a.reversibility = "reversible" /\ a.value >= HighValue   -> 3
    [] a.reversibility = "reversible" /\ a.value >= MediumValue
                                      /\ a.value < HighValue    -> 2
    [] a.reversibility = "reversible" /\ a.value < MediumValue
                                      /\ a.value # 0            -> 1

\* Without a country pack every jurisdiction but PE is one tier up, R3 the ceiling.
DeriveMateriality(a) ==
  IF a.jurisdiction = "PE" \/ BaseTier(a) = 3 THEN BaseTier(a) ELSE BaseTier(a) + 1

-----------------------------------------------------------------------------
(* Candidate snapshots: every operation returns a new one *)

CandidateStatus ==
  {"proposed", "inspected", "reviewing", "accepted", "corrected", "rejected"}

Review == [verdict : {"accept", "reject"}, reviewer : Person]
Correction == [from : Subject, to : Subject]

Candidate ==
  [subject : Subject, scope : Scope, tier : Tier, status : CandidateStatus,
   reviews : Seq(Review), corrections : Seq(Correction), version : Nat]

Proposed(subject, scope, action) ==
  [subject |-> subject, scope |-> scope, tier |-> DeriveMateriality(action),
   status |-> "proposed", reviews |-> <<>>, corrections |-> <<>>, version |-> 1]

WithStatus(c, status) == [c EXCEPT !.status = status, !.version = @ + 1]

\* inspect, of a candidate that passes its check of the bytes it is given.
Inspectable(c, bytes) == c.status \in {"proposed", "corrected"} /\ bytes = c.subject

\* Whether accept, reject or correct takes the candidate.
DecidableAgain(c) == c.status \in {"reviewing", "accepted"}         \* a mutant
Decidable(c) == c.status = "reviewing"

Decided(c, verdict, reviewer) ==
  [WithStatus(c, IF verdict = "accept" THEN "accepted" ELSE "rejected")
     EXCEPT !.reviews = Append(@, [verdict |-> verdict, reviewer |-> reviewer])]

\* The correction budget: one per candidate.
Correctable(c) == Decidable(c) /\ c.corrections = <<>>

\* correct: new bytes, and so a new identity, under the materiality of the old.
CorrectedUninspected(c, bytes) ==                                   \* a mutant
  [WithStatus(c, "inspected") EXCEPT !.subject = bytes,
     !.corrections = Append(@, [from |-> c.subject, to |-> bytes])]
Corrected(c, bytes) ==
  [WithStatus(c, "corrected") EXCEPT !.subject = bytes,
     !.corrections = Append(@, [from |-> c.subject, to |-> bytes])]

-----------------------------------------------------------------------------
(* The Guardian's findings on a snapshot, with their severities *)

Accepts(c) == {i \in DOMAIN c.reviews : c.reviews[i].verdict = "accept"}
Acceptors(c) == {c.reviews[i].reviewer : i \in Accepts(c)}

Finding == {"scope", "dual-approval", "history"}
Severity(f) == IF f = "history" THEN "concern" ELSE "blocker"

\* Shape, hash and tier are right in every snapshot the life cycle makes, so
\* of runGuardianReview's findings these can arise. R3 wants two accepts by two
\* people; a material candidate wants some review.
GuardianFindings(c) ==
  {f \in Finding :
     \/ f = "scope" /\ c.scope \notin Checksummed
     \/ f = "dual-approval" /\ c.tier = 3
          /\ (Cardinality(Accepts(c)) < 2 \/ Cardinality(Acceptors(c)) < 2)
     \/ f = "history" /\ c.tier >= 2 /\ c.reviews = <<>>}

Blockers(c) == {f \in GuardianFindings(c) : Severity(f) = "blocker"}

=============================================================================
