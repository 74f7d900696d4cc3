----------------------------- MODULE FiscalClose -----------------------------
(***************************************************************************)
(* The monthly close and the review of its candidates, the Guardian's      *)
(* findings on a candidate in review, and the annual declaration.  The     *)
(* findings read the candidate; nothing else is shared.                    *)
(***************************************************************************)
EXTENDS MonthlyClose, AnnualDeclaration

CONSTANTS Identity, MaxReports

VARIABLES reports, advice, disposed

findingVars == <<reports, advice, disposed>>

Findings == INSTANCE FindingReview

FiscalInit == Init /\ Findings!FindingInit /\ AnnualInit

FiscalNext ==
  \/ Next /\ UNCHANGED <<findingVars, annualVars>>
  \/ Findings!FindingNext /\ UNCHANGED <<vars, annualVars>>
  \/ AnnualNext /\ UNCHANGED <<vars, findingVars>>

FiscalSpec == FiscalInit /\ [][FiscalNext]_<<vars, findingVars, annualVars>>

-----------------------------------------------------------------------------
\* FindingReview: what is said of a finding stays with its review
\* (guardian/refutation.ts, guardian/resolution.ts).
AdviceStaysWithItsReview == Findings!AdviceStaysWithItsReview
=============================================================================
