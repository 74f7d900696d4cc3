---------------------------- MODULE FindingReview ----------------------------
(***************************************************************************)
(* What becomes of the Guardian's findings: a finding is challenged and    *)
(* judged by two reviewers (guardian/refutation.ts), or resolved or        *)
(* dismissed (guardian/resolution.ts).  All of it is advice: nothing here  *)
(* changes the candidate.                                                  *)
(*                                                                         *)
(* The library compares findings as objects, and every review makes new    *)
(* ones: the number of its review is part of a finding.  It keeps nothing  *)
(* either; its caller passes a report, any it ever got, and what became of *)
(* a finding so far.  A call that is denied, as it is for malformed input, *)
(* leaves everything as it is, and is no step here.                        *)
(***************************************************************************)
EXTENDS CandidateProtocol

CONSTANTS
  NoCandidate,
  Identity,      \* identities of challengers, reviewers and actors
  MaxReports     \* bound on the reviews of the run

VARIABLES
  candidate,     \* the snapshot in review (CandidateReview), only read here
  reports,       \* the reports of the Guardian's reviews, in order
  advice,        \* the outcome of the last dual review, or NoAdvice
  disposed       \* what the caller knows became of the findings, by finding

findingVars == <<reports, advice, disposed>>

NoAdvice == [verdict |-> "none"]
NoHash == {}       \* candidateHash is undefined; a hash asserted is {hash}
Asserted == {NoHash} \union {{reports[n].hash} : n \in DOMAIN reports}

Verdict == {"uphold", "refute", "downgrade"}
SeverityRank == [blocker |-> 0, concern |-> 1, info |-> 2]

FindingInit == reports = <<>> /\ advice = NoAdvice /\ disposed = <<>>

\* The findings of the n-th review, each with its review.
FindingsOf(n) == {[review |-> n, kind |-> k] : k \in reports[n].findings}
Findings == UNION {FindingsOf(n) : n \in DOMAIN reports}

\* runGuardianReview, of the snapshot as it is.
RunGuardianReview ==
  /\ candidate # NoCandidate
  /\ Len(reports) < MaxReports
  /\ reports' = Append(reports, [hash |-> candidate.subject,
                                 findings |-> GuardianFindings(candidate)])
  /\ UNCHANGED <<advice, disposed>>

\* The finding is an element of the report's findings, and the candidate hash,
\* where one is asserted, the report's.
BelongsByKind(n, f, hash) ==                                        \* a mutant
  f.kind \in reports[n].findings /\ hash \in {NoHash, {reports[n].hash}}
Belongs(n, f, hash) == f \in FindingsOf(n) /\ hash \in {NoHash, {reports[n].hash}}

StrictlyLower(override, severity) == SeverityRank[override] > SeverityRank[severity]

\* evaluateDualReview, for a challenge that is accepted: two independent
\* verdicts, the same or not.
EvaluateDualReview(n, f, challenger, override, a, b) ==
  /\ a.reviewer # b.reviewer
  /\ challenger \notin {a.reviewer, b.reviewer}
  /\ "downgrade" \in {a.verdict, b.verdict} => StrictlyLower(override, Severity(f.kind))
  /\ advice' = [finding |-> f, hash |-> reports[n].hash, challenger |-> challenger,
                reviews |-> {a, b},
                verdict |-> IF a.verdict = b.verdict THEN a.verdict ELSE "inconsistent",
                severity |-> IF a.verdict = "downgrade" /\ b.verdict = "downgrade"
                             THEN override ELSE Severity(f.kind)]
  /\ UNCHANGED <<reports, disposed>>

\* resolveFinding: an open finding is resolved or dismissed, and the caller
\* remembers it.
ResolveFindingAgain(n, f, hash, disposition) ==              \* a mutant
  /\ Belongs(n, f, hash)
  /\ disposed' = [g \in {f} \union DOMAIN disposed |->
                    IF g = f THEN disposition ELSE disposed[g]]
  /\ UNCHANGED <<reports, advice>>
ResolveFinding(n, f, hash, disposition) ==
  /\ Belongs(n, f, hash)
  /\ f \notin DOMAIN disposed
  /\ disposed' = [g \in {f} \union DOMAIN disposed |->
                    IF g = f THEN disposition ELSE disposed[g]]
  /\ UNCHANGED <<reports, advice>>

\* The caller may assert the hash of some report, or none.
Reported(n, f) == {hash \in Asserted : Belongs(n, f, hash)} # {}

DualReview ==
  \E n \in DOMAIN reports, f \in Findings :
    /\ Reported(n, f)
    /\ \E challenger \in Identity, override \in DOMAIN SeverityRank,
          a, b \in [reviewer : Identity, verdict : Verdict] :
         EvaluateDualReview(n, f, challenger, override, a, b)

Resolution ==
  \E n \in DOMAIN reports, f \in Findings, hash \in Asserted,
     disposition \in {"resolved", "dismissed"} :
    ResolveFinding(n, f, hash, disposition)

FindingNext == RunGuardianReview \/ DualReview \/ Resolution

-----------------------------------------------------------------------------
(* Properties *)

\* Advice stays with its review. What a dual review says of a finding, it says
\* of one that a review of the very bytes named has made, by two people of whom
\* neither challenged it, and never makes it graver; and a finding once resolved
\* or dismissed stays so, while the same finding of a later review, of corrected
\* bytes or of the same, starts open (refutation.ts evaluateDualReview;
\* resolution.ts resolveFinding, "no reopen, no carry-over").
AdviceStaysWithItsReview ==
  [][/\ advice' # advice =>
          /\ reports[advice'.finding.review].hash = advice'.hash
          /\ Cardinality({r.reviewer : r \in advice'.reviews} \ {advice'.challenger}) = 2
          /\ SeverityRank[advice'.severity] >= SeverityRank[Severity(advice'.finding.kind)]
     /\ \A f \in DOMAIN disposed : disposed'[f] = disposed[f]
     /\ Len(reports') > Len(reports)
          => \A f \in DOMAIN disposed' : f.review # Len(reports')]_findingVars
=============================================================================
