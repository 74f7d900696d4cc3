------------------------------ MODULE Checkpoint ------------------------------
(***************************************************************************)
(* The gates of a checkpoint (gates/) over what they decide on: the legal  *)
(* transitions of missions, the trusted signing keys, the role assignments *)
(* and the clock.  The allow-list of keys and the assignments are kept by  *)
(* whoever operates the gates: keys are added at the end and revoked,      *)
(* never withdrawn, and assignments come and go, malformed ones too.       *)
(*                                                                         *)
(* A decision is about the moment it is made: nothing in the code keeps    *)
(* one, so any other step forgets it.                                      *)
(***************************************************************************)
EXTENDS Authorization, Receipts, MissionProtocol

CONSTANTS
    Context,        \* what checkpoints are asked about
    GateLists,      \* the sequences of gates that callers run
    Given,          \* assignments that operators make
    NewKeys,        \* keys that operators add
    FirstKey,       \* the key the allow-list starts with
    MaxKeys, MaxAssignments     \* bounds on the two lists

ASSUME CheckpointAssumption ==
  /\ MaxTime \in Nat
  /\ FirstKey \in KeyInfo /\ NewKeys \subseteq KeyInfo
  /\ Given \subseteq Assignment
  /\ GateLists \subseteq Seq({"mission", "receipt", "approval", "authorization"})
  /\ \A ctx \in Context :
       /\ ctx.approvals \in Seq(Person)
       /\ ctx.receipt \in Receipt \union {[none |-> TRUE]}

VARIABLES
    now,            \* the clock
    keys,           \* the allow-list, trustedKeys: never empty
    assignments,    \* the role assignments
    accepted,       \* receipts found trusted against the allow-list
    refused,        \* of those, the ones found not to be trusted later on
    decided         \* the decision just made

vars == <<now, keys, assignments, accepted, refused, decided>>

NoDecision == [verdict |-> "none"]
Refusal == [verdict |-> "blocked"]

Init ==
  /\ now = 0
  /\ keys = <<FirstKey>>
  /\ assignments = <<>>
  /\ accepted = {} /\ refused = {}
  /\ decided = NoDecision

-----------------------------------------------------------------------------
(* The gates.  A context has a mission (its status and the tenant scope its *)
(* company and period stand for) or none, a target status or none, a       *)
(* receipt or none, a tier or none, and approvals in the order recorded.   *)

None == [none |-> TRUE]
NoStatus == "no status"
NoTier == "no tier"

\* MissionStateGate
MissionResult(ctx) ==
  IF /\ ctx.mission # None
     /\ ctx.target # NoStatus
     /\ ctx.mission.status \notin Terminal
     /\ ctx.target \in ValidTransitions[ctx.mission.status]
  THEN "allowed" ELSE "blocked"

\* ReceiptGate, with a list of keys or with none.
ReceiptStatus(r, list) ==
  Verified(r, IF list # <<>> THEN Listed(list, r) ELSE SelfTrusted(r), now)

ReceiptResult(ctx) ==
  IF ctx.receipt # None /\ ReceiptStatus(ctx.receipt, keys) = "SIGNER_TRUSTED"
  THEN "allowed" ELSE "blocked"

Approvers(ctx) == {ctx.approvals[i] : i \in DOMAIN ctx.approvals}

\* ApprovalGate
ApprovalsCounted(ctx) ==                                            \* a mutant
  CASE ctx.tier \in {NoTier, "R0", "R1"} -> "allowed"
    [] ctx.tier = "R2" -> IF ctx.approvals = <<>> THEN "needs_input" ELSE "allowed"
    [] ctx.tier = "R3" -> IF Len(ctx.approvals) < 2 THEN "blocked" ELSE "allowed"
ApprovalResult(ctx) ==
  CASE ctx.tier \in {NoTier, "R0", "R1"} -> "allowed"
    [] ctx.tier = "R2" -> IF ctx.approvals = <<>> THEN "needs_input" ELSE "allowed"
    [] ctx.tier = "R3" -> IF Cardinality(Approvers(ctx)) < 2 THEN "blocked" ELSE "allowed"

\* deriveScope
DerivedScope(ctx) ==
  IF ctx.mission # None /\ ctx.mission.tenant \in Scope THEN ctx.mission.tenant ELSE NoScope

\* AuthorizationGate
AuthorizationResult(ctx) ==
  IF ctx.tier \in {NoTier, "R0", "R1"} \/ ApprovalResult(ctx) # "allowed"
  THEN ApprovalResult(ctx)
  ELSE IF DerivedScope(ctx) = NoScope \/ assignments = <<>> THEN "needs_input"
  ELSE IF \A p \in Approvers(ctx) :
            Authorized(assignments, p, "close:approve", DerivedScope(ctx))
       THEN "allowed" ELSE "blocked"

Result(gate, ctx) ==
  CASE gate = "mission"       -> MissionResult(ctx)
    [] gate = "receipt"       -> ReceiptResult(ctx)
    [] gate = "approval"      -> ApprovalResult(ctx)
    [] gate = "authorization" -> AuthorizationResult(ctx)

\* GateRunner.run: the results up to the first that is not allowed.
Results(gates, ctx) ==
  LET all   == [i \in DOMAIN gates |-> Result(gates[i], ctx)]
      stops == {i \in DOMAIN gates : all[i] # "allowed"}
  IN  IF stops = {} THEN all
      ELSE SubSeq(all, 1, CHOOSE i \in stops : \A j \in stops : i <= j)

\* gateCheckCommand, and a caller of the runner who reads its results so.
Verdict(results) ==
  IF \A i \in DOMAIN results : results[i] = "allowed" THEN "allowed" ELSE "blocked"

\* A receipt's standing after it was verified against the allow-list.
Noted(r, trusted) ==
  /\ accepted' = IF trusted THEN accepted \union {r} ELSE accepted
  /\ refused'  = IF ~trusted /\ r \in accepted THEN refused \union {r} ELSE refused

Check(gates, ctx) ==
  LET results == Results(gates, ctx)
      asked   == \E i \in DOMAIN results : gates[i] = "receipt" /\ ctx.receipt # None
  IN  /\ decided' = IF Verdict(results) = "blocked" THEN Refusal
                    ELSE [verdict |-> "allowed", gates |-> gates, ctx |-> ctx]
      /\ IF asked THEN Noted(ctx.receipt, ReceiptResult(ctx) = "allowed")
                  ELSE UNCHANGED <<accepted, refused>>
      /\ UNCHANGED <<now, keys, assignments>>

\* receiptVerifyCommand with --keys.
VerifyReceipt(r) ==
  /\ Noted(r, Verified(r, Listed(keys, r), now) = "SIGNER_TRUSTED")
  /\ decided' = NoDecision
  /\ UNCHANGED <<now, keys, assignments>>

-----------------------------------------------------------------------------
(* What happens around the gates. *)

Tick ==
  /\ now < MaxTime
  /\ now' = now + 1
  /\ decided' = NoDecision
  /\ UNCHANGED <<keys, assignments, accepted, refused>>

AddKey(k) ==
  /\ Len(keys) < MaxKeys
  /\ keys' = Append(keys, k)
  /\ decided' = NoDecision
  /\ UNCHANGED <<now, assignments, accepted, refused>>

\* A revocation may lie in the future; it is never taken back.
RevokeKey(i, at) ==
  /\ keys[i].revokedAt = Never
  /\ at >= now
  /\ keys' = [keys EXCEPT ![i].revokedAt = at]
  /\ decided' = NoDecision
  /\ UNCHANGED <<now, assignments, accepted, refused>>

Assign(a) ==
  /\ Len(assignments) < MaxAssignments
  /\ assignments' = Append(assignments, a)
  /\ decided' = NoDecision
  /\ UNCHANGED <<now, keys, accepted, refused>>

Withdraw(i) ==
  /\ assignments' = SubSeq(assignments, 1, i - 1) \o
                    SubSeq(assignments, i + 1, Len(assignments))
  /\ decided' = NoDecision
  /\ UNCHANGED <<now, keys, accepted, refused>>

Next ==
  \/ \E gates \in GateLists, ctx \in Context : Check(gates, ctx)
  \/ \E ctx \in Context : ctx.receipt # None /\ VerifyReceipt(ctx.receipt)
  \/ Tick
  \/ \E k \in NewKeys : AddKey(k)
  \/ \E i \in DOMAIN keys, at \in Instant : RevokeKey(i, at)
  \/ \E a \in Given : Assign(a)
  \/ \E i \in DOMAIN assignments : Withdraw(i)

Spec == Init /\ [][Next]_vars

-----------------------------------------------------------------------------
\* The lists hold keys and assignments, and a receipt that is refused was
\* accepted before.
TypeOK ==
  /\ now \in Instant
  /\ keys \in Seq(KeyInfo) /\ keys # <<>>
  /\ assignments \in Seq(Assignment)
  /\ accepted \subseteq Receipt /\ refused \subseteq accepted

\* p holds the approver role at s by one assignment and no other.
Entitled(p, s) ==
  Cardinality({i \in DOMAIN assignments :
                 assignments[i].identity = p /\ assignments[i].scope = s}) = 1
  /\ \E i \in DOMAIN assignments :
       /\ assignments[i].identity = p /\ assignments[i].scope = s
       /\ "approver" \in assignments[i].roles

\* An R3 checkpoint with the authorization gate is allowed only on the word of
\* two different people, each of them an approver of the mission's own scope,
\* and on a receipt as it was signed (contracts/gate.md: "explicit dual
\* approval; single approval is insufficient").
DualApprovalIsReal ==
  decided.verdict = "allowed" =>
    LET ctx == decided.ctx
        has(gate) == \E i \in DOMAIN decided.gates : decided.gates[i] = gate
    IN  /\ has("authorization") /\ ctx.tier = "R3" =>
             /\ \E p, q \in Approvers(ctx) : p # q
             /\ \A p \in Approvers(ctx) : Entitled(p, ctx.mission.tenant)
        /\ has("receipt") =>
             \E c \in Content, k \in KeyId, p \in Public :
               ctx.receipt = SignedReceipt(c, k, p)

\* Trust once lost is lost for good: a receipt that was trusted and then found
\* not to be is never trusted again, whatever is added to the allow-list and
\* however long one waits (receipts/verify.ts, key lifecycle).
TrustIsLostForGood ==
  \A r \in refused : ReceiptStatus(r, keys) # "SIGNER_TRUSTED"

\* Two lists hold the same assignments of p, each as often, in whatever order.
SameFor(p, list, other) ==
  \E f \in [Mine(list, p) -> Mine(other, p)] :
    /\ \A i, j \in Mine(list, p) : f[i] = f[j] => i = j
    /\ \A j \in Mine(other, p) : \E i \in Mine(list, p) : f[i] = j
    /\ \A i \in Mine(list, p) : other[f[i]] = list[i]

\* What is assigned to one identity never grants another one anything: an
\* identity gains a permission only by a change of its own assignments or by
\* the removal of a malformed one; and a well-formed assignment of somebody
\* else changes no decision at all, the code of a denial included
\* (authorization/authorize.ts: "revealing no foreign scope detail").
OthersNeverGrant ==
  [][assignments' # assignments =>
       \A p \in Person, s \in Scope, permission \in Permission :
         LET Of(list) == Decision(list, p, permission, s)
         IN  SameFor(p, assignments, assignments') =>
               /\ Of(assignments') = "allowed" /\ Of(assignments) # "allowed" =>
                    Faults(assignments) # {}
               /\ Faults(assignments) \union Faults(assignments') = {} =>
                    Of(assignments') = Of(assignments)]_vars
=============================================================================
