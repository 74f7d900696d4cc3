----------------------------- MODULE CdrSuccessor -----------------------------
(***************************************************************************)
(* CdrSuccessorComposer (cdr/successor.ts): from an accepted candidate A it *)
(* drives a successor mission through execute commands, reconciliation,    *)
(* gates and approval, and only then materializes an accepted candidate B. *)
(* A composition is a sequence of awaited calls of the mission runtime; its *)
(* process may die between any two, and it is retried, with the identifier *)
(* of the mission it had started or without it.                            *)
(*                                                                         *)
(* The runtime's apply takes the four steps a caller can be suspended in:  *)
(* the idempotency lookup, the claim of the key with the read of the       *)
(* mission, the write of the snapshot with its event, and the completion   *)
(* of the record. MissionRuntime has every store call of it.               *)
(*                                                                         *)
(* One operation is composed, with one input: every attempt shares the     *)
(* idempotency key prefix, and the input passes the checks that read       *)
(* nothing else (verifyAuthority, the two policy runs, the binding of the  *)
(* reconcile identifier, receipt verification). An input that does not     *)
(* throws at the same places as a crash and writes nothing.                *)
(***************************************************************************)
EXTENDS MissionProtocol, FiniteSets

CONSTANTS
  Mission,             \* identifiers of successor missions
  NoMission,
  Composer,            \* compositions that may be in progress together
  Steps,               \* execute steps of the input; step i expects version i
  ExpectedStatus,      \* the input's expectedStatus
  HandlerProposes(_),  \* statuses execute may resolve to, per snapshot
  CrashPlaces,         \* where a composer's process may die
  Others,              \* who else acts: a subset of {"recovery", "client", "time"}
  MaxInterference      \* bound on how often they do

ASSUME CdrAssumption ==
  /\ NoMission \notin Mission
  /\ Steps \in Nat \ {0}
  /\ ExpectedStatus \in Status
  /\ Others \subseteq {"recovery", "client", "time"}
  /\ MaxInterference \in Nat

VARIABLES
  mission,      \* mission store: [Mission -> status and version]
  idem,         \* idempotency store: [Role -> record]
  pc, task,     \* where each composer is suspended, and what it carries
  candidates,   \* the candidate Bs materialized, as what identifies them
  approved,     \* history: missions that have been APPROVED
  interference, \* how often someone else moved a mission or a key expired
  expired       \* history: a key has expired

vars ==
  <<mission, idem, pc, task, candidates, approved, interference, expired>>
others == <<interference, expired>>

-----------------------------------------------------------------------------
\* The calls of apply, numbered as they are made, name their idempotency keys:
\* `${key}:execute:${i}`, `${key}:approval-drive` and `${key}:approve`.
Drive == Steps + 1
Approve == Steps + 2
Role == 1..Approve

\* The version each expects.
ExpectedVersion(r) == IF r <= Steps THEN r ELSE r + 1

NotStarted == [status |-> "NONE", version |-> 0]
State == [status : Status \union {"NONE"}, version : Nat]

\* The payload hash covers the mission a command is bound to; nothing else of
\* it differs between two attempts.
FreeKey == [status |-> "FREE", mission |-> NoMission]
KeyRecord == [status : {"FREE", "EXECUTING", "COMPLETED", "FAILED"},
              mission : Mission \union {NoMission}]

\* A composition that has returned or thrown is "idle", one whose process died "dead".
Resting == {"idle", "dead"}
Place == {"idle", "dead", "lookup", "claim", "commit", "complete", "fail",
          "verify", "reconcile", "resolver", "gates", "readback", "materialize"}

\* A composition: its mission, whether it was given one (a retry), the call of
\* apply it is at, the snapshot it read last and the one its gates allowed.
NoTask == [mission |-> NoMission, retry |-> FALSE, role |-> 1,
           base |-> NotStarted, gated |-> NotStarted]
Task == [mission : Mission \union {NoMission}, retry : BOOLEAN, role : Role,
         base : State, gated : State]

\* What candidate B's subject bytes, and so its identity, are made of: the
\* mission, its status and, in the mission receipt, the time of its last change.
CandidateB(m, s) == [mission |-> m, status |-> s.status, version |-> s.version]

Init ==
  /\ mission = [m \in Mission |-> NotStarted]
  /\ idem = [r \in Role |-> FreeKey]
  /\ pc = [c \in Composer |-> "idle"]
  /\ task = [c \in Composer |-> NoTask]
  /\ candidates = {}
  /\ approved = {}
  /\ interference = 0
  /\ expired = FALSE

-----------------------------------------------------------------------------
Throw(c) ==
  /\ pc' = [pc EXCEPT ![c] = "idle"]
  /\ task' = [task EXCEPT ![c] = NoTask]

Goto(c, p, t) ==
  /\ pc' = [pc EXCEPT ![c] = p]
  /\ task' = [task EXCEPT ![c] = t]

CallOf(c) == task[c].role
Mine(c) == task[c].mission

\* The snapshot a successful call makes of s.
Moved(s, status) == [status |-> status, version |-> s.version + 1]

\* Where a composition goes when apply has returned.
Answered(c) ==
  \/ CallOf(c) < Steps   /\ Goto(c, "lookup", [task[c] EXCEPT !.role = @ + 1])
  \/ CallOf(c) = Steps   /\ Goto(c, "verify", task[c])
  \/ CallOf(c) = Drive   /\ Goto(c, "lookup", [task[c] EXCEPT !.role = Approve])
  \/ CallOf(c) = Approve /\ Goto(c, "readback", task[c])

-----------------------------------------------------------------------------
(* Starting and retrying *)

\* missionFor without a missionId: a new mission, known to nobody else.
Compose(c) ==
  /\ pc[c] \in Resting
  /\ \E m \in Mission :
       /\ mission[m] = NotStarted
       /\ mission' = [mission EXCEPT ![m] = [status |-> "DRAFT", version |-> 1]]
       /\ Goto(c, "lookup", [NoTask EXCEPT !.mission = m])
  /\ UNCHANGED <<idem, candidates, approved, others>>

\* missionFor with the identifier of a mission that was started.
Retry(c, m) ==
  /\ pc[c] \in Resting
  /\ mission[m] # NotStarted
  /\ Goto(c, "lookup", [NoTask EXCEPT !.mission = m, !.retry = TRUE])
  /\ UNCHANGED <<mission, idem, candidates, approved, others>>

-----------------------------------------------------------------------------
(* MissionRuntime.apply, as its caller sees it *)

VisibleToItsMission(c) ==                                             \* a mutant
  idem[CallOf(c)].status # "FREE" /\ idem[CallOf(c)].mission = Mine(c)
Visible(c) == idem[CallOf(c)].status # "FREE"

ReplayedWhenSettled(c) ==                                             \* a mutant
  idem[CallOf(c)].status \in {"EXECUTING", "COMPLETED", "FAILED"}
\* A completed command is replayed, and one still EXECUTING is answered with the
\* current snapshot and the last event; the composer cannot tell them apart.
Replayed(c) == idem[CallOf(c)].status \in {"EXECUTING", "COMPLETED"}

SamePayload(c) == idem[CallOf(c)].mission = Mine(c)

\* A key of another payload is a conflict and a FAILED one replays its error.
Lookup(c) ==
  /\ pc[c] = "lookup"
  /\ \/ ~Visible(c) /\ Goto(c, "claim", task[c])
     \/ Visible(c) /\ SamePayload(c) /\ Replayed(c) /\ Answered(c)
     \/ Visible(c) /\ ~(SamePayload(c) /\ Replayed(c)) /\ Throw(c)
  /\ UNCHANGED <<mission, idem, candidates, approved, others>>

VersionNotAhead(r, s) == ExpectedVersion(r) <= s.version              \* a mutant
VersionMatches(r, s) == s.version = ExpectedVersion(r)

\* The statuses a call may resolve to.
Targets(r, s) ==
  ValidTransitions[s.status] \intersect
    (IF r = Approve THEN {"APPROVED"} ELSE HandlerProposes(s))

\* The mission is read, EXECUTING put, the version compared, the target resolved.
Claim(c) ==
  LET s == mission[Mine(c)]
  IN  /\ pc[c] = "claim"
      /\ idem' = [idem EXCEPT ![CallOf(c)] =
                    [status |-> "EXECUTING", mission |-> Mine(c)]]
      /\ Goto(c, IF VersionMatches(CallOf(c), s) /\ Targets(CallOf(c), s) # {}
                 THEN "commit" ELSE "fail",
              [task[c] EXCEPT !.base = s])
      /\ UNCHANGED <<mission, candidates, approved, others>>

\* save, an unconditional upsert, and append.
Commit(c) ==
  /\ pc[c] = "commit"
  /\ \E status \in Targets(CallOf(c), task[c].base) :
       /\ mission' = [mission EXCEPT ![Mine(c)] = Moved(task[c].base, status)]
       /\ approved' = approved \union {m \in {Mine(c)} : status = "APPROVED"}
  /\ Goto(c, "complete", task[c])
  /\ UNCHANGED <<idem, candidates, others>>

Complete(c) ==
  /\ pc[c] = "complete"
  /\ idem' = [idem EXCEPT ![CallOf(c)].status = "COMPLETED"]
  /\ Answered(c)
  /\ UNCHANGED <<mission, candidates, approved, others>>

Fail(c) ==
  /\ pc[c] = "fail"
  /\ idem' = [idem EXCEPT ![CallOf(c)].status = "FAILED"]
  /\ Throw(c)
  /\ UNCHANGED <<mission, candidates, approved, others>>

-----------------------------------------------------------------------------
(* Steps 6 to 13 *)

PastExpectedOnlyApproved == {ExpectedStatus, "APPROVED"}              \* a mutant
\* Statuses a retry resumes from.
PastExpected == {ExpectedStatus, "APPROVED", "AWAITING_APPROVAL"}

\* reconcileAndVerify: a fresh mission has to be UNKNOWN, a retried one may be
\* past its reconciliation.
Verify(c) ==
  LET s == mission[Mine(c)]
  IN  /\ pc[c] = "verify"
      /\ \/ s.status = "UNKNOWN" /\ Goto(c, "reconcile", task[c])
         \/ /\ s.status \in PastExpected \ {"UNKNOWN"} /\ task[c].retry
            /\ Goto(c, "gates", [task[c] EXCEPT !.base = s])
         \/ /\ s.status # "UNKNOWN" /\ ~(s.status \in PastExpected /\ task[c].retry)
            /\ Throw(c)
      /\ UNCHANGED <<mission, idem, candidates, approved, others>>

\* MissionRuntime.reconcile reads the mission again before it asks.
Reconcile(c) ==
  LET s == mission[Mine(c)]
  IN  /\ pc[c] = "reconcile"
      /\ IF s.status = "UNKNOWN"
         THEN Goto(c, "resolver", [task[c] EXCEPT !.base = s])
         ELSE Throw(c)
      /\ UNCHANGED <<mission, idem, candidates, approved, others>>

\* The external system answers. Both "executed" with verifiable evidence and
\* "not-executed" take the mission back to RUNNING; only the first is a
\* "record", with any other decision the composer throws. "none" is every
\* answer the runtime rejects or leaves to a professional.
ResolverAnswers(c, outcome) ==
  LET s == Moved(task[c].base, "RUNNING")
  IN  /\ pc[c] = "resolver"
      /\ mission' = IF outcome = "none" THEN mission
                    ELSE [mission EXCEPT ![Mine(c)] = s]
      /\ IF outcome = "executed" /\ "RUNNING" \in PastExpected
         THEN Goto(c, "gates", [task[c] EXCEPT !.base = s])
         ELSE Throw(c)
      /\ UNCHANGED <<idem, candidates, approved, others>>

\* runGates over the snapshot just read, then approveMission up to its first
\* call: an APPROVED mission needs none, a RUNNING one is driven to its gate.
Gates(c, allowed) ==
  LET t == [task[c] EXCEPT !.gated = task[c].base]
      status == task[c].base.status
  IN  /\ pc[c] = "gates"
      /\ \/ ~allowed /\ Throw(c)
         \/ allowed /\ status = "APPROVED" /\ Goto(c, "materialize", t)
         \/ /\ allowed /\ status # "APPROVED"
            /\ Goto(c, "lookup", [t EXCEPT !.role =
                                   IF status = "RUNNING" THEN Drive ELSE Approve])
      /\ UNCHANGED <<mission, idem, candidates, approved, others>>

\* findById after the approval; its status is not looked at.
ReadBack(c) ==
  /\ pc[c] = "readback"
  /\ Goto(c, "materialize", [task[c] EXCEPT !.base = mission[Mine(c)]])
  /\ UNCHANGED <<mission, idem, candidates, approved, others>>

\* Both receipts are signed and verified and B proposed, inspected, submitted
\* and accepted without another await.
Materialize(c) ==
  /\ pc[c] = "materialize"
  /\ candidates' = candidates \union {CandidateB(Mine(c), task[c].base)}
  /\ Throw(c)
  /\ UNCHANGED <<mission, idem, approved, others>>

-----------------------------------------------------------------------------
(* The environment *)

Interfere ==
  /\ interference < MaxInterference
  /\ interference' = interference + 1

\* The process of a composition dies; what it had claimed stays claimed.
Crash(c) ==
  /\ pc[c] \in CrashPlaces \ Resting
  /\ Goto(c, "dead", NoTask)
  /\ UNCHANGED <<mission, idem, candidates, approved, others>>

\* recoverIncomplete, at the restart of some process.
Recover(m) ==
  /\ "recovery" \in Others
  /\ mission[m].status = "RUNNING"
  /\ mission' = [mission EXCEPT ![m] = Moved(@, "UNKNOWN")]
  /\ Interfere
  /\ UNCHANGED <<idem, pc, task, candidates, approved, expired>>

\* A command of somebody else, under no key of this operation.
Client(m) ==
  LET s == mission[m]
  IN  /\ "client" \in Others
      /\ s # NotStarted
      /\ \E status \in ValidTransitions[s.status] \intersect
                         (HandlerProposes(s) \union {"APPROVED", "REJECTED"}) :
           /\ mission' = [mission EXCEPT ![m] = Moved(s, status)]
           /\ approved' = approved \union {n \in {m} : status = "APPROVED"}
      /\ Interfere
      /\ UNCHANGED <<idem, pc, task, candidates, expired>>

\* A record's time to live runs out.
Expire(r) ==
  /\ "time" \in Others
  /\ idem[r].status # "FREE"
  /\ \A c \in Composer : ~(pc[c] \in {"commit", "complete", "fail"} /\ CallOf(c) = r)
  /\ idem' = [idem EXCEPT ![r] = FreeKey]
  /\ Interfere
  /\ expired' = TRUE
  /\ UNCHANGED <<mission, pc, task, candidates, approved>>

-----------------------------------------------------------------------------
Outcome == {"executed", "not-executed", "none"}

\* What a composition does next on its own.
Step(c) ==
  \/ Lookup(c) \/ Claim(c) \/ Commit(c) \/ Complete(c) \/ Fail(c)
  \/ Verify(c) \/ Reconcile(c)
  \/ \E outcome \in Outcome : ResolverAnswers(c, outcome)
  \/ \E allowed \in BOOLEAN : Gates(c, allowed)
  \/ ReadBack(c) \/ Materialize(c)

Next ==
  \/ \E c \in Composer : Compose(c) \/ Step(c) \/ Crash(c)
  \/ \E c \in Composer, m \in Mission : Retry(c, m)
  \/ \E m \in Mission : Recover(m) \/ Client(m)
  \/ \E r \in Role : Expire(r)

Spec == Init /\ [][Next]_vars

\* A composition goes on when its calls return and is retried until it succeeds;
\* crashes come to an end, and neither gates nor the external system refuse for
\* ever.
FairSpec ==
  /\ Spec
  /\ \A c \in Composer :
       /\ WF_vars(Step(c))
       /\ \A m \in Mission : SF_vars(Retry(c, m))
       /\ SF_vars(ResolverAnswers(c, "executed"))
       /\ SF_vars(Gates(c, TRUE))
  /\ <>[][\A c \in Composer : ~Crash(c)]_vars

-----------------------------------------------------------------------------
\* The input fits the handler: path names the statuses a mission may have at each
\* version the execute steps expect. It starts as a draft, a step takes it from
\* one version's statuses to the next one's, and the last are none a retry would
\* resume from, but for the UNKNOWN it reconciles.
StepsLead(path) ==
  /\ path \in [1..(Steps + 1) -> SUBSET Status]
  /\ "DRAFT" \in path[1]
  /\ \A i \in 1..Steps :
       \A s \in [status : path[i], version : {i}] : Targets(i, s) \subseteq path[i + 1]
  /\ path[Steps + 1] \intersect PastExpected \subseteq {"UNKNOWN"}

\* Stores and compositions stay in their domains.
TypeOK ==
  /\ mission \in [Mission -> State]
  /\ idem \in [Role -> KeyRecord]
  /\ pc \in [Composer -> Place]
  /\ task \in [Composer -> Task]
  /\ candidates \subseteq [mission : Mission, status : Status, version : Nat]
  /\ approved \subseteq Mission
  /\ interference \in Nat /\ expired \in BOOLEAN

\* One operation has one successor: whatever crashes, whoever else moves its
\* missions, however often it is retried, with its mission or by starting
\* another, all attempts that get to the end have materialized the same
\* candidate B, until a key expires (successor.ts: the keys are derived from the
\* operation's, and B's identity from what was approved).
SuccessorIsUnique == ~expired => \A a, b \in candidates : a = b

\* successor.ts, header: the mission approval comes first, and candidate B is
\* materialized "only after a second approval decision"; its test: "materializes
\* candidate B with its own identity, approval, and signed receipt after
\* mission approval". Each candidate B belongs to a mission that was approved.
MissionApprovedFirst == \A b \in candidates : b.mission \in approved

\* What the composer approves is what its gates saw, or that moved by its own
\* approval-drive: the versions fixed by the input let nothing else slip in
\* between the gates and the approval, and clients and restarts do try.
GatedVersionApproved ==
  [][\A c \in Composer :
       pc[c] = "commit" /\ pc'[c] = "complete" /\ CallOf(c) = Approve =>
         task[c].base.version \in {task[c].gated.version, task[c].gated.version + 1}]_vars

\* An operation once started gets its candidate B, or someone interfered: the
\* composer's retries converge from wherever a crash between two calls, a
\* closed gate or an unhelpful external system left the mission.
OperationConverges ==
  (\E m \in Mission : mission[m] # NotStarted)
    ~> (candidates # {} \/ interference > 0)
=============================================================================
