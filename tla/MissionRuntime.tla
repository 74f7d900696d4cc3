---------------------------- MODULE MissionRuntime ----------------------------
(***************************************************************************)
(* MissionRuntime (missions/runtime.ts) over its stores, one action per    *)
(* awaited store call, so that invocations interleave exactly where the    *)
(* code suspends. A worker is one invocation in progress: an async call    *)
(* inside one process, or a process of its own.                            *)
(*                                                                         *)
(* The composition root gives the runtime one of two backends. "postgres"  *)
(* is the tables of missions/store.postgres.ts: (mission_id, sequence) is  *)
(* unique, an upsert of an idempotency record keeps the row's              *)
(* payload_hash, a worker may crash between two calls and a call may fail. *)
(* "memory" is the maps of missions/store.ts: nothing is unique, put       *)
(* replaces, and nothing outlives the process, so no crash is modelled.    *)
(***************************************************************************)
EXTENDS MissionProtocol, Sequences, FiniteSets

CONSTANTS
  Mission,      \* mission identifiers
  Worker,       \* invocations that may be in progress together
  Key,          \* idempotency keys
  NoKey,        \* the absent idempotency key
  Commands,     \* the commands clients send, a subset of Command(Mission)
  Backends,     \* the backends to consider, a subset of {"postgres", "memory"}
  MaxVersion,   \* bound: a mission at this version is asked for nothing more
  MaxFaults,    \* bound on crashes and failed store calls
  MaxFence      \* bound on a fence token; 0: no fence store is configured

ASSUME RuntimeAssumption ==
  /\ NoKey \notin Key
  /\ Commands \subseteq Command(Mission)
  /\ Backends \subseteq {"postgres", "memory"}
  /\ MaxVersion \in Nat /\ MaxFaults \in Nat /\ MaxFence \in Nat

VARIABLES
  backend,  \* the backend in use, chosen once
  mission,  \* mission store: [Mission -> Snapshot]
  log,      \* event store: [Mission -> Seq(Event)], in append order
  idem,     \* idempotency store: [Key -> record]
  fence,    \* fence store: [Mission -> Nat]
  pc,       \* where each worker is suspended
  call,     \* the operation it carries out
  base,     \* the snapshots it read
  todo,     \* the missions its recovery pass still has to mark
  token,    \* the fence token it holds, 0 for none
  faults,   \* crashes and failed store calls so far
  applied   \* history: saves made under a key since it was last free

stores == <<backend, mission, log, idem, fence>>
workers == <<pc, call, base, todo, token>>
vars == <<backend, mission, log, idem, fence, pc, call, base, todo, token, faults, applied>>

-----------------------------------------------------------------------------
Event == [type : {"STATE_TRANSITION", "APPROVAL_DECIDED", "RECONCILED"},
          snapshot : Snapshot]

\* A command that stands for none, in the slots that hold one.
NoCommand == [type |-> "none", mission |-> "none", expected |-> NoVersion,
              resolution |-> "UNKNOWN"]

NoResult == [type |-> "none", snapshot |-> Absent]

\* An idempotency record. "FREE" is a key no row exists for; an expired row
\* keeps its payload and is invisible to get.
Record == [status : {"FREE", "EXPIRED", "EXECUTING", "COMPLETED", "FAILED"},
           payload : Commands \union {NoCommand},
           result : Event \union {NoResult}]
Free == [status |-> "FREE", payload |-> NoCommand, result |-> NoResult]

\* An operation in progress. The mission of a recovery pass is the one it is
\* writing.
Operation == {"start", "apply", "recover", "reconcile", "acquire"}
NoCall == [op |-> "none", mission |-> "none", command |-> NoCommand, key |-> NoKey]

Place == {"idle", "lookup", "reflect", "load", "claim", "fence", "save", "append",
          "complete", "fail", "recover", "resolver", "acquire"}

\* No operation is in progress and none has been.
Quiet ==
  /\ pc = [w \in Worker |-> "idle"]
  /\ call = [w \in Worker |-> NoCall]
  /\ base = [w \in Worker |-> [m \in Mission |-> Absent]]
  /\ todo = [w \in Worker |-> {}]
  /\ token = [w \in Worker |-> [m \in Mission |-> 0]]
  /\ faults = 0
  /\ applied = [k \in Key |-> 0]

Init ==
  /\ backend \in Backends
  /\ mission = [m \in Mission |-> Absent]
  /\ log = [m \in Mission |-> <<>>]
  /\ idem = [k \in Key |-> Free]
  /\ fence = [m \in Mission |-> 0]
  /\ Quiet

-----------------------------------------------------------------------------
\* The worker returns, with a result or an error: nothing of the call is left.
Return(w) ==
  /\ pc' = [pc EXCEPT ![w] = "idle"]
  /\ call' = [call EXCEPT ![w] = NoCall]
  /\ base' = [base EXCEPT ![w] = [m \in Mission |-> Absent]]
  /\ todo' = [todo EXCEPT ![w] = {}]

\* The worker goes on to place p of the same call, having read b; "idle" is
\* where its call ends.
Enter(w, p, b) ==
  IF p = "idle" THEN Return(w)
  ELSE /\ pc' = [pc EXCEPT ![w] = p]
       /\ base' = [base EXCEPT ![w] = b]
       /\ UNCHANGED <<call, todo>>

Goto(w, p) == Enter(w, p, base[w])

ThrownAsDone(w) == IF call[w].key = NoKey THEN "idle" ELSE "complete" \* a mutant

\* Where an error takes an operation: apply with a key records FAILED and
\* rethrows, any other operation just throws.
Thrown(w) == IF call[w].key = NoKey THEN "idle" ELSE "fail"

PutKeepsPayload(k, status, payload, result) ==                        \* a mutant
  idem' = [idem EXCEPT ![k] =
             [status |-> status, result |-> result,
              payload |-> IF @.status # "FREE" THEN @.payload ELSE payload]]

\* put: the in-memory map takes the whole record, the Postgres upsert updates
\* status and result and leaves payload_hash as the row has it.
Put(k, status, payload, result) ==
  idem' = [idem EXCEPT ![k] =
             [status |-> status, result |-> result,
              payload |-> IF backend = "postgres" /\ @.status # "FREE"
                         THEN @.payload ELSE payload]]

VisibleOnceFinished(k) == idem[k].status \in {"COMPLETED", "FAILED"}    \* a mutant
Visible(k) == idem[k].status \notin {"FREE", "EXPIRED"}

-----------------------------------------------------------------------------
(* What a worker writes, from the snapshot it read *)

Target(w) == call[w].mission

Write(w) ==
  LET s == base[w][Target(w)]
  IN  CASE call[w].op = "start"     -> Draft
        [] call[w].op = "apply"     -> Successor(s, call[w].command)
        [] call[w].op = "recover"   -> NextSnapshot(s, "UNKNOWN", s)
        [] call[w].op = "reconcile" -> NextSnapshot(s, "RUNNING", s)

BuiltEvent(w) ==
  [type |-> CASE call[w].op \in {"start", "recover"} -> "STATE_TRANSITION"
              [] call[w].op = "apply"     -> EventType(call[w].command)
              [] call[w].op = "reconcile" -> "RECONCILED",
   snapshot |-> Write(w)]

\* Where apply goes with snapshot s, between the call that read or claimed and
\* its next store call: the version check, then the fence check when a token is
\* held, then the terminal guard and the transition.
VersionMatches(c, s) == c.expected \in {NoVersion, s.version}

Proceed(w, s) == IF Admissible(s, call[w].command) THEN "save" ELSE Thrown(w)

Admit(w, s) ==
  IF ~VersionMatches(call[w].command, s) THEN Thrown(w)
  ELSE IF token[w][Target(w)] # 0 THEN "fence"
  ELSE Proceed(w, s)

-----------------------------------------------------------------------------
(* apply *)

BeginApply(w, c, k) ==
  /\ pc[w] = "idle"
  /\ mission[c.mission].version < MaxVersion
  /\ pc' = [pc EXCEPT ![w] = IF k = NoKey THEN "load" ELSE "lookup"]
  /\ call' = [call EXCEPT ![w] =
                [op |-> "apply", mission |-> c.mission, command |-> c, key |-> k]]
  /\ UNCHANGED <<stores, base, todo, token, faults, applied>>

\* idempotency.get: a visible record of another payload is a conflict; a
\* COMPLETED or FAILED one is replayed; an EXECUTING one is reflected.
Lookup(w) ==
  /\ pc[w] = "lookup"
  /\ LET k == call[w].key
     IN  Goto(w, CASE ~Visible(k) -> "load"
                   [] /\ Visible(k)
                      /\ idem[k].payload = call[w].command
                      /\ idem[k].status = "EXECUTING" -> "reflect"
                   [] OTHER -> "idle")
  /\ UNCHANGED <<stores, token, faults, applied>>

\* Answers with the current snapshot and the last event, or ALREADY_EXECUTING:
\* two reads, whose result no store keeps.
Reflect(w) ==
  /\ pc[w] = "reflect"
  /\ Return(w)
  /\ UNCHANGED <<stores, token, faults, applied>>

\* store.findById: MISSION_NOT_FOUND is thrown before any record is claimed.
Load(w) ==
  /\ pc[w] = "load"
  /\ LET s == mission[Target(w)]
     IN  Enter(w, IF s = Absent THEN "idle"
                  ELSE IF call[w].key # NoKey THEN "claim" ELSE Admit(w, s),
               [base[w] EXCEPT ![Target(w)] = s])
  /\ UNCHANGED <<stores, token, faults, applied>>

\* idempotency.put EXECUTING, and what apply does up to its next store call.
Claim(w) ==
  /\ pc[w] = "claim"
  /\ Put(call[w].key, "EXECUTING", call[w].command, NoResult)
  /\ Goto(w, Admit(w, base[w][Target(w)]))
  /\ UNCHANGED <<backend, mission, log, fence, token, faults, applied>>

\* assertFence, then the terminal guard and the transition.
CheckFence(w) ==
  /\ pc[w] = "fence"
  /\ Goto(w, IF token[w][Target(w)] < fence[Target(w)] THEN Thrown(w)
             ELSE Proceed(w, base[w][Target(w)]))
  /\ UNCHANGED <<stores, token, faults, applied>>

\* store.save: an unconditional upsert.
Save(w) ==
  /\ pc[w] = "save"
  /\ mission' = [mission EXCEPT ![Target(w)] = Write(w)]
  /\ applied' = IF call[w].key = NoKey THEN applied
                ELSE [applied EXCEPT ![call[w].key] = @ + 1]
  /\ Goto(w, "append")
  /\ UNCHANGED <<backend, log, idem, fence, token, faults>>

\* Where an operation goes once its event is appended.
Appended(w) ==
  CASE call[w].key # NoKey                      -> "complete"
    [] call[w].op = "recover" /\ todo[w] # {}   -> "recover"
    [] OTHER                                    -> "idle"

\* UNIQUE (mission_id, sequence)
Rejected(m, e) ==
  /\ backend = "postgres"
  /\ \E i \in 1..Len(log[m]) : log[m][i].snapshot.version = e.snapshot.version

\* events.append
AppendEvent(w) ==
  LET e == BuiltEvent(w)
  IN  /\ pc[w] = "append"
      /\ \/ /\ Rejected(Target(w), e)
            /\ Goto(w, Thrown(w))
            /\ UNCHANGED log
         \/ /\ ~Rejected(Target(w), e)
            /\ log' = [log EXCEPT ![Target(w)] = Append(@, e)]
            /\ Goto(w, Appended(w))
      /\ UNCHANGED <<backend, mission, idem, fence, token, faults, applied>>

Complete(w) ==
  /\ pc[w] = "complete"
  /\ Put(call[w].key, "COMPLETED", call[w].command, BuiltEvent(w))
  /\ Return(w)
  /\ UNCHANGED <<backend, mission, log, fence, token, faults, applied>>

Fail(w) ==
  /\ pc[w] = "fail"
  /\ Put(call[w].key, "FAILED", call[w].command, NoResult)
  /\ Return(w)
  /\ UNCHANGED <<backend, mission, log, fence, token, faults, applied>>

-----------------------------------------------------------------------------
(* start, recoverIncomplete, reconcile *)

\* start: a fresh identifier, then save, then append.
Start(w, m) ==
  /\ pc[w] = "idle"
  /\ mission[m] = Absent
  /\ \A v \in Worker : ~(call[v].op = "start" /\ call[v].mission = m)
  /\ pc' = [pc EXCEPT ![w] = "save"]
  /\ call' = [call EXCEPT ![w] =
                [op |-> "start", mission |-> m, command |-> NoCommand, key |-> NoKey]]
  /\ UNCHANGED <<stores, base, todo, token, faults, applied>>

\* store.findByStatus, once for the whole pass.
BeginRecover(w) ==
  LET found == {m \in Mission : mission[m].status \in DefaultRecoverable}
  IN  /\ pc[w] = "idle"
      /\ found # {}
      /\ \A m \in found : mission[m].version < MaxVersion
      /\ base' = [base EXCEPT ![w] = mission]
      /\ todo' = [todo EXCEPT ![w] = found]
      /\ pc' = [pc EXCEPT ![w] = "recover"]
      /\ call' = [call EXCEPT ![w] = [NoCall EXCEPT !.op = "recover"]]
      /\ UNCHANGED <<stores, token, faults, applied>>

RecoverOneUnlogged(w, m) ==                                           \* a mutant
  /\ pc[w] = "recover"
  /\ m \in todo[w]
  /\ todo' = [todo EXCEPT ![w] = @ \ {m}]
  /\ pc' = [pc EXCEPT ![w] = IF todo[w] = {m} THEN "idle" ELSE "recover"]
  /\ mission' = [mission EXCEPT ![m] =
                   NextSnapshot(base[w][m], "UNKNOWN", base[w][m])]
  /\ UNCHANGED <<backend, log, idem, fence, call, base, token, faults, applied>>

\* The loop body up to its save, for the next mission of the list.
RecoverOne(w, m) ==
  /\ pc[w] = "recover"
  /\ m \in todo[w]
  /\ todo' = [todo EXCEPT ![w] = @ \ {m}]
  /\ call' = [call EXCEPT ![w].mission = m]
  /\ pc' = [pc EXCEPT ![w] = "append"]
  /\ mission' = [mission EXCEPT ![m] =
                   NextSnapshot(base[w][m], "UNKNOWN", base[w][m])]
  /\ UNCHANGED <<backend, log, idem, fence, base, token, faults, applied>>

BeginReconcileAny(w, m) ==                                            \* a mutant
  /\ pc[w] = "idle"
  /\ mission[m].version \in 1..(MaxVersion - 1)
  /\ base' = [base EXCEPT ![w][m] = mission[m]]
  /\ pc' = [pc EXCEPT ![w] = "resolver"]
  /\ call' = [call EXCEPT ![w] = [NoCall EXCEPT !.op = "reconcile", !.mission = m]]
  /\ UNCHANGED <<stores, todo, token, faults, applied>>

\* reconcile: findById; anything but UNKNOWN is refused.
BeginReconcile(w, m) ==
  /\ pc[w] = "idle"
  /\ mission[m].status = "UNKNOWN"
  /\ mission[m].version < MaxVersion
  /\ base' = [base EXCEPT ![w][m] = mission[m]]
  /\ pc' = [pc EXCEPT ![w] = "resolver"]
  /\ call' = [call EXCEPT ![w] = [NoCall EXCEPT !.op = "reconcile", !.mission = m]]
  /\ UNCHANGED <<stores, todo, token, faults, applied>>

\* reconcileExternalCall: an absent or failing resolver throws, and so does
\* "executed" without verifiable evidence; "indeterminate" leaves the mission
\* to a professional; otherwise execution resumes.
ResolverAnswers(w, outcome, verifiable) ==
  /\ pc[w] = "resolver"
  /\ Goto(w, IF outcome = "not-executed" \/ (outcome = "executed" /\ verifiable)
             THEN "save" ELSE "idle")
  /\ UNCHANGED <<stores, token, faults, applied>>

-----------------------------------------------------------------------------
(* Fence tokens, acquired by the caller of apply *)

\* acquireFence reads the current token and adds one ...
ReadFence(w, m) ==
  /\ pc[w] = "idle"
  /\ fence[m] < MaxFence
  /\ pc' = [pc EXCEPT ![w] = "acquire"]
  /\ call' = [call EXCEPT ![w] = [NoCall EXCEPT !.op = "acquire", !.mission = m]]
  /\ token' = [token EXCEPT ![w][m] = fence[m] + 1]
  /\ UNCHANGED <<stores, base, todo, faults, applied>>

\* ... and writes the sum in a second call.
WriteFence(w) ==
  /\ pc[w] = "acquire"
  /\ fence' = [fence EXCEPT ![Target(w)] = token[w][Target(w)]]
  /\ Return(w)
  /\ UNCHANGED <<backend, mission, log, idem, token, faults, applied>>

-----------------------------------------------------------------------------
(* The environment *)

\* The worker's process dies between two calls and restarts.
Crash(w) ==
  /\ backend = "postgres"
  /\ faults < MaxFaults
  /\ pc[w] # "idle"
  /\ faults' = faults + 1
  /\ Return(w)
  /\ token' = [token EXCEPT ![w] = [m \in Mission |-> 0]]
  /\ UNCHANGED <<stores, applied>>

\* A store call rejects without effect. (A call that fails before anything was
\* claimed or written only ends its operation, as an error return does.)
StoreFails(w) ==
  /\ backend = "postgres"
  /\ faults < MaxFaults
  /\ pc[w] \in {"save", "append", "complete", "fence", "fail"}
  /\ faults' = faults + 1
  /\ Goto(w, IF pc[w] = "fail" THEN "idle" ELSE Thrown(w))
  /\ UNCHANGED <<stores, token, applied>>

ExpireFinished(k) ==                                                  \* a mutant
  /\ idem[k].status \in {"COMPLETED", "FAILED"}
  /\ \A w \in Worker : call[w].key # k
  /\ idem' = [idem EXCEPT ![k] = Free]
  /\ applied' = [applied EXCEPT ![k] = 0]
  /\ UNCHANGED <<backend, mission, log, fence, workers, faults>>

\* The time to live of a record runs out. In memory, get then deletes it. It is
\* 24 hours: a call in progress is assumed not to last as long.
Expire(k) ==
  /\ Visible(k)
  /\ \A w \in Worker : call[w].key # k
  /\ idem' = [idem EXCEPT ![k] =
                IF backend = "memory" THEN Free
                ELSE [status |-> "EXPIRED", payload |-> @.payload, result |-> NoResult]]
  /\ applied' = [applied EXCEPT ![k] = 0]
  /\ UNCHANGED <<backend, mission, log, fence, workers, faults>>

\* Every mission is at the bound: nothing more is asked.
Rest ==
  /\ \A w \in Worker : pc[w] = "idle"
  /\ \A m \in Mission : mission[m].version >= MaxVersion
  /\ UNCHANGED vars

-----------------------------------------------------------------------------
\* What a suspended worker does next on its own.
Step(w) ==
  \/ Lookup(w) \/ Reflect(w) \/ Load(w) \/ Claim(w) \/ CheckFence(w)
  \/ Save(w) \/ AppendEvent(w) \/ Complete(w) \/ Fail(w)
  \/ \E m \in Mission : RecoverOne(w, m)
  \/ \E outcome \in {"executed", "not-executed", "indeterminate", "throws"},
        verifiable \in BOOLEAN : ResolverAnswers(w, outcome, verifiable)
  \/ WriteFence(w)

Begin(w) ==
  \/ \E m \in Mission : Start(w, m)
  \/ \E c \in Commands, k \in Key \union {NoKey} : BeginApply(w, c, k)
  \/ BeginRecover(w)
  \/ \E m \in Mission : BeginReconcile(w, m) \/ ReadFence(w, m)

Next ==
  \/ \E w \in Worker : Begin(w) \/ Step(w) \/ Crash(w) \/ StoreFails(w)
  \/ \E k \in Key : Expire(k)
  \/ Rest

Spec == Init /\ [][Next]_vars

\* A call that is suspended on a store goes on when the store answers, and time
\* passes: a record that can expire again and again does.
FairSpec ==
  /\ Spec
  /\ \A w \in Worker : WF_vars(Step(w))
  /\ \A k \in Key : SF_vars(Expire(k))

-----------------------------------------------------------------------------
\* Every store and every suspended call stays in its domain.
TypeOK ==
  /\ backend \in Backends
  /\ mission \in [Mission -> Snapshot]
  /\ log \in [Mission -> Seq(Event)]
  /\ idem \in [Key -> Record]
  /\ fence \in [Mission -> Nat]
  /\ pc \in [Worker -> Place]
  /\ call \in [Worker -> [op : Operation \union {"none"},
                           mission : Mission \union {"none"},
                           command : Commands \union {NoCommand},
                           key : Key \union {NoKey}]]
  /\ base \in [Worker -> [Mission -> Snapshot]]
  /\ todo \in [Worker -> SUBSET Mission]
  /\ token \in [Worker -> [Mission -> Nat]]
  /\ faults \in Nat
  /\ applied \in [Key -> Nat]

Logged(m, e) == \E i \in 1..Len(log[m]) : log[m][i] = e

\* A result that is replayed to a retry is an event of the log: whatever the
\* interleaving, the crash or the refused write, no client is ever told of a
\* state change that did not make it to the event log (runtime.ts, apply:
\* COMPLETED is put after the append).
CompletedIsLogged ==
  \A k \in Key :
    idem[k].status = "COMPLETED" => \E m \in Mission : Logged(m, idem[k].result)

\* e is an answer to command c.
Answers(e, c) ==
  /\ e.type = EventType(c)
  /\ CASE c.type = "approve"   -> e.snapshot.status = "APPROVED"
       [] c.type = "reject"    -> e.snapshot.status = "REJECTED"
       [] c.type = "reconcile" -> e.snapshot.status = c.resolution
       [] c.type = "execute"   -> e.snapshot.status \notin {"APPROVED", "REJECTED"}

\* missions/store.ts: "payloadHash is the canonical SHA-256 of the command;
\* result carries the cached { snapshot, event } outcome". A completed record
\* holds an outcome of the very command its payload hash names, on its mission.
ReplayAnswersPayload ==
  \A k \in Key :
    idem[k].status = "COMPLETED" =>
      /\ Answers(idem[k].result, idem[k].payload)
      /\ Logged(idem[k].payload.mission, idem[k].result)

\* The in-memory store keeps that promise, even when two calls with different
\* payloads race for one key or a key is used again after it expired.
InMemoryReplayAnswersPayload == backend = "memory" => ReplayAnswersPayload

\* Between two expirations a key's command takes effect at most once per call
\* that was in progress when the key was still free: once under one owner, in
\* spite of crashes and retries (runtime.ts: "EXECUTING/COMPLETED records
\* replay the cached result"). Claiming a key is a get and a put, not a
\* compare-and-set, so concurrent calls are bounded by their number only.
AppliedOncePerCall == \A k \in Key : applied[k] <= Cardinality(Worker)

\* No key stays locked: an EXECUTING record is completed, failed or expired,
\* even if the process that claimed it crashed (store.ts: "a retried command
\* after the TTL window re-executes cleanly").
ExecutingSettles ==
  \A k \in Key : idem[k].status = "EXECUTING" ~> idem[k].status # "EXECUTING"

-----------------------------------------------------------------------------
(* What holds under one owner (contracts/recovery.md, "Fencing note") *)

\* The runtime implements the atomic protocol: what its sequences of store
\* calls make of a mission is a sequence of legal, undivided operations.
Life == INSTANCE MissionLifecycle WITH
          Missions <- Mission,
          work <- [m \in Mission |->
                     [status |-> mission[m].status, done |-> mission[m].done,
                      staged |-> mission[m].proposal # 0]]
ImplementsLifecycle == Life!LifecycleSpec

\* The log replays along the transition table, in the order the events were
\* appended (recovery/replay.ts): sequences strictly increase, also in the
\* backend without a unique constraint, and consecutive ones are a legal
\* transition (contracts/mission-protocol.md: "strictly increasing").
LoggedHistoryIsLegal ==
  \A m \in Mission : \A i, j \in 1..Len(log[m]) :
    LET s == log[m][i].snapshot
        t == log[m][j].snapshot
    IN  /\ i < j => s.version < t.version
        /\ t.version = s.version + 1 => t.status \in ValidTransitions[s.status]

\* contracts/recovery.md: "the last persisted event's snapshot is the
\* authoritative mission state". Without faults the stored snapshot is that of
\* the last event whenever no write is half done. With them each version still
\* has its event, but for one per fault and the one whose append is pending: no
\* transaction binds save and append, so a crash between them loses one event
\* for good and no more.
LogIsTheTruth ==
  \A m \in Mission :
    LET pending == {w \in Worker : pc[w] = "append" /\ Target(w) = m}
    IN  /\ faults = 0 /\ pending = {} /\ mission[m] # Absent
             => log[m] # <<>> /\ log[m][Len(log[m])].snapshot = mission[m]
        /\ mission[m].version <= Len(log[m]) + faults + Cardinality(pending)

\* The proposal that awaits approval is the one staged by the version just
\* before (agents/handlers.ts, stageProposal): after a withdrawal and a new
\* staging no older one is left in its place, so that a decision taken on the
\* expected version is a decision on this proposal.
ProposalIsCurrent ==
  \A m \in Mission :
    mission[m].status = "AWAITING_APPROVAL" =>
      mission[m].proposal = mission[m].version - 1

\* contracts/mission-protocol.md: "a stale version is rejected with
\* VERSION_CONFLICT": what a command with an expected version overwrites is
\* that version.
ExpectedVersionHonoured ==
  [][\A w \in Worker :
       pc[w] = "save" /\ pc'[w] = "append" /\ call[w].command.expected # NoVersion
         => mission[Target(w)].version = call[w].command.expected]_vars
=============================================================================
