------------------------------- MODULE Delivery -------------------------------
(***************************************************************************)
(* What keeps an effect on the outside world from happening twice: the     *)
(* outbox (missions/outbox.ts, PostgresOutboxStore), the connector         *)
(* boundary with its execution driver (adapters/connector.ts and the       *)
(* driver of adapters/__tests__/connector-conformance.test.ts, the only    *)
(* one there is) and the fence tokens of workers (missions/fencing.ts).    *)
(*                                                                         *)
(* Every awaited store call is a step of its own.  With the stores in      *)
(* memory all callers live in one process and a crash takes the stores     *)
(* along; with PostgreSQL each caller may die alone.  The external system  *)
(* is a count of what it executed.                                         *)
(***************************************************************************)
EXTENDS Integers, Sequences, FiniteSets

CONSTANTS
    Caller, Payload, Key,
    ValidKey,       \* the keys isValidIdempotencyKey accepts
    Declared,       \* targets within the connector's declared capability
    Target,         \* targets that callers name
    MaxRows, MaxAttempts, MaxExecutions, MaxToken, MaxFaults     \* bounds

ASSUME DeliveryAssumption ==
  /\ ValidKey \subseteq Key /\ Declared \subseteq Target
  /\ {MaxRows, MaxAttempts, MaxExecutions, MaxToken, MaxFaults} \subseteq Nat

VARIABLES
    backend,        \* "memory" or "postgres"
    subject,        \* what callers use; the three share nothing but the callers,
                    \* so a behaviour is about one of them
    rows,           \* the outbox, in the order of insertion
    records,        \* the idempotency records of connector calls
    fence,          \* the current fence token of a mission
    call,           \* [Caller -> the call it is in, and how far]
    token,          \* [Caller -> the fence token it holds, 0 for none]
    executed,       \* [Key -> the payloads the external system executed]
    delivered,      \* [Payload -> how many deliveries were answered true]
    answers,        \* what connector calls answered
    excused,        \* payloads, keys and "fence": calls about them overlapped,
                    \* or what was known of them was lost or taken back
    faults          \* crashes, expiries and late failures so far

stores == <<rows, records, fence>>
outside == <<executed, delivered, answers>>
system == <<backend, subject>>
vars == <<system, stores, call, token, outside, excused, faults>>

Idle == [at |-> "idle", payload |-> "", key |-> "", row |-> 0, kind |-> "", of |-> "", read |-> 0]

NoRecord == [status |-> "none", payload |-> "", kind |-> "", of |-> ""]

Init ==
  /\ backend \in {"memory", "postgres"}
  /\ subject \in {"outbox", "connector", "fence"}
  /\ rows = <<>> /\ records = [k \in Key |-> NoRecord] /\ fence = 0
  /\ call = [c \in Caller |-> Idle] /\ token = [c \in Caller |-> 0]
  /\ executed = [k \in Key |-> <<>>] /\ delivered = [p \in Payload |-> 0] /\ answers = {}
  /\ excused = {} /\ faults = 0

-----------------------------------------------------------------------------
(* Calls. *)

Begin(c, fields) ==
  /\ call[c] = Idle
  /\ call' = [call EXCEPT ![c] = fields]

Continue(c, fields) == call' = [call EXCEPT ![c] = fields]

Return(c) == call' = [call EXCEPT ![c] = Idle]

\* Another call is between the same two store calls about the same thing.
Meets(c, at, field, value) ==
  \E d \in Caller \ {c} : call[d].at = at /\ call[d][field] = value

Excuse(x, if) == excused' = IF if THEN excused \union {x} ELSE excused

-----------------------------------------------------------------------------
(* The outbox. *)

RowsOf(p) == {i \in DOMAIN rows : rows[i].payload = p}

\* enqueueMessage, up to findPending: a payload that is queued or delivered is
\* not queued again (nor is any once the bound on rows is reached).
EnqueueFind(c, p) ==
  /\ subject = "outbox"
  /\ IF RowsOf(p) # {} \/ Len(rows) = MaxRows
     THEN /\ call[c] = Idle /\ UNCHANGED <<call, excused>>
     ELSE /\ Begin(c, [Idle EXCEPT !.at = "insert", !.payload = p])
          /\ Excuse(p, Meets(c, "insert", "payload", p))
  /\ UNCHANGED <<system, stores, token, outside, faults>>

\* store.enqueue: in memory a delivered payload is refused, in PostgreSQL the
\* unique index (aggregate_id, payload_hash) refuses any.
Insertable(p) ==
  IF backend = "postgres"
  THEN RowsOf(p) = {}
  ELSE RowsOf(p) = {} \/ rows[CHOOSE i \in RowsOf(p) : \A j \in RowsOf(p) : i <= j].status
                           # "delivered"

EnqueueInsert(c) ==
  /\ call[c].at = "insert"
  /\ rows' = IF Insertable(call[c].payload) /\ Len(rows) < MaxRows
             THEN Append(rows, [payload |-> call[c].payload, status |-> "pending",
                                attempts |-> 0])
             ELSE rows
  /\ Return(c)
  /\ UNCHANGED <<system, records, fence, token, outside, excused, faults>>

\* deliverMessage, up to the check of the status.
DeliverableAnyway(i) == i \in DOMAIN rows                           \* a mutant
Deliverable(i) == i \in DOMAIN rows /\ rows[i].status # "delivered"

DeliverRead(c, i) ==
  /\ IF Deliverable(i)
     THEN /\ Begin(c, [Idle EXCEPT !.at = "mark", !.row = i])
          /\ Excuse(rows[i].payload, Meets(c, "mark", "row", i))
     ELSE /\ call[c] = Idle /\ UNCHANGED <<call, excused>>
  /\ UNCHANGED <<system, stores, token, outside, faults>>

\* markDelivered, of whatever status the row has by then.
DeliverMark(c) ==
  LET p == rows[call[c].row].payload IN
  /\ call[c].at = "mark"
  /\ rows' = [rows EXCEPT ![call[c].row].status = "delivered"]
  /\ delivered' = [delivered EXCEPT ![p] = @ + 1]
  /\ Return(c)
  /\ UNCHANGED <<system, records, fence, token, executed, answers, excused, faults>>

\* markFailed, called by a dispatcher: it does not look at the status.
MarkFailed(i) ==
  /\ faults < MaxFaults /\ rows[i].attempts < MaxAttempts
  /\ rows' = [rows EXCEPT ![i] = [rows[i] EXCEPT !.status = "failed", !.attempts = @ + 1]]
  /\ Excuse(rows[i].payload, rows[i].status = "delivered")
  /\ faults' = faults + 1
  /\ UNCHANGED <<system, records, fence, call, token, outside>>

-----------------------------------------------------------------------------
(* Connector calls. *)

\* A request with a non-empty mission; its payload is the envelope: mission,
\* target, scope and command.
Request == [key : Key, payload : Payload, target : Target, scopeValid : BOOLEAN,
            responseScopeSame : BOOLEAN]

\* validateConnectorExecuteRequest, assertConnectorAuthority and
\* assertSameConnectorScope; a request they refuse changes nothing.
Admitted(r) ==
  /\ r.key \in ValidKey /\ r.scopeValid
  /\ r.target \in Declared
  /\ r.responseScopeSame

Answer(key, payload, kind, of) ==
  [key |-> key, payload |-> payload, kind |-> kind, of |-> of]

\* The driver looks its key up: a record of another payload is a conflict, an
\* executing one is refused, a finished one is replayed.
ClaimableUnlessFinished(r) == records[r.key].status \in {"none", "EXECUTING"} \* a mutant
Claimable(r) == records[r.key].status = "none"
ReplayedAnyPayload(r) == records[r.key].status \in {"COMPLETED", "FAILED"} \* a mutant
ReplayedUnlessConflict(r) ==
  /\ records[r.key].status \in {"COMPLETED", "FAILED"}
  /\ records[r.key].payload = r.payload

Execute(c, r) ==
  /\ subject = "connector" /\ Admitted(r)
  /\ call[c] = Idle
  /\ IF Claimable(r)
     THEN /\ Continue(c, [Idle EXCEPT !.at = "claim", !.key = r.key, !.payload = r.payload])
          /\ Excuse(r.key, Meets(c, "claim", "key", r.key))
          /\ UNCHANGED answers
     ELSE /\ answers' = IF ReplayedUnlessConflict(r)
                        THEN answers \union {Answer(r.key, r.payload, records[r.key].kind,
                                                    records[r.key].of)}
                        ELSE answers
          /\ UNCHANGED <<call, excused>>
  /\ UNCHANGED <<system, stores, token, executed, delivered, faults>>

\* idempotencyStore.put. PostgreSQL keeps the payload hash of an existing row.
Put(k, status, payload, kind, of) ==
  records' = [records EXCEPT ![k] =
    [status |-> status, kind |-> kind, of |-> of,
     payload |-> IF backend = "postgres" /\ @.status # "none" THEN @.payload ELSE payload]]

Claim(c) ==
  /\ call[c].at = "claim"
  /\ Put(call[c].key, "EXECUTING", call[c].payload, "", "")
  /\ Continue(c, [call[c] EXCEPT !.at = "hook"])
  /\ UNCHANGED <<system, rows, fence, token, outside, excused, faults>>

\* The vendor call. It may execute whatever it answers, and a success with
\* evidence that can be verified has executed (external).
Outcome == {"SUCCESS", "UNKNOWN", "unverifiable", "thrown"}

Hook(c) ==
  \E kind \in Outcome, did \in BOOLEAN :
    /\ call[c].at = "hook"
    /\ kind = "SUCCESS" => did
    /\ did => Len(executed[call[c].key]) < MaxExecutions
    /\ executed' = IF did THEN [executed EXCEPT ![call[c].key] = Append(@, call[c].payload)]
                   ELSE executed
    /\ Continue(c, [call[c] EXCEPT !.at = "finish", !.kind = kind])
    /\ UNCHANGED <<system, stores, token, delivered, answers, excused, faults>>

\* assertConnectorResult: a success needs verifiable evidence.
Conclusive(kind) == kind \in {"SUCCESS", "UNKNOWN"}

Finish(c) ==
  LET k    == call[c].key
      p    == call[c].payload
      kind == IF Conclusive(call[c].kind) THEN call[c].kind ELSE "error"
  IN  /\ call[c].at = "finish"
      /\ Put(k, IF kind = "error" THEN "FAILED" ELSE "COMPLETED", p, kind, p)
      /\ answers' = answers \union {Answer(k, p, kind, p)}
      /\ Return(c)
      /\ UNCHANGED <<system, rows, fence, token, executed, delivered, excused, faults>>

\* The TTL of a record runs out, also while its call is still executing.
Expire(k) ==
  /\ faults < MaxFaults
  /\ records[k].status # "none"
  /\ records' = [records EXCEPT ![k] = NoRecord]
  /\ excused' = excused \union {k}
  /\ faults' = faults + 1
  /\ UNCHANGED <<system, rows, fence, call, token, outside>>

-----------------------------------------------------------------------------
(* Fence tokens, of one mission. *)

\* acquireFence: getToken, then setToken.
ReadFence(c) ==
  /\ subject = "fence" /\ fence < MaxToken
  /\ Begin(c, [Idle EXCEPT !.at = "fence", !.read = fence])
  /\ Excuse("fence", Meets(c, "fence", "at", "fence"))
  /\ UNCHANGED <<system, stores, token, outside, faults>>

SetFence(c) ==
  /\ call[c].at = "fence"
  /\ fence' = call[c].read + 1
  /\ token' = [token EXCEPT ![c] = call[c].read + 1]
  /\ Return(c)
  /\ UNCHANGED <<system, rows, records, outside, excused, faults>>

\* assertFence lets the holder of a token through.
PassesOneBehind(c) == token[c] # 0 /\ token[c] + 1 >= fence         \* a mutant
Passes(c) == token[c] # 0 /\ token[c] >= fence

-----------------------------------------------------------------------------
\* A process dies: one caller's, or with everything in memory the only one.
Crash(dead) ==
  /\ faults < MaxFaults
  /\ dead # {}
  /\ backend = "memory" => dead = Caller
  /\ call' = [c \in Caller |-> IF c \in dead THEN Idle ELSE call[c]]
  /\ token' = [c \in Caller |-> IF c \in dead THEN 0 ELSE token[c]]
  /\ IF backend = "memory"
     THEN /\ rows' = <<>> /\ records' = [k \in Key |-> NoRecord] /\ fence' = 0
          /\ excused' = excused \union Payload \union Key
     ELSE UNCHANGED <<stores, excused>>
  /\ faults' = faults + 1
  /\ UNCHANGED <<system, outside>>

Next ==
  \/ \E c \in Caller :
       \/ \E p \in Payload : EnqueueFind(c, p)
       \/ EnqueueInsert(c)
       \/ \E i \in DOMAIN rows : DeliverRead(c, i)
       \/ DeliverMark(c)
       \/ \E r \in Request : Execute(c, r)
       \/ Claim(c) \/ Hook(c) \/ Finish(c)
       \/ ReadFence(c) \/ SetFence(c)
  \/ \E i \in DOMAIN rows : MarkFailed(i)
  \/ \E k \in Key : Expire(k)
  \/ \E dead \in SUBSET Caller : Crash(dead)

Spec == Init /\ [][Next]_vars

-----------------------------------------------------------------------------
\* A payload is delivered once: only overlapping calls, a message failed after
\* its delivery, or the loss of a store in memory lets it be delivered again
\* (missions/outbox.ts: "delivered exactly once").
DeliveredOnce ==
  \A p \in Payload \ excused : delivered[p] <= 1 /\ Cardinality(RowsOf(p)) <= 1

\* The external system executes once per key, crashes between any two steps
\* and retries included, and whoever is answered, at once or by a replay, is
\* answered about his own payload, a success only of what was executed; unless
\* two claims overlapped or the record was lost (adapters/connector.ts, the
\* idempotency claim).
ExecutedOnce ==
  /\ \A k \in Key \ excused : Len(executed[k]) <= 1
  /\ \A a \in answers :
       a.key \notin excused =>
         /\ a.of = a.payload
         /\ a.kind = "SUCCESS" => \E i \in DOMAIN executed[a.key] : executed[a.key][i] = a.of

\* At most one holder of a token passes the fence, however workers take over
\* from each other, unless two of them acquired at the same time.
OneWorkerPasses ==
  "fence" \notin excused => Cardinality({c \in Caller : Passes(c)}) <= 1

=============================================================================
