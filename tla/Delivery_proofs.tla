---------------------------- MODULE Delivery_proofs ----------------------------
(***************************************************************************)
(* Proofs about the outbox, connector calls and fence tokens, for any set  *)
(* of callers, payloads and keys, both backends, and any number of crashes,*)
(* expiries and late failures.                                             *)
(*                                                                         *)
(* Each part has an invariant about what nothing has excused: an object    *)
(* that has not been excused is in the hands of one call at most, and what *)
(* that call read is still so.                                             *)
(***************************************************************************)
EXTENDS Delivery, FiniteSetTheorems, TLAPS

(* Types *)

Row == [payload : Payload, status : {"pending", "delivered", "failed"}, attempts : Nat]

Record == [status : {"none", "EXECUTING", "COMPLETED", "FAILED"},
           payload : Payload \union {""}, kind : {"", "SUCCESS", "UNKNOWN", "error"},
           of : Payload \union {""}]

Place == {"idle", "insert", "mark", "claim", "hook", "finish", "fence"}

Call == [at : Place, payload : Payload \union {""}, key : Key \union {""}, row : Nat,
         kind : Outcome \union {""}, of : {""}, read : Nat]

\* What a call in progress is about.
CallAbout(e) ==
  /\ e.at \in {"insert", "claim", "hook", "finish"} => e.payload \in Payload
  /\ e.at \in {"claim", "hook", "finish"} => e.key \in Key
  /\ e.at = "mark" => e.row \in DOMAIN rows
  /\ e.at = "finish" => e.kind \in Outcome

TypeOK ==
  /\ rows \in Seq(Row) /\ records \in [Key -> Record] /\ fence \in Nat
  /\ call \in [Caller -> Call] /\ token \in [Caller -> Nat]
  /\ executed \in [Key -> Seq(Payload)] /\ delivered \in [Payload -> Nat]
  /\ faults \in Nat
  /\ \A c \in Caller : CallAbout(call[c])

CallsOK ==
  /\ call \in [Caller -> Call]
  /\ \A c \in Caller : CallAbout(call[c])

-----------------------------------------------------------------------------
(* What a step may do to the calls: one call moves, or a crash ends some. *)

LEMMA IdleType == Idle \in Call /\ Idle.at = "idle"
BY DEF Idle, Call, Place


\* A row that only gains a status or attempts keeps what calls say of it.
LEMMA SameRows ==
  ASSUME rows \in Seq(Row), NEW r \in Seq(Row), Len(rows) <= Len(r)
  PROVE  DOMAIN rows \subseteq DOMAIN r
<1>1. DOMAIN rows = 1..Len(rows) /\ DOMAIN r = 1..Len(r)
  OBVIOUS
<1> QED
  BY <1>1

LEMMA InitTypes == Init => TypeOK
<1> SUFFICES ASSUME Init
             PROVE  TypeOK
  OBVIOUS
<1>1. NoRecord \in Record
  BY DEF NoRecord, Record
<1>2. rows \in Seq(Row) /\ \A k \in Key : executed[k] \in Seq(Payload)
  BY DEF Init
<1> QED
  BY <1>1, <1>2, IdleType DEF Init, TypeOK, CallAbout

\* A caller that goes on with a call of its type, over no fewer rows.
LEMMA MovesType ==
  ASSUME TypeOK, NEW c \in Caller, NEW e \in Call, call' = [call EXCEPT ![c] = e],
         rows' = rows \/ (rows' \in Seq(Row) /\ Len(rows) <= Len(rows')), CallAbout(e)
  PROVE  CallsOK'
<1>1. DOMAIN rows \subseteq DOMAIN rows'
  BY SameRows DEF TypeOK
<1> QED
  BY <1>1 DEF TypeOK, CallsOK, CallAbout

LEMMA OutboxTypes ==
  ASSUME TypeOK, NEW c \in Caller,
         \/ \E p \in Payload : EnqueueFind(c, p)
         \/ EnqueueInsert(c) \/ DeliverMark(c)
         \/ \E i \in DOMAIN rows : DeliverRead(c, i)
  PROVE  TypeOK'
<1>0. /\ rows \in Seq(Row) /\ call \in [Caller -> Call] /\ call[c] \in Call
      /\ CallAbout(call[c])
  BY DEF TypeOK
<1>1. ASSUME NEW p \in Payload, EnqueueFind(c, p)
      PROVE  TypeOK'
  <2>1. CASE UNCHANGED call
    BY <1>1, <2>1 DEF EnqueueFind, TypeOK, CallAbout, stores, outside
  <2>2. CASE Begin(c, [Idle EXCEPT !.at = "insert", !.payload = p])
    <3>1. PICK e : e = [Idle EXCEPT !.at = "insert", !.payload = p]
      OBVIOUS
    <3>2. e \in Call /\ CallAbout(e)
      BY <3>1 DEF Idle, Call, Place, CallAbout
    <3>3. call' = [call EXCEPT ![c] = e] /\ rows' = rows
      BY <1>1, <2>2, <3>1 DEF Begin, EnqueueFind, stores
    <3>9. CallsOK'
      BY <3>2, <3>3, MovesType
    <3> QED
      BY <1>0, <1>1, <3>2, <3>3, <3>9 DEF EnqueueFind, TypeOK, stores, outside, CallsOK
  <2> QED
    BY <1>1, <2>1, <2>2 DEF EnqueueFind
<1>2. CASE EnqueueInsert(c)
  <2>1. call[c].payload \in Payload
    BY <1>0, <1>2 DEF EnqueueInsert, CallAbout
  <2>2. rows' \in Seq(Row) /\ Len(rows) <= Len(rows')
    <3>1. PICK r : r = [payload |-> call[c].payload, status |-> "pending", attempts |-> 0]
      OBVIOUS
    <3>2. r \in Row /\ rows' \in {rows, Append(rows, r)}
      BY <1>2, <2>1, <3>1 DEF EnqueueInsert, Row
    <3> QED
      BY <1>0, <3>2
  <2>3. call' = [call EXCEPT ![c] = Idle] /\ CallAbout(Idle)
    BY <1>2, IdleType DEF EnqueueInsert, Return, CallAbout
  <2>9. CallsOK'
    BY <1>2, <2>2, <2>3, IdleType, MovesType
  <2> QED
    BY <1>2, <2>2, <2>3, <2>9 DEF EnqueueInsert, TypeOK, outside, CallsOK
<1>3. ASSUME NEW i \in DOMAIN rows, DeliverRead(c, i)
      PROVE  TypeOK'
  <2>1. CASE UNCHANGED call
    BY <1>3, <2>1 DEF DeliverRead, TypeOK, CallAbout, stores, outside
  <2>2. CASE Begin(c, [Idle EXCEPT !.at = "mark", !.row = i])
    <3>1. PICK e : e = [Idle EXCEPT !.at = "mark", !.row = i]
      OBVIOUS
    <3>0. i \in Nat
      BY <1>0
    <3>2. e \in Call /\ CallAbout(e)
      BY <3>0, <3>1 DEF Idle, Call, Place, CallAbout
    <3>3. call' = [call EXCEPT ![c] = e] /\ rows' = rows
      BY <1>3, <2>2, <3>1 DEF Begin, DeliverRead, stores
    <3>9. CallsOK'
      BY <1>0, <1>3, <3>2, <3>3, MovesType
    <3> QED
      BY <1>0, <1>3, <3>2, <3>3, <3>9 DEF DeliverRead, TypeOK, stores, outside, CallsOK
  <2> QED
    BY <1>3, <2>1, <2>2 DEF DeliverRead
<1>4. CASE DeliverMark(c)
  <2>1. PICK i \in DOMAIN rows : i = call[c].row
    BY <1>0, <1>4 DEF DeliverMark, CallAbout
  <2>2. rows[i] \in Row /\ rows' = [rows EXCEPT ![i].status = "delivered"]
    BY <1>0, <1>4, <2>1 DEF DeliverMark
  <2>3. [rows[i] EXCEPT !.status = "delivered"] \in Row
    BY <2>2 DEF Row
  <2>4. rows' \in Seq(Row) /\ Len(rows) <= Len(rows')
    BY <1>0, <2>2, <2>3
  <2>5. delivered' \in [Payload -> Nat]
    BY <1>4, <2>1, <2>2 DEF DeliverMark, TypeOK, Row
  <2>6. call' = [call EXCEPT ![c] = Idle] /\ CallAbout(Idle)
    BY <1>4, IdleType DEF DeliverMark, Return, CallAbout
  <2>9. CallsOK'
    BY <1>4, <2>4, <2>5, <2>6, IdleType, MovesType
  <2> QED
    BY <1>4, <2>4, <2>5, <2>6, <2>9 DEF DeliverMark, TypeOK, CallsOK
<1> QED
  BY <1>1, <1>2, <1>3, <1>4

LEMMA PutType ==
  ASSUME TypeOK, NEW k \in Key, NEW status \in {"EXECUTING", "COMPLETED", "FAILED"},
         NEW p \in Payload, NEW kind \in {"", "SUCCESS", "UNKNOWN", "error"},
         NEW o \in Payload \union {""}, Put(k, status, p, kind, o)
  PROVE  records' \in [Key -> Record]
BY DEF TypeOK, Put, Record

LEMMA ConnectorTypes ==
  ASSUME TypeOK, NEW c \in Caller,
         \/ \E r \in Request : Execute(c, r)
         \/ Claim(c) \/ Hook(c) \/ Finish(c)
  PROVE  TypeOK'
<1>0. /\ rows \in Seq(Row) /\ call \in [Caller -> Call] /\ call[c] \in Call
      /\ CallAbout(call[c])
  BY DEF TypeOK
<1>1. ASSUME NEW r \in Request, Execute(c, r)
      PROVE  TypeOK'
  <2>1. CASE UNCHANGED call
    BY <1>1, <2>1 DEF Execute, TypeOK, CallAbout, stores, outside
  <2>2. CASE Continue(c, [Idle EXCEPT !.at = "claim", !.key = r.key, !.payload = r.payload])
    <3>1. PICK e : e = [Idle EXCEPT !.at = "claim", !.key = r.key, !.payload = r.payload]
      OBVIOUS
    <3>2. e \in Call /\ CallAbout(e)
      BY <3>1 DEF Idle, Call, Place, CallAbout, Request
    <3>3. call' = [call EXCEPT ![c] = e] /\ rows' = rows
      BY <1>1, <2>2, <3>1 DEF Continue, Execute, stores
    <3>9. CallsOK'
      BY <3>2, <3>3, MovesType
    <3> QED
      BY <1>0, <1>1, <3>2, <3>3, <3>9 DEF Execute, TypeOK, stores, CallsOK
  <2> QED
    BY <1>1, <2>1, <2>2 DEF Execute
<1>2. CASE Claim(c)
  <2>1. PICK e : e = [call[c] EXCEPT !.at = "hook"]
    OBVIOUS
  <2>2. e \in Call /\ CallAbout(e) /\ call[c].key \in Key /\ call[c].payload \in Payload
    BY <1>0, <1>2, <2>1 DEF Claim, Call, Place, CallAbout
  <2>3. call' = [call EXCEPT ![c] = e] /\ rows' = rows
    BY <1>2, <2>1 DEF Claim, Continue
  <2>4. records' \in [Key -> Record]
    BY <1>2, <2>2, PutType DEF Claim
  <2>9. CallsOK'
    BY <1>0, <1>2, <2>2, <2>3, <2>4, MovesType
  <2> QED
    BY <1>0, <1>2, <2>2, <2>3, <2>4, <2>9 DEF Claim, TypeOK, outside, CallsOK
<1>3. CASE Hook(c)
  <2>1. PICK kind \in Outcome, did \in BOOLEAN :
          /\ executed' = IF did THEN [executed EXCEPT ![call[c].key] = Append(@, call[c].payload)]
                         ELSE executed
          /\ call' = [call EXCEPT ![c] = [call[c] EXCEPT !.at = "finish", !.kind = kind]]
    BY <1>3 DEF Hook, Continue
  <2>2. PICK e : e = [call[c] EXCEPT !.at = "finish", !.kind = kind]
    OBVIOUS
  <2>3. e \in Call /\ CallAbout(e) /\ call[c].key \in Key /\ call[c].payload \in Payload
    BY <1>0, <1>3, <2>2 DEF Hook, Call, Place, CallAbout
  <2>4. executed' \in [Key -> Seq(Payload)]
    BY <2>1, <2>3 DEF TypeOK
  <2>5. call' = [call EXCEPT ![c] = e] /\ rows' = rows
    BY <1>3, <2>1, <2>2 DEF Hook, stores
  <2>9. CallsOK'
    BY <2>3, <2>5, MovesType
  <2> QED
    BY <1>0, <1>3, <2>1, <2>2, <2>3, <2>4, <2>9 DEF Hook, TypeOK, stores, CallsOK
<1>4. CASE Finish(c)
  <2>1. PICK kind \in {"SUCCESS", "UNKNOWN", "error"}, status \in {"COMPLETED", "FAILED"} :
          Put(call[c].key, status, call[c].payload, kind, call[c].payload)
    BY <1>4 DEF Finish, Conclusive
  <2>2. call[c].key \in Key /\ call[c].payload \in Payload
    BY <1>0, <1>4 DEF Finish, CallAbout
  <2>3. records' \in [Key -> Record]
    BY <2>1, <2>2, PutType
  <2>4. call' = [call EXCEPT ![c] = Idle] /\ CallAbout(Idle) /\ rows' = rows
    BY <1>4, IdleType DEF Finish, Return, CallAbout
  <2>9. CallsOK'
    BY <1>0, <1>4, <2>3, <2>4, IdleType, MovesType
  <2> QED
    BY <1>0, <1>4, <2>3, <2>4, <2>9 DEF Finish, TypeOK, CallsOK
<1> QED
  BY <1>1, <1>2, <1>3, <1>4

LEMMA FenceTypes ==
  ASSUME TypeOK, NEW c \in Caller, ReadFence(c) \/ SetFence(c)
  PROVE  TypeOK'
<1>0. /\ rows \in Seq(Row) /\ call \in [Caller -> Call] /\ call[c] \in Call
      /\ call[c].read \in Nat
  BY DEF TypeOK, Call
<1>1. CASE ReadFence(c)
  <2>1. PICK e : e = [Idle EXCEPT !.at = "fence", !.read = fence]
    OBVIOUS
  <2>2. e \in Call /\ CallAbout(e)
    BY <2>1 DEF TypeOK, Idle, Call, Place, CallAbout
  <2>3. call' = [call EXCEPT ![c] = e] /\ rows' = rows
    BY <1>1, <2>1 DEF Begin, ReadFence, stores
  <2>9. CallsOK'
    BY <1>0, <1>1, <2>2, <2>3, MovesType
  <2> QED
    BY <1>0, <1>1, <2>2, <2>3, <2>9 DEF ReadFence, TypeOK, stores, outside, CallsOK
<1>2. CASE SetFence(c)
  <2>1. call' = [call EXCEPT ![c] = Idle] /\ CallAbout(Idle) /\ rows' = rows
    BY <1>2, IdleType DEF SetFence, Return, CallAbout
  <2>9. CallsOK'
    BY <1>0, <1>2, <2>1, IdleType, MovesType
  <2> QED
    BY <1>0, <1>2, <2>1, <2>9 DEF SetFence, TypeOK, outside, CallsOK
<1> QED
  BY <1>1, <1>2

LEMMA FaultTypes ==
  ASSUME TypeOK,
         \/ \E i \in DOMAIN rows : MarkFailed(i)
         \/ \E k \in Key : Expire(k)
         \/ \E dead \in SUBSET Caller : Crash(dead)
  PROVE  TypeOK'
<1>1. ASSUME NEW i \in DOMAIN rows, MarkFailed(i)
      PROVE  TypeOK'
  <2>0. rows \in Seq(Row)
    BY DEF TypeOK
  <2>1. PICK r \in Row : r = rows[i]
    BY <2>0
  <2>2. PICK q : q = [r EXCEPT !.status = "failed", !.attempts = r.attempts + 1]
    OBVIOUS
  <2>3. q \in Row
    <3>1. PICK f : f = [r EXCEPT !.status = "failed"]
      OBVIOUS
    <3>2. r.attempts + 1 \in Nat /\ f \in Row
      BY <2>1, <3>1 DEF Row
    <3>3. q = [f EXCEPT !.attempts = r.attempts + 1]
      BY <2>2, <3>1
    <3> QED
      BY <3>2, <3>3 DEF Row
  <2>6. rows' = [rows EXCEPT ![i] = q]
    BY <1>1, <2>1, <2>2 DEF MarkFailed
  <2>4. rows' \in Seq(Row) /\ DOMAIN rows' = DOMAIN rows
    BY <2>0, <2>3, <2>6
  <2>5. /\ UNCHANGED <<records, fence, call, token, executed, delivered>>
        /\ faults' = faults + 1
    BY <1>1 DEF MarkFailed, outside
  <2> QED
    BY <2>4, <2>5 DEF TypeOK, CallAbout
<1>2. ASSUME NEW k \in Key, Expire(k)
      PROVE  TypeOK'
  <2>1. NoRecord \in Record
    BY DEF NoRecord, Record
  <2> QED
    BY <1>2, <2>1 DEF Expire, TypeOK, CallAbout, outside
<1>3. ASSUME NEW dead \in SUBSET Caller, Crash(dead)
      PROVE  TypeOK'
  <2>1. NoRecord \in Record
    BY DEF NoRecord, Record
  <2>2. /\ call' \in [Caller -> Call] /\ token' \in [Caller -> Nat]
        /\ faults' \in Nat /\ UNCHANGED outside
        /\ \A d \in Caller : call'[d] = Idle \/ call'[d] = call[d]
    BY <1>3, IdleType DEF Crash, TypeOK
  <2>3. CASE backend = "memory"
    <3>1. /\ rows' = <<>> /\ records' = [k \in Key |-> NoRecord] /\ fence' = 0
          /\ \A d \in Caller : call'[d] = Idle
      BY <1>3, <2>3 DEF Crash
    <3> QED
      BY <2>1, <2>2, <3>1, IdleType DEF TypeOK, CallAbout, outside
  <2>4. CASE backend # "memory"
    BY <1>3, <2>2, <2>4, IdleType DEF Crash, TypeOK, CallAbout, stores, outside
  <2> QED
    BY <2>3, <2>4
<1> QED
  BY <1>1, <1>2, <1>3

\* Rows, records, the fence, the calls on them and what the outside knows keep
\* their types.
THEOREM TypeCorrect == Spec => []TypeOK
<1>1. TypeOK /\ UNCHANGED vars => TypeOK'
  BY DEF vars, TypeOK, CallAbout, stores, outside
<1>2. TypeOK /\ [Next]_vars => TypeOK'
  BY <1>1, OutboxTypes, ConnectorTypes, FenceTypes, FaultTypes DEF Next
<1> QED
  BY <1>2, InitTypes, PTL DEF Spec

-----------------------------------------------------------------------------
(* Calls move one at a time, and what is excused stays so. *)

LEMMA OthersStay ==
  ASSUME TypeOK, NEW c \in Caller,
         \/ \E p \in Payload : EnqueueFind(c, p)
         \/ EnqueueInsert(c)
         \/ \E i \in DOMAIN rows : DeliverRead(c, i)
         \/ DeliverMark(c)
         \/ \E r \in Request : Execute(c, r)
         \/ Claim(c) \/ Hook(c) \/ Finish(c)
         \/ ReadFence(c) \/ SetFence(c)
  PROVE  /\ \A d \in Caller \ {c} : call'[d] = call[d]
         /\ excused \subseteq excused'
<1>1. \A e : call' = [call EXCEPT ![c] = e] => \A d \in Caller \ {c} : call'[d] = call[d]
  BY DEF TypeOK
<1>2. call' = call \/ \E e : call' = [call EXCEPT ![c] = e]
  BY DEF EnqueueFind, EnqueueInsert, DeliverRead, DeliverMark, Execute, Claim, Hook, Finish,
         ReadFence, SetFence, Begin, Continue, Return
<1>3. excused \subseteq excused'
  BY DEF EnqueueFind, EnqueueInsert, DeliverRead, DeliverMark, Execute, Claim, Hook, Finish,
         ReadFence, SetFence, Excuse
<1> QED
  BY <1>1, <1>2, <1>3

\* Where each call goes on.
LEMMA WhereItGoes ==
  ASSUME TypeOK, NEW c \in Caller
  PROVE  /\ \A p \in Payload : EnqueueFind(c, p) =>
              \/ call' = call
              \/ call'[c].at = "insert" /\ call'[c].payload = p
         /\ \A i \in DOMAIN rows : DeliverRead(c, i) =>
              \/ call' = call
              \/ call'[c].at = "mark" /\ call'[c].row = i
         /\ \A r \in Request : Execute(c, r) =>
              \/ call' = call
              \/ call'[c].at = "claim" /\ call'[c].key = r.key /\ call'[c].payload = r.payload
         /\ Claim(c) => call'[c].at = "hook" /\ call'[c].key = call[c].key
                        /\ call'[c].payload = call[c].payload
         /\ Hook(c) => call'[c].at = "finish" /\ call'[c].key = call[c].key
                       /\ call'[c].payload = call[c].payload
         /\ EnqueueInsert(c) \/ DeliverMark(c) \/ Finish(c) \/ SetFence(c) => call'[c] = Idle
         /\ ReadFence(c) => call'[c].at = "fence" /\ call'[c].read = fence
<1>1. call \in [Caller -> Call] /\ call[c] \in Call
  BY DEF TypeOK
<1>2. ASSUME NEW e, call' = [call EXCEPT ![c] = e]
      PROVE  call'[c] = e
  BY <1>1, <1>2
<1>3. \A p \in Payload : EnqueueFind(c, p) =>
        \/ call' = call
        \/ call'[c].at = "insert" /\ call'[c].payload = p
  BY <1>2 DEF EnqueueFind, Begin, Idle
<1>4. \A i \in DOMAIN rows : DeliverRead(c, i) =>
        \/ call' = call
        \/ call'[c].at = "mark" /\ call'[c].row = i
  BY <1>2 DEF DeliverRead, Begin, Idle
<1>5. \A r \in Request : Execute(c, r) =>
        \/ call' = call
        \/ call'[c].at = "claim" /\ call'[c].key = r.key /\ call'[c].payload = r.payload
  BY <1>2 DEF Execute, Continue, Idle
<1>6. ASSUME NEW e, call'[c] = [call[c] EXCEPT !.at = e]
      PROVE  call'[c].at = e /\ call'[c].key = call[c].key /\ call'[c].payload = call[c].payload
  BY <1>1, <1>6 DEF Call
<1>7. ASSUME NEW kind, call'[c] = [call[c] EXCEPT !.at = "finish", !.kind = kind]
      PROVE  /\ call'[c].at = "finish" /\ call'[c].key = call[c].key
             /\ call'[c].payload = call[c].payload
  BY <1>1, <1>7 DEF Call
<1>8. Claim(c) => call'[c] = [call[c] EXCEPT !.at = "hook"]
  BY <1>2 DEF Claim, Continue
<1>9. Hook(c) => \E kind : call'[c] = [call[c] EXCEPT !.at = "finish", !.kind = kind]
  BY <1>2 DEF Hook, Continue
<1>10. EnqueueInsert(c) \/ DeliverMark(c) \/ Finish(c) \/ SetFence(c) => call'[c] = Idle
  BY <1>2 DEF EnqueueInsert, DeliverMark, Finish, SetFence, Return
<1>11. ReadFence(c) => call'[c].at = "fence" /\ call'[c].read = fence
  BY <1>2 DEF ReadFence, Begin, Idle
<1> QED
  BY <1>3, <1>4, <1>5, <1>6, <1>7, <1>8, <1>9, <1>10, <1>11

LEMMA CrashEnds ==
  ASSUME TypeOK, NEW dead \in SUBSET Caller, Crash(dead)
  PROVE  /\ \A d \in Caller : /\ call'[d] = Idle \/ call'[d] = call[d]
                              /\ token'[d] = 0 \/ token'[d] = token[d]
         /\ excused \subseteq excused' /\ UNCHANGED outside
         /\ \/ UNCHANGED <<stores, excused>>
            \/ /\ Payload \union Key \subseteq excused' /\ fence' = 0 /\ rows' = <<>>
               /\ \A d \in Caller : call'[d] = Idle /\ token'[d] = 0
BY DEF TypeOK, Crash

-----------------------------------------------------------------------------
(* Fence tokens *)

\* No token is above the fence, one at most is level with it, and a caller about
\* to set it read it as it is.
FenceInv ==
  "fence" \notin excused =>
    /\ \A c \in Caller : token[c] <= fence
    /\ \A c, d \in Caller : token[c] = fence /\ token[d] = fence /\ fence # 0 => c = d
    /\ \A c \in Caller : call[c].at = "fence" => call[c].read = fence
    /\ \A c, d \in Caller : call[c].at = "fence" /\ call[d].at = "fence" => c = d

LEMMA FenceQuiet ==
  ASSUME TypeOK, FenceInv, fence' = fence, excused \subseteq excused',
         \A d \in Caller : /\ token'[d] \in {token[d], 0}
                           /\ call'[d].at = "fence" => call'[d] = call[d]
  PROVE  FenceInv'
<1>1. fence \in Nat /\ token \in [Caller -> Nat]
  BY DEF TypeOK
<1>2. SUFFICES ASSUME "fence" \notin excused
               PROVE  FenceInv'
  BY DEF FenceInv
<1>3. \A d \in Caller : token'[d] <= fence /\ (token'[d] = fence /\ fence # 0 => token[d] = fence)
  BY <1>1, <1>2 DEF FenceInv
<1>4. \A d \in Caller : call'[d].at = "fence" => call[d].at = "fence" /\ call'[d].read = fence
  BY <1>2 DEF FenceInv
<1> QED
  BY <1>2, <1>3, <1>4 DEF FenceInv

LEMMA FenceKept ==
  ASSUME TypeOK, FenceInv, [Next]_vars
  PROVE  FenceInv'
<1>1. ASSUME NEW c \in Caller, ReadFence(c)
      PROVE  FenceInv'
  <2>1. /\ call'[c] = [Idle EXCEPT !.at = "fence", !.read = fence]
        /\ fence' = fence /\ token' = token
    BY <1>1 DEF ReadFence, Begin, TypeOK, stores
  <2>2. call'[c].at = "fence" /\ call'[c].read = fence
    BY <2>1 DEF Idle
  <2>3. "fence" \notin excused' => \A d \in Caller \ {c} : call[d].at # "fence"
    BY <1>1 DEF ReadFence, Excuse, Meets
  <2>4. (\A d \in Caller \ {c} : call'[d] = call[d]) /\ excused \subseteq excused'
    BY <1>1, OthersStay
  <2> QED
    BY <2>1, <2>2, <2>3, <2>4 DEF FenceInv
<1>2. ASSUME NEW c \in Caller, SetFence(c)
      PROVE  FenceInv'
  <2>1. /\ call[c].at = "fence" /\ fence' = call[c].read + 1 /\ token'[c] = call[c].read + 1
        /\ \A d \in Caller \ {c} : token'[d] = token[d]
        /\ call'[c].at = "idle" /\ excused' = excused
    BY <1>2, IdleType DEF SetFence, Return, TypeOK
  <2>2. \A d \in Caller \ {c} : call'[d] = call[d]
    BY <1>2, OthersStay
  <2>3. fence \in Nat /\ token \in [Caller -> Nat]
    BY DEF TypeOK
  <2>4. SUFFICES ASSUME "fence" \notin excused
                 PROVE  FenceInv'
    BY <2>1 DEF FenceInv
  <2>5. fence' = fence + 1 /\ token'[c] = fence + 1 /\ \A d \in Caller : token[d] <= fence
    BY <2>1, <2>4 DEF FenceInv
  <2>6. \A d \in Caller \ {c} : call'[d].at # "fence" /\ token'[d] < fence'
    BY <2>1, <2>2, <2>3, <2>4, <2>5 DEF FenceInv
  <2> QED
    BY <2>1, <2>3, <2>5, <2>6 DEF FenceInv
<1>3. ASSUME NEW c \in Caller,
             \/ \E p \in Payload : EnqueueFind(c, p)
             \/ EnqueueInsert(c)
             \/ \E i \in DOMAIN rows : DeliverRead(c, i)
             \/ DeliverMark(c)
             \/ \E r \in Request : Execute(c, r)
             \/ Claim(c) \/ Hook(c) \/ Finish(c)
      PROVE  FenceInv'
  <2>1. fence' = fence /\ token' = token
    BY <1>3 DEF EnqueueFind, EnqueueInsert, DeliverRead, DeliverMark, Execute, Claim, Hook,
                Finish, stores
  <2>2. (\A d \in Caller \ {c} : call'[d] = call[d]) /\ excused \subseteq excused'
    BY <1>3, OthersStay
  <2>3. call'[c] = call[c] \/ call'[c].at # "fence"
    BY <1>3, IdleType, WhereItGoes
  <2> QED
    BY <2>1, <2>2, <2>3, FenceQuiet
<1>4. CASE \/ \E i \in DOMAIN rows : MarkFailed(i)
           \/ \E k \in Key : Expire(k)
  <2>1. UNCHANGED <<fence, token, call>> /\ excused \subseteq excused'
    BY <1>4 DEF MarkFailed, Expire, Excuse
  <2> QED
    BY <2>1, FenceQuiet
<1>5. ASSUME NEW dead \in SUBSET Caller, Crash(dead)
      PROVE  FenceInv'
  <2>1. CASE UNCHANGED stores
    BY <1>5, <2>1, CrashEnds, IdleType, FenceQuiet DEF stores
  <2>2. CASE fence' = 0 /\ \A d \in Caller : call'[d] = Idle /\ token'[d] = 0
    BY <2>2, IdleType DEF FenceInv
  <2> QED
    BY <1>5, <2>1, <2>2, CrashEnds
<1>6. CASE UNCHANGED vars
  BY <1>6, FenceQuiet DEF vars, stores
<1> QED
  BY <1>1, <1>2, <1>3, <1>4, <1>5, <1>6 DEF Next

LEMMA OneElement ==
  ASSUME NEW S, \A x, y \in S : x = y
  PROVE  Cardinality(S) <= 1
<1>1. CASE S = {}
  BY <1>1, FS_EmptySet
<1>2. CASE S # {}
  <2>1. PICK x : S = {x}
    BY <1>2
  <2> QED
    BY <2>1, FS_Singleton
<1> QED
  BY <1>1, <1>2

\* At most one holder of a token passes the fence, however many workers take
\* over from each other and die, unless two acquired at the same time.
THEOREM FenceExcludes == Spec => []OneWorkerPasses
<1>1. Init => FenceInv
  BY IdleType DEF Init, FenceInv
<1>2. TypeOK /\ FenceInv /\ [Next]_vars => FenceInv'
  BY FenceKept
<1>3. TypeOK /\ FenceInv => OneWorkerPasses
  <2> SUFFICES ASSUME TypeOK, FenceInv, "fence" \notin excused
               PROVE  Cardinality({c \in Caller : Passes(c)}) <= 1
    BY DEF OneWorkerPasses
  <2>1. \A c \in Caller : Passes(c) => token[c] = fence /\ fence # 0
    BY DEF TypeOK, FenceInv, Passes
  <2>2. \A c, d \in {b \in Caller : Passes(b)} : c = d
    BY <2>1 DEF FenceInv
  <2> QED
    BY <2>2, OneElement
<1> QED
  BY <1>1, <1>2, <1>3, TypeCorrect, PTL DEF Spec

-----------------------------------------------------------------------------
(* The outbox *)

Inserts(c, p) == call[c].at = "insert" /\ call[c].payload = p
Marks(c, p) == call[c].at = "mark" /\ rows[call[c].row].payload = p

\* A payload has one row at most; one call at most inserts it, into an outbox
\* without it, and one at most marks it, undelivered; and it was delivered once
\* or not yet.
Outbox(p) ==
  /\ \A i, j \in RowsOf(p) : i = j
  /\ \A c, d \in Caller : Inserts(c, p) /\ Inserts(d, p) => c = d
  /\ \A c \in Caller : Inserts(c, p) => RowsOf(p) = {}
  /\ \A c, d \in Caller : Marks(c, p) /\ Marks(d, p) => c = d
  /\ \A c \in Caller : Marks(c, p) => rows[call[c].row].status # "delivered"
  /\ \/ delivered[p] = 0
     \/ delivered[p] = 1 /\ \E i \in RowsOf(p) : rows[i].status = "delivered"

OutboxInv == \A p \in Payload \ excused : Outbox(p)

LEMMA OutboxQuiet ==
  ASSUME OutboxInv, UNCHANGED <<rows, delivered>>, excused \subseteq excused',
         \A d \in Caller : call'[d].at \in {"insert", "mark"} => call'[d] = call[d]
  PROVE  OutboxInv'
<1> SUFFICES ASSUME NEW p \in Payload, Outbox(p)
             PROVE  Outbox(p)'
  BY DEF OutboxInv
<1>1. RowsOf(p)' = RowsOf(p)
  BY DEF RowsOf
<1>2. \A d \in Caller : /\ Inserts(d, p)' => Inserts(d, p)
                        /\ Marks(d, p)' => Marks(d, p) /\ call'[d] = call[d]
  BY DEF Inserts, Marks
<1> QED
  BY <1>1, <1>2 DEF Outbox

LEMMA EnqueueFindKeeps ==
  ASSUME TypeOK, OutboxInv, NEW c \in Caller, NEW q \in Payload, EnqueueFind(c, q)
  PROVE  OutboxInv'
<1>1. UNCHANGED <<rows, delivered>>
  BY DEF EnqueueFind, stores, outside
<1>2. (\A d \in Caller \ {c} : call'[d] = call[d]) /\ excused \subseteq excused'
  BY OthersStay
<1>3. CASE call' = call
  BY <1>1, <1>2, <1>3, OutboxQuiet
<1>4. CASE call'[c].at = "insert" /\ call'[c].payload = q /\ call' # call
  <2>1. /\ RowsOf(q) = {}
        /\ Excuse(q, Meets(c, "insert", "payload", q))
    BY <1>4 DEF EnqueueFind
  <2>2. q \notin excused' => \A d \in Caller \ {c} : ~Inserts(d, q)
    BY <2>1 DEF Excuse, Meets, Inserts
  <2> SUFFICES ASSUME NEW p \in Payload, p \notin excused', Outbox(p)
               PROVE  Outbox(p)'
    BY <1>2 DEF OutboxInv
  <2>3. RowsOf(p)' = RowsOf(p)
    BY <1>1 DEF RowsOf
  <2>4. /\ \A d \in Caller \ {c} : Inserts(d, p)' = Inserts(d, p)
        /\ \A d \in Caller : Marks(d, p)' => Marks(d, p) /\ call'[d] = call[d]
        /\ Inserts(c, p)' => p = q
    BY <1>1, <1>2, <1>4 DEF Inserts, Marks
  <2>5. \A d, e \in Caller : Inserts(d, p)' /\ Inserts(e, p)' => d = e
    BY <2>2, <2>4 DEF Outbox
  <2>6. \A d \in Caller : Inserts(d, p)' => RowsOf(p) = {}
    BY <2>1, <2>4 DEF Outbox
  <2> QED
    BY <1>1, <2>3, <2>4, <2>5, <2>6 DEF Outbox
<1> QED
  BY <1>3, <1>4, WhereItGoes

LEMMA EnqueueInsertKeeps ==
  ASSUME TypeOK, OutboxInv, NEW c \in Caller, EnqueueInsert(c)
  PROVE  OutboxInv'
<1>0. rows \in Seq(Row) /\ \A d \in Caller : call[d].at = "mark" => call[d].row \in DOMAIN rows
  BY DEF TypeOK, CallAbout
<1>1. PICK q : q = call[c].payload
  OBVIOUS
<1>2. /\ delivered' = delivered /\ excused' = excused /\ call[c].at = "insert"
      /\ call'[c].at = "idle" /\ \A d \in Caller \ {c} : call'[d] = call[d]
  BY IdleType, WhereItGoes, OthersStay DEF EnqueueInsert, outside
<1>3. CASE rows' = rows
  BY <1>2, <1>3, OutboxQuiet
<1>4. CASE rows' # rows
  <2>1. PICK r : r = [payload |-> q, status |-> "pending", attempts |-> 0]
    OBVIOUS
  <2>2. rows' = Append(rows, r) /\ r.payload = q
    BY <1>1, <1>4, <2>1 DEF EnqueueInsert
  <2>3. /\ DOMAIN rows' = DOMAIN rows \union {Len(rows) + 1}
        /\ \A i \in DOMAIN rows : rows'[i] = rows[i]
        /\ rows'[Len(rows) + 1] = r
    BY <1>0, <2>2
  <2> SUFFICES ASSUME NEW p \in Payload, Outbox(p)
               PROVE  Outbox(p)'
    BY <1>2 DEF OutboxInv
  <2>4. RowsOf(p)' = IF p = q THEN RowsOf(p) \union {Len(rows) + 1} ELSE RowsOf(p)
    BY <2>2, <2>3 DEF RowsOf
  <2>5. /\ Inserts(c, q)
        /\ \A d \in Caller : Inserts(d, p)' => Inserts(d, p) /\ d # c
        /\ \A d \in Caller : Marks(d, p)' =>
             Marks(d, p) /\ call'[d] = call[d] /\ call[d].row \in DOMAIN rows
    BY <1>0, <1>1, <1>2, <2>3 DEF Inserts, Marks
  <2>6. p = q => RowsOf(p) = {} /\ \A d \in Caller : ~Inserts(d, p)'
    BY <2>5 DEF Outbox
  <2>7. \A i, j \in RowsOf(p)' : i = j
    BY <2>4, <2>6 DEF Outbox
  <2>8. \A d \in Caller : Inserts(d, p)' => RowsOf(p)' = {}
    BY <2>4, <2>5, <2>6 DEF Outbox
  <2>9. \/ delivered[p] = 0
        \/ delivered[p] = 1 /\ \E i \in RowsOf(p)' : rows'[i].status = "delivered"
    <3>1. RowsOf(p) \subseteq DOMAIN rows
      BY DEF RowsOf
    <3> QED
      BY <2>3, <2>4, <3>1 DEF Outbox
  <2>10. /\ \A d, e \in Caller : Inserts(d, p)' /\ Inserts(e, p)' => d = e
         /\ \A d, e \in Caller : Marks(d, p)' /\ Marks(e, p)' => d = e
         /\ \A d \in Caller : Marks(d, p)' => rows'[call'[d].row].status # "delivered"
    BY <2>3, <2>5 DEF Outbox
  <2> QED
    BY <1>2, <2>7, <2>8, <2>9, <2>10 DEF Outbox
<1> QED
  BY <1>3, <1>4

LEMMA DeliverReadKeeps ==
  ASSUME TypeOK, OutboxInv, NEW c \in Caller, NEW i \in DOMAIN rows, DeliverRead(c, i)
  PROVE  OutboxInv'
<1>1. UNCHANGED <<rows, delivered>>
  BY DEF DeliverRead, stores, outside
<1>2. (\A d \in Caller \ {c} : call'[d] = call[d]) /\ excused \subseteq excused'
  BY OthersStay
<1>3. CASE call' = call
  BY <1>1, <1>2, <1>3, OutboxQuiet
<1>4. CASE call'[c].at = "mark" /\ call'[c].row = i /\ call' # call
  <2>1. Deliverable(i) /\ Excuse(rows[i].payload, Meets(c, "mark", "row", i))
    BY <1>4 DEF DeliverRead
  <2> SUFFICES ASSUME NEW p \in Payload, p \notin excused', Outbox(p)
               PROVE  Outbox(p)'
    BY <1>2 DEF OutboxInv
  <2>2. RowsOf(p)' = RowsOf(p)
    BY <1>1 DEF RowsOf
  <2>3. /\ \A d \in Caller : Inserts(d, p)' => Inserts(d, p)
        /\ \A d \in Caller \ {c} : /\ Marks(d, p)' = Marks(d, p)
                                   /\ call'[d] = call[d]
    BY <1>1, <1>2, <1>4 DEF Inserts, Marks
  <2>4. Marks(c, p)' => /\ i \in RowsOf(p)
                        /\ \A d \in Caller \ {c} : call[d].at = "mark" => call[d].row # i
    BY <1>1, <1>4, <2>1 DEF Marks, RowsOf, Excuse, Meets
  <2>5. \A d \in Caller : Marks(d, p) => call[d].row \in RowsOf(p)
    BY DEF Marks, RowsOf, TypeOK, CallAbout
  <2>6. \A d, e \in Caller : Marks(d, p)' /\ Marks(e, p)' => d = e
    <3>1. Marks(c, p)' => \A d \in Caller \ {c} : ~Marks(d, p)
      BY <2>4, <2>5 DEF Outbox, Marks
    <3> QED
      BY <2>3, <3>1 DEF Outbox
  <2>7. \A d \in Caller : Marks(d, p)' => rows[call'[d].row].status # "delivered"
    BY <1>4, <2>1, <2>3 DEF Outbox, Deliverable
  <2> QED
    BY <1>1, <2>2, <2>3, <2>6, <2>7 DEF Outbox
<1> QED
  BY <1>3, <1>4, WhereItGoes

\* One row of undelivered or unexcused payload changes its status, and with it
\* how often the payload was delivered.
LEMMA StatusKeeps ==
  ASSUME TypeOK, NEW p \in Payload, Outbox(p), NEW i \in DOMAIN rows,
         DOMAIN rows' = DOMAIN rows,
         \A j \in DOMAIN rows : rows'[j].payload = rows[j].payload
                                /\ (j # i => rows'[j] = rows[j]),
         \A d \in Caller : call'[d].at \in {"insert", "mark"} => call'[d] = call[d],
         rows'[i].status = "delivered" =>
           \A d \in Caller : call'[d].at = "mark" /\ rows[i].payload = p => call'[d].row # i,
         IF rows[i].payload # p THEN delivered'[p] = delivered[p]
         ELSE \/ delivered'[p] = 1 /\ rows'[i].status = "delivered"
              \/ delivered'[p] = 0
  PROVE  Outbox(p)'
<1>1. RowsOf(p)' = RowsOf(p) /\ RowsOf(p) \subseteq DOMAIN rows
  BY DEF RowsOf
<1>2. \A d \in Caller : /\ Inserts(d, p)' => Inserts(d, p)
                        /\ Marks(d, p)' => /\ Marks(d, p) /\ call'[d] = call[d]
                                           /\ call[d].row \in DOMAIN rows
  BY DEF Inserts, Marks, TypeOK, CallAbout
<1>3. \A d \in Caller : Marks(d, p)' => rows'[call'[d].row].status # "delivered"
  BY <1>2 DEF Outbox, Marks
<1>4. \/ delivered'[p] = 0
      \/ delivered'[p] = 1 /\ \E j \in RowsOf(p)' : rows'[j].status = "delivered"
  <2>1. CASE rows[i].payload = p
    BY <1>1, <2>1 DEF RowsOf
  <2>2. CASE rows[i].payload # p
    <3>1. \A j \in RowsOf(p) : rows'[j] = rows[j]
      BY <1>1, <2>2 DEF RowsOf
    <3> QED
      BY <1>1, <2>2, <3>1 DEF Outbox
  <2> QED
    BY <2>1, <2>2
<1> QED
  BY <1>1, <1>2, <1>3, <1>4 DEF Outbox

LEMMA DeliverMarkKeeps ==
  ASSUME TypeOK, OutboxInv, NEW c \in Caller, DeliverMark(c)
  PROVE  OutboxInv'
<1>0. rows \in Seq(Row) /\ delivered \in [Payload -> Nat] /\ \A j \in DOMAIN rows : rows[j] \in Row
  BY DEF TypeOK
<1>1. PICK i \in DOMAIN rows : i = call[c].row
  BY DEF TypeOK, CallAbout, DeliverMark
<1>2. PICK q \in Payload : q = rows[i].payload
  BY <1>0 DEF Row
<1>3. /\ call[c].at = "mark" /\ excused' = excused
      /\ rows' = [rows EXCEPT ![i].status = "delivered"]
      /\ delivered' = [delivered EXCEPT ![q] = @ + 1]
  BY <1>1, <1>2 DEF DeliverMark
<1>4. call'[c].at = "idle" /\ \A d \in Caller \ {c} : call'[d] = call[d]
  BY IdleType, WhereItGoes, OthersStay
<1>5. /\ DOMAIN rows' = DOMAIN rows /\ rows'[i].status = "delivered"
      /\ \A j \in DOMAIN rows : rows'[j].payload = rows[j].payload
                                /\ (j # i => rows'[j] = rows[j])
  BY <1>0, <1>3 DEF Row
<1> SUFFICES ASSUME NEW p \in Payload, Outbox(p)
             PROVE  Outbox(p)'
  BY <1>3 DEF OutboxInv
<1>6. q # p => delivered'[p] = delivered[p]
  BY <1>0, <1>3
<1>7. q = p => delivered'[p] = 1 /\ \A d \in Caller \ {c} : call[d].at = "mark" => call[d].row # i
  <2> SUFFICES ASSUME q = p
               PROVE  delivered'[p] = 1
                      /\ \A d \in Caller \ {c} : call[d].at = "mark" => call[d].row # i
    OBVIOUS
  <2>1. Marks(c, p) /\ i \in RowsOf(p)
    BY <1>1, <1>2, <1>3 DEF Marks, RowsOf
  <2>2. rows[i].status # "delivered" /\ \A j \in RowsOf(p) : j = i
    BY <1>1, <2>1 DEF Outbox
  <2>3. delivered[p] = 0
    BY <2>2 DEF Outbox
  <2>4. \A d \in Caller \ {c} : ~Marks(d, p)
    BY <2>1 DEF Outbox
  <2> QED
    BY <1>0, <1>2, <1>3, <2>3, <2>4 DEF Marks
<1> QED
  BY <1>2, <1>4, <1>5, <1>6, <1>7, StatusKeeps

LEMMA MarkFailedKeeps ==
  ASSUME TypeOK, OutboxInv, NEW i \in DOMAIN rows, MarkFailed(i)
  PROVE  OutboxInv'
<1>0. rows \in Seq(Row) /\ \A j \in DOMAIN rows : rows[j] \in Row
  BY DEF TypeOK
<1>1. PICK q \in Payload : q = rows[i].payload
  BY <1>0 DEF Row
<1>2. /\ UNCHANGED <<call, delivered>> /\ excused \subseteq excused'
      /\ rows[i].status = "delivered" => q \in excused'
  BY <1>1 DEF MarkFailed, Excuse, outside
<1>3. /\ DOMAIN rows' = DOMAIN rows /\ rows'[i].status = "failed"
      /\ rows'[i].payload = rows[i].payload
      /\ \A j \in DOMAIN rows : j # i => rows'[j] = rows[j]
  <2>1. PICK r \in Row : r = rows[i]
    BY <1>0
  <2>2. PICK f, g : f = [r EXCEPT !.status = "failed"] /\ g = [f EXCEPT !.attempts = r.attempts + 1]
    OBVIOUS
  <2>3. rows' = [rows EXCEPT ![i] = g]
    BY <2>1, <2>2 DEF MarkFailed
  <2>4. g.status = "failed" /\ g.payload = r.payload
    BY <2>1, <2>2 DEF Row
  <2> QED
    BY <1>0, <2>1, <2>3, <2>4
<1> SUFFICES ASSUME NEW p \in Payload, p \notin excused', Outbox(p)
             PROVE  Outbox(p)'
  BY <1>2 DEF OutboxInv
<1>4. q = p => delivered[p] = 0
  <2>1. q = p => i \in RowsOf(p) /\ rows[i].status # "delivered"
    BY <1>1, <1>2 DEF RowsOf
  <2> QED
    BY <2>1 DEF Outbox
<1> QED
  BY <1>1, <1>2, <1>3, <1>4, StatusKeeps

LEMMA OutboxKept ==
  ASSUME TypeOK, OutboxInv, [Next]_vars
  PROVE  OutboxInv'
<1>1. ASSUME NEW c \in Caller,
             \/ \E r \in Request : Execute(c, r)
             \/ Claim(c) \/ Hook(c) \/ Finish(c) \/ ReadFence(c) \/ SetFence(c)
      PROVE  OutboxInv'
  <2>1. UNCHANGED <<rows, delivered>>
    BY <1>1 DEF Execute, Claim, Hook, Finish, ReadFence, SetFence, stores, outside
  <2>2. (\A d \in Caller \ {c} : call'[d] = call[d]) /\ excused \subseteq excused'
    BY <1>1, OthersStay
  <2>3. call'[c] = call[c] \/ call'[c].at \notin {"insert", "mark"}
    BY <1>1, IdleType, WhereItGoes
  <2> QED
    BY <2>1, <2>2, <2>3, OutboxQuiet
<1>2. ASSUME NEW k \in Key, Expire(k)
      PROVE  OutboxInv'
  BY <1>2, OutboxQuiet DEF Expire, outside
<1>3. ASSUME NEW dead \in SUBSET Caller, Crash(dead)
      PROVE  OutboxInv'
  <2>1. CASE Payload \subseteq excused'
    BY <2>1 DEF OutboxInv
  <2>2. CASE UNCHANGED <<stores, excused>>
    BY <1>3, <2>2, CrashEnds, IdleType, OutboxQuiet DEF stores, outside
  <2> QED
    BY <1>3, <2>1, <2>2, CrashEnds
<1>4. CASE UNCHANGED vars
  BY <1>4, OutboxQuiet DEF vars, stores, outside
<1> QED
  BY <1>1, <1>2, <1>3, <1>4, EnqueueFindKeeps, EnqueueInsertKeeps, DeliverReadKeeps,
     DeliverMarkKeeps, MarkFailedKeeps DEF Next

\* A payload is delivered once and queued once, through crashes, failed
\* deliveries and any number of dispatchers; only overlapping calls, a late
\* failure or the loss of a store in memory excuse a second time.
THEOREM DeliveredAtMostOnce == Spec => []DeliveredOnce
<1>1. Init => OutboxInv
  <2> SUFFICES ASSUME Init, NEW p \in Payload
               PROVE  Outbox(p)
    BY DEF OutboxInv
  <2>1. /\ RowsOf(p) = {} /\ delivered[p] = 0
        /\ \A c \in Caller : ~Inserts(c, p) /\ ~Marks(c, p)
    BY IdleType DEF Init, RowsOf, Inserts, Marks
  <2> QED
    BY <2>1 DEF Outbox
<1>2. TypeOK /\ OutboxInv /\ [Next]_vars => OutboxInv'
  BY OutboxKept
<1>3. OutboxInv => DeliveredOnce
  <2> SUFFICES ASSUME OutboxInv, NEW p \in Payload \ excused
               PROVE  delivered[p] <= 1 /\ Cardinality(RowsOf(p)) <= 1
    BY DEF DeliveredOnce
  <2>1. Outbox(p)
    BY DEF OutboxInv
  <2>2. Cardinality(RowsOf(p)) <= 1
    BY <2>1, OneElement DEF Outbox
  <2> QED
    BY <2>1, <2>2 DEF Outbox
<1> QED
  BY <1>1, <1>2, <1>3, TypeCorrect, PTL DEF Spec

-----------------------------------------------------------------------------
(* Connector calls *)

Works(c, k) == call[c].at \in {"claim", "hook", "finish"} /\ call[c].key = k

\* A key is worked on by one call at most. Until it has claimed the key there is
\* no record and nothing was executed; from then on the record is its own; it
\* executes once, a success always, and the record and the answers say what the
\* external system executed.
Executions(k) ==
  /\ \A c, d \in Caller : Works(c, k) /\ Works(d, k) => c = d
  /\ \A c \in Caller : Works(c, k) =>
       /\ call[c].at = "claim" => records[k].status = "none"
       /\ call[c].at # "claim" => /\ records[k].status = "EXECUTING"
                                  /\ records[k].payload = call[c].payload
       /\ call[c].at = "hook" => executed[k] = <<>>
       /\ call[c].at = "finish" => \/ executed[k] = <<>> /\ call[c].kind # "SUCCESS"
                                   \/ executed[k] = <<call[c].payload>>
  /\ records[k].status = "none" => executed[k] = <<>>
  /\ records[k].status \in {"COMPLETED", "FAILED"} =>
       /\ records[k].of = records[k].payload
       /\ records[k].kind = "SUCCESS" => executed[k] = <<records[k].of>>
  /\ executed[k] = <<>> \/ \E p \in Payload : executed[k] = <<p>>
  /\ \A a \in answers : a.key = k =>
       a.of = a.payload /\ (a.kind = "SUCCESS" => executed[k] = <<a.of>>)

ExecutionInv == \A k \in Key \ excused : Executions(k)

AnswerInv == \A a \in answers : a.key \in Key

LEMMA AnswerKept ==
  ASSUME TypeOK, AnswerInv, [Next]_vars
  PROVE  AnswerInv'
<1>1. ASSUME NEW c \in Caller, NEW r \in Request, Execute(c, r)
      PROVE  AnswerInv'
  BY <1>1 DEF Execute, AnswerInv, Answer, Request
<1>2. ASSUME NEW c \in Caller, Finish(c)
      PROVE  AnswerInv'
  <2>0. PICK k \in Key : k = call[c].key
    BY <1>2 DEF Finish, TypeOK, CallAbout
  <2>1. PICK kind, p : answers' = answers \union {Answer(k, p, kind, p)}
    BY <1>2, <2>0 DEF Finish
  <2> QED
    BY <2>1 DEF AnswerInv, Answer
<1>3. CASE UNCHANGED answers
  BY <1>3 DEF AnswerInv
<1> QED
  BY <1>1, <1>2, <1>3
  DEF Next, vars, outside, EnqueueFind, EnqueueInsert, DeliverRead, DeliverMark, Claim, Hook,
      ReadFence, SetFence, MarkFailed, Expire, Crash

\* Nothing happens to a key but that calls on it may end.
LEMMA ExecutionsStay ==
  ASSUME NEW k \in Key, Executions(k), records'[k] = records[k], executed'[k] = executed[k],
         \A a \in answers' : a.key = k => a \in answers,
         \A d \in Caller : Works(d, k)' => call'[d] = call[d]
  PROVE  Executions(k)'
<1>1. \A d \in Caller : Works(d, k)' => Works(d, k)
  BY DEF Works
<1> QED
  BY <1>1 DEF Executions

LEMMA ExecutionQuiet ==
  ASSUME ExecutionInv, UNCHANGED <<records, executed, answers>>, excused \subseteq excused',
         \A d \in Caller : call'[d].at \in {"claim", "hook", "finish"} => call'[d] = call[d]
  PROVE  ExecutionInv'
BY ExecutionsStay DEF ExecutionInv, Works

LEMMA ExecuteKeeps ==
  ASSUME TypeOK, ExecutionInv, NEW c \in Caller, NEW r \in Request, Execute(c, r)
  PROVE  ExecutionInv'
<1>1. /\ UNCHANGED <<records, executed>> /\ excused \subseteq excused'
      /\ \A d \in Caller \ {c} : call'[d] = call[d]
  BY OthersStay DEF Execute, stores
<1> SUFFICES ASSUME NEW k \in Key, k \notin excused', Executions(k)
             PROVE  Executions(k)'
  BY <1>1 DEF ExecutionInv
<1>2. CASE Claimable(r)
  <2>1. /\ call'[c].at = "claim" /\ call'[c].key = r.key /\ UNCHANGED answers
        /\ Excuse(r.key, Meets(c, "claim", "key", r.key)) /\ call[c] = Idle
    <3>1. PICK e : e = [Idle EXCEPT !.at = "claim", !.key = r.key, !.payload = r.payload]
      OBVIOUS
    <3>2. call' = [call EXCEPT ![c] = e] /\ e.at = "claim" /\ e.key = r.key
      BY <1>2, <3>1 DEF Execute, Continue, Idle
    <3> QED
      BY <1>2, <3>2 DEF Execute, TypeOK
  <2>2. CASE r.key # k
    <3>1. \A d \in Caller : Works(d, k)' => call'[d] = call[d]
      BY <1>1, <2>1, <2>2 DEF Works
    <3> QED
      BY <1>1, <2>1, <3>1, ExecutionsStay
  <2>3. CASE r.key = k
    <3>1. records[k].status = "none" /\ executed[k] = <<>>
      BY <1>2, <2>3 DEF Claimable, Executions
    <3>2. \A d \in Caller \ {c} : ~Works(d, k)
      <4>1. \A d \in Caller \ {c} : ~(call[d].at = "claim" /\ call[d].key = k)
        BY <2>1, <2>3 DEF Excuse, Meets
      <4> QED
        BY <3>1, <4>1 DEF Works, Executions
    <3>3. \A d \in Caller : Works(d, k)' => d = c
      BY <1>1, <3>2 DEF Works
    <3> QED
      BY <1>1, <2>1, <3>1, <3>3 DEF Executions
  <2> QED
    BY <2>2, <2>3
<1>3. CASE ~Claimable(r)
  <2>1. UNCHANGED call
    BY <1>3 DEF Execute
  <2>2. CASE answers' = answers
    BY <1>1, <2>1, <2>2, ExecutionsStay
  <2>3. CASE ReplayedUnlessConflict(r) /\ answers' # answers
    <3>1. answers' = answers \union {Answer(r.key, r.payload, records[r.key].kind,
                                            records[r.key].of)}
      BY <1>3, <2>3 DEF Execute
    <3>2. \A a \in answers' : a.key = k =>
            a.of = a.payload /\ (a.kind = "SUCCESS" => executed[k] = <<a.of>>)
      BY <2>3, <3>1 DEF Answer, ReplayedUnlessConflict, Executions
    <3> QED
      BY <1>1, <2>1, <3>2 DEF Executions, Works
  <2> QED
    BY <1>3, <2>2, <2>3 DEF Execute
<1> QED
  BY <1>2, <1>3

\* What a put leaves: a record of the caller's payload, unless PostgreSQL had a
\* record with another.
LEMMA PutRecord ==
  ASSUME TypeOK, NEW k \in Key, NEW status, NEW p, NEW kind, NEW o,
         Put(k, status, p, kind, o),
         records[k].status = "none" \/ records[k].payload = p
  PROVE  /\ records'[k] = [status |-> status, kind |-> kind, of |-> o, payload |-> p]
         /\ \A j \in Key \ {k} : records'[j] = records[j]
BY DEF TypeOK, Put, Record

LEMMA ClaimKeeps ==
  ASSUME TypeOK, ExecutionInv, NEW c \in Caller, Claim(c)
  PROVE  ExecutionInv'
<1>1. /\ UNCHANGED <<executed, answers, excused>> /\ \A d \in Caller \ {c} : call'[d] = call[d]
  BY OthersStay DEF Claim, outside
<1>2. PICK q \in Payload, l \in Key : q = call[c].payload /\ l = call[c].key
  BY DEF TypeOK, CallAbout, Claim
<1>3. /\ call[c].at = "claim" /\ Put(l, "EXECUTING", q, "", "")
      /\ call'[c].at = "hook" /\ call'[c].key = l /\ call'[c].payload = q
  BY <1>2, WhereItGoes DEF Claim
<1> SUFFICES ASSUME NEW k \in Key, Executions(k)
             PROVE  Executions(k)'
  BY <1>1 DEF ExecutionInv
<1>4. CASE k # l
  <2>1. records'[k] = records[k]
    BY <1>3, <1>4 DEF Put, TypeOK
  <2>2. \A d \in Caller : Works(d, k)' => call'[d] = call[d]
    BY <1>1, <1>3, <1>4 DEF Works
  <2> QED
    BY <1>1, <2>1, <2>2, ExecutionsStay
<1>5. CASE k = l
  <2>1. Works(c, k)
    BY <1>2, <1>3, <1>5 DEF Works
  <2>2. records[k].status = "none" /\ executed[k] = <<>>
    BY <1>3, <2>1 DEF Executions
  <2>3. records'[k].status = "EXECUTING" /\ records'[k].payload = q
    <3>0. PICK e : e = ""
      OBVIOUS
    <3>1. records'[k] = [status |-> "EXECUTING", kind |-> e, of |-> e, payload |-> q]
      <4>1. Put(k, "EXECUTING", q, e, e)
        BY <1>3, <1>5, <3>0 DEF Put
      <4> QED
        BY <2>2, <4>1, PutRecord
    <3> QED
      BY <3>1
  <2>4. \A d \in Caller : Works(d, k)' => d = c
    BY <1>1, <2>1 DEF Works, Executions
  <2> QED
    BY <1>1, <1>3, <2>2, <2>3, <2>4 DEF Executions
<1> QED
  BY <1>4, <1>5

LEMMA HookKeeps ==
  ASSUME TypeOK, ExecutionInv, NEW c \in Caller, Hook(c)
  PROVE  ExecutionInv'
<1>1. /\ UNCHANGED <<records, answers, excused>> /\ \A d \in Caller \ {c} : call'[d] = call[d]
  BY OthersStay DEF Hook, stores
<1>2. PICK q \in Payload, l \in Key : q = call[c].payload /\ l = call[c].key
  BY DEF TypeOK, CallAbout, Hook
<1>3. PICK kind \in Outcome, did \in BOOLEAN :
        /\ kind = "SUCCESS" => did
        /\ executed' = IF did THEN [executed EXCEPT ![l] = Append(@, q)] ELSE executed
        /\ call' = [call EXCEPT ![c] = [call[c] EXCEPT !.at = "finish", !.kind = kind]]
  BY <1>2 DEF Hook, Continue
<1>4. /\ call[c].at = "hook" /\ call'[c].at = "finish" /\ call'[c].key = l
      /\ call'[c].payload = q
  BY <1>2, WhereItGoes DEF Hook
<1>5. call'[c].kind = kind
  <2>1. PICK e : e = [call[c] EXCEPT !.at = "finish", !.kind = kind]
    OBVIOUS
  <2>2. e.kind = kind
    BY <2>1 DEF TypeOK, Call
  <2> QED
    BY <1>3, <2>1, <2>2 DEF TypeOK
<1> SUFFICES ASSUME NEW k \in Key, Executions(k)
             PROVE  Executions(k)'
  BY <1>1 DEF ExecutionInv
<1>6. CASE k # l
  <2>1. executed'[k] = executed[k]
    BY <1>3, <1>6 DEF TypeOK
  <2>2. \A d \in Caller : Works(d, k)' => call'[d] = call[d]
    BY <1>1, <1>4, <1>6 DEF Works
  <2> QED
    BY <1>1, <2>1, <2>2, ExecutionsStay
<1>7. CASE k = l
  <2>1. Works(c, k)
    BY <1>2, <1>4, <1>7 DEF Works
  <2>2. executed[k] = <<>> /\ records[k].status = "EXECUTING" /\ records[k].payload = q
    BY <1>2, <1>4, <2>1 DEF Executions
  <2>3. \/ executed'[k] = <<>> /\ kind # "SUCCESS"
        \/ executed'[k] = <<q>>
    BY <1>3, <1>7, <2>2 DEF TypeOK
  <2>4. \A d \in Caller : Works(d, k)' => d = c
    BY <1>1, <2>1 DEF Works, Executions
  <2>5. \A a \in answers : a.key = k => a.of = a.payload /\ a.kind # "SUCCESS"
    BY <2>2 DEF Executions
  <2> QED
    BY <1>1, <1>4, <1>5, <2>2, <2>3, <2>4, <2>5 DEF Executions
<1> QED
  BY <1>6, <1>7

LEMMA FinishKeeps ==
  ASSUME TypeOK, ExecutionInv, NEW c \in Caller, Finish(c)
  PROVE  ExecutionInv'
<1>1. /\ UNCHANGED <<executed, excused>> /\ \A d \in Caller \ {c} : call'[d] = call[d]
  BY OthersStay DEF Finish
<1>2. PICK q \in Payload, l \in Key : q = call[c].payload /\ l = call[c].key
  BY DEF TypeOK, CallAbout, Finish
<1>3. PICK kind : kind = IF Conclusive(call[c].kind) THEN call[c].kind ELSE "error"
  OBVIOUS
<1>4. PICK status \in {"COMPLETED", "FAILED"} :
        status = IF kind = "error" THEN "FAILED" ELSE "COMPLETED"
  OBVIOUS
<1>5. /\ Put(l, status, q, kind, q) /\ answers' = answers \union {Answer(l, q, kind, q)}
      /\ call[c].at = "finish" /\ call'[c].at = "idle"
  BY <1>2, <1>3, <1>4, IdleType, WhereItGoes DEF Finish
<1> SUFFICES ASSUME NEW k \in Key, Executions(k)
             PROVE  Executions(k)'
  BY <1>1 DEF ExecutionInv
<1>6. \A d \in Caller : Works(d, k)' => call'[d] = call[d] /\ d # c
  BY <1>1, <1>5 DEF Works
<1>7. CASE k # l
  <2>1. records'[k] = records[k] /\ \A a \in answers' : a.key = k => a \in answers
    BY <1>5, <1>7 DEF Put, TypeOK, Answer
  <2> QED
    BY <1>1, <1>6, <2>1, ExecutionsStay
<1>8. CASE k = l
  <2>1. Works(c, k)
    BY <1>2, <1>5, <1>8 DEF Works
  <2>2. /\ records[k].payload = q
        /\ call[c].kind = "SUCCESS" => executed[k] = <<q>>
    BY <1>2, <1>5, <2>1 DEF Executions
  <2>3. records'[k] = [status |-> status, kind |-> kind, of |-> q, payload |-> q]
    BY <1>5, <1>8, <2>2, PutRecord
  <2>4. kind = "SUCCESS" => executed[k] = <<q>>
    BY <1>3, <2>2
  <2>5. \A d \in Caller : ~Works(d, k)'
    BY <1>1, <1>6, <2>1 DEF Works, Executions
  <2>6. \A a \in answers' : a.key = k =>
          a.of = a.payload /\ (a.kind = "SUCCESS" => executed[k] = <<a.of>>)
    BY <1>5, <2>4 DEF Answer, Executions
  <2>7. /\ records'[k].status \in {"COMPLETED", "FAILED"} /\ records'[k].of = q
        /\ records'[k].payload = q /\ records'[k].kind = kind
    BY <2>3
  <2> QED
    BY <1>1, <2>4, <2>5, <2>6, <2>7 DEF Executions
<1> QED
  BY <1>7, <1>8

LEMMA ExecutionKept ==
  ASSUME TypeOK, ExecutionInv, [Next]_vars
  PROVE  ExecutionInv'
<1>1. ASSUME NEW c \in Caller,
             \/ \E p \in Payload : EnqueueFind(c, p)
             \/ EnqueueInsert(c)
             \/ \E i \in DOMAIN rows : DeliverRead(c, i)
             \/ DeliverMark(c) \/ ReadFence(c) \/ SetFence(c)
      PROVE  ExecutionInv'
  <2>1. UNCHANGED <<records, executed, answers>>
    BY <1>1 DEF EnqueueFind, EnqueueInsert, DeliverRead, DeliverMark, ReadFence, SetFence,
                stores, outside
  <2>2. (\A d \in Caller \ {c} : call'[d] = call[d]) /\ excused \subseteq excused'
    BY <1>1, OthersStay
  <2>3. call'[c] = call[c] \/ call'[c].at \notin {"claim", "hook", "finish"}
    BY <1>1, IdleType, WhereItGoes
  <2> QED
    BY <2>1, <2>2, <2>3, ExecutionQuiet
<1>2. ASSUME NEW i \in DOMAIN rows, MarkFailed(i)
      PROVE  ExecutionInv'
  BY <1>2, ExecutionQuiet DEF MarkFailed, Excuse, outside
<1>3. ASSUME NEW j \in Key, Expire(j)
      PROVE  ExecutionInv'
  <2>1. /\ UNCHANGED <<call, executed, answers>> /\ excused' = excused \union {j}
        /\ \A k \in Key \ {j} : records'[k] = records[k]
    BY <1>3 DEF Expire, TypeOK, outside
  <2> QED
    BY <2>1, ExecutionsStay DEF ExecutionInv
<1>4. ASSUME NEW dead \in SUBSET Caller, Crash(dead)
      PROVE  ExecutionInv'
  <2>1. CASE Key \subseteq excused'
    BY <2>1 DEF ExecutionInv
  <2>2. CASE UNCHANGED <<stores, excused>>
    BY <1>4, <2>2, CrashEnds, IdleType, ExecutionQuiet DEF stores, outside
  <2> QED
    BY <1>4, <2>1, <2>2 DEF Crash
<1>5. CASE UNCHANGED vars
  BY <1>5, ExecutionQuiet DEF vars, stores, outside
<1> QED
  BY <1>1, <1>2, <1>3, <1>4, <1>5, ExecuteKeeps, ClaimKeeps, HookKeeps, FinishKeeps DEF Next

\* The external system executes once per key, through crashes between any two
\* steps and retries, and whoever is answered, at once or by a replay, is
\* answered about his own payload, a success only of what was executed; only
\* claims that overlap and records that are lost excuse more.
THEOREM ExecutesAtMostOnce == Spec => []ExecutedOnce
<1>1. Init => ExecutionInv /\ AnswerInv
  <2>0. Init => AnswerInv
    BY DEF Init, AnswerInv
  <2> SUFFICES ASSUME Init, NEW k \in Key
               PROVE  Executions(k)
    BY <2>0 DEF ExecutionInv
  <2>1. /\ records[k].status = "none" /\ executed[k] = <<>> /\ answers = {}
        /\ \A c \in Caller : ~Works(c, k)
    BY IdleType DEF Init, NoRecord, Works
  <2> QED
    BY <2>1 DEF Executions
<1>2. TypeOK /\ ExecutionInv /\ AnswerInv /\ [Next]_vars => ExecutionInv' /\ AnswerInv'
  BY ExecutionKept, AnswerKept
<1>3. AnswerInv /\ ExecutionInv => ExecutedOnce
  <2> SUFFICES ASSUME AnswerInv, ExecutionInv
               PROVE  ExecutedOnce
    OBVIOUS
  <2>1. ASSUME NEW k \in Key \ excused
        PROVE  Len(executed[k]) <= 1
    <3>1. CASE executed[k] = <<>>
      BY <3>1
    <3>2. ASSUME NEW p \in Payload, executed[k] = <<p>>
          PROVE  Len(executed[k]) <= 1
      <4>1. Len(<<p>>) = 1
        OBVIOUS
      <4> QED
        BY <3>2, <4>1
    <3> QED
      BY <3>1, <3>2 DEF ExecutionInv, Executions
  <2>2. ASSUME NEW a \in answers, a.key \notin excused
        PROVE  /\ a.of = a.payload
               /\ a.kind = "SUCCESS" => \E i \in DOMAIN executed[a.key] : executed[a.key][i] = a.of
    <3>1. a.of = a.payload /\ (a.kind = "SUCCESS" => executed[a.key] = <<a.of>>)
      BY <2>2 DEF AnswerInv, ExecutionInv, Executions
    <3>2. 1 \in DOMAIN <<a.of>> /\ <<a.of>>[1] = a.of
      OBVIOUS
    <3> QED
      BY <3>1, <3>2
  <2> QED
    BY <2>1, <2>2 DEF ExecutedOnce
<1> QED
  BY <1>1, <1>2, <1>3, TypeCorrect, PTL DEF Spec

=============================================================================
