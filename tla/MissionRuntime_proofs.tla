------------------------ MODULE MissionRuntime_proofs ------------------------
(***************************************************************************)
(* Theorems about MissionRuntime for every set of missions, workers, keys  *)
(* and commands, every plan length, both backends and any number of        *)
(* faults: types, replayed results, effects of a key, proposals; what      *)
(* MissionLifecycle promises; and, with one owner at a time, that the      *)
(* runtime implements MissionLifecycle, that its log is a legal history of *)
(* the stored mission, and that expected versions are honoured.            *)
(***************************************************************************)
EXTENDS MissionRuntime, MissionLifecycle, FiniteSetTheorems, TLAPS

-----------------------------------------------------------------------------
(* The protocol's operators stay in their domains *)

LEMMA StagedTypes ==
  ASSUME NEW s \in Snapshot
  PROVE  /\ Advanced(s) \in 0..PlanSteps
         /\ Staged(s) \in Snapshot
         /\ Resumed(s) \in Snapshot
<1>1. Advanced(s) \in 0..PlanSteps
  BY PlanStepsAssumption DEF Advanced, Snapshot
<1>2. "AWAITING_APPROVAL" \in Status /\ "RUNNING" \in Status
  BY DEF Status
<1>3. QED
  BY <1>1, <1>2 DEF Staged, Resumed, Snapshot

LEMMA HandlerExecuteType ==
  ASSUME NEW s \in Snapshot
  PROVE  HandlerExecute(s) \in Snapshot
<1>1. {"QUEUED", "WAITING_FOR_EVIDENCE", "COMPLETED", "RUNNING"} \subseteq Status
  BY DEF Status
<1>2. PlanSteps \in 0..PlanSteps /\ 0 \in 0..PlanSteps
  BY PlanStepsAssumption
<1>3. QED
  BY <1>1, <1>2, StagedTypes DEF HandlerExecute, Snapshot

LEMMA NextSnapshotType ==
  ASSUME NEW s \in Snapshot, NEW b \in Snapshot, NEW status \in Status \union {"NONE"}
  PROVE  NextSnapshot(s, status, b) \in Snapshot
<1>1. s.version + 1 \in Nat
  BY DEF Snapshot
<1>2. \A v \in Nat : [b EXCEPT !.status = status, !.version = v] \in Snapshot
  BY DEF Snapshot
<1>3. QED
  BY <1>1, <1>2 DEF NextSnapshot

LEMMA SuccessorType ==
  ASSUME NEW s \in Snapshot, NEW c \in Command(Mission)
  PROVE  Successor(s, c) \in Snapshot
<1>1. Resolved(s, c) \in Snapshot
  <2>1. {"APPROVED", "REJECTED"} \subseteq Status
    BY DEF Status
  <2>2. QED
    BY <2>1, HandlerExecuteType DEF Resolved, Command, Snapshot
<1>2. Resolved(s, c).status \in Status \union {"NONE"}
  BY <1>1 DEF Snapshot
<1>3. QED
  BY <1>1, <1>2, NextSnapshotType DEF Successor

LEMMA ConstantTypes ==
  /\ Absent \in Snapshot
  /\ Draft \in Snapshot
  /\ Free \in Record
  /\ "UNKNOWN" \in Status
  /\ "RUNNING" \in Status
<1>1. {"DRAFT", "UNKNOWN", "RUNNING"} \subseteq Status
  BY DEF Status
<1>2. QED
  BY <1>1, PlanStepsAssumption DEF Absent, Draft, Snapshot, Free, Record

-----------------------------------------------------------------------------
(* The inductive invariant *)

CallType == [op : Operation \union {"none"}, mission : Mission \union {"none"},
             command : Commands \union {NoCommand}, key : Key \union {NoKey}]

Writing == {"start", "apply", "recover", "reconcile"}

\* What the place p at which a worker is suspended tells of its call c.
CallAt(p, c) ==
  /\ c.op = "apply" => c.command \in Commands /\ c.mission = c.command.mission
  /\ c.op # "apply" => c.key = NoKey
  /\ p \in {"lookup", "reflect", "load", "claim", "fence", "complete", "fail"} =>
       c.op = "apply"
  /\ p \in {"lookup", "reflect", "claim", "complete", "fail"} => c.key \in Key
  /\ p = "recover" => c.op = "recover"
  /\ p = "resolver" => c.op = "reconcile"
  /\ p \in {"save", "append"} => c.op \in Writing
  /\ p \notin {"idle", "recover"} => c.mission \in Mission

WorkersOK ==
  /\ pc \in [Worker -> Place]
  /\ call \in [Worker -> CallType]
  /\ base \in [Worker -> [Mission -> Snapshot]]
  /\ todo \in [Worker -> SUBSET Mission]
  /\ token \in [Worker -> [Mission -> Nat]]
  /\ \A w \in Worker : CallAt(pc[w], call[w])

StoresOK ==
  /\ backend \in Backends
  /\ mission \in [Mission -> Snapshot]
  /\ log \in [Mission -> Seq(Event)]
  /\ idem \in [Key -> Record]
  /\ fence \in [Mission -> Nat]
  /\ faults \in Nat
  /\ applied \in [Key -> Nat]

\* TypeOK, and what each place of a call knows.
TypeInv == StoresOK /\ WorkersOK

LEMMA TypeInvType == TypeInv => TypeOK
BY DEF TypeInv, StoresOK, WorkersOK, CallType, TypeOK

LEMMA CommandTypes ==
  /\ Commands \subseteq Command(Mission)
  /\ \A c \in Commands : c.mission \in Mission
BY RuntimeAssumption DEF Command

LEMMA NoCallType ==
  /\ NoCall \in CallType
  /\ CallAt("idle", NoCall)
BY DEF NoCall, CallType, Operation, CallAt

LEMMA BuiltEventType ==
  ASSUME TypeInv, NEW w \in Worker, pc[w] \in {"save", "append", "complete"}
  PROVE  Write(w) \in Snapshot /\ BuiltEvent(w) \in Event
<1>1. /\ call[w].op \in Writing
      /\ call[w].mission \in Mission
      /\ base[w][Target(w)] \in Snapshot
  BY DEF TypeInv, WorkersOK, CallAt, Target, Writing
<1>2. CASE call[w].op = "apply"
  <2>1. call[w].command \in Command(Mission)
    BY <1>2, CommandTypes DEF TypeInv, WorkersOK, CallAt
  <2>2. Write(w) = Successor(base[w][Target(w)], call[w].command)
    BY <1>2 DEF Write
  <2>3. EventType(call[w].command) \in {"STATE_TRANSITION", "APPROVAL_DECIDED", "RECONCILED"}
    BY <2>1 DEF EventType, Command
  <2>4. QED
    BY <1>1, <1>2, <2>1, <2>2, <2>3, SuccessorType DEF BuiltEvent, Event
<1>3. CASE call[w].op # "apply"
  BY <1>1, <1>3, ConstantTypes, NextSnapshotType DEF Write, BuiltEvent, Event, Writing
<1>4. QED
  BY <1>2, <1>3

-----------------------------------------------------------------------------
(* Moving one worker keeps WorkersOK *)

LEMMA ReturnKeeps ==
  ASSUME WorkersOK, NEW w \in Worker, Return(w), token' \in [Worker -> [Mission -> Nat]]
  PROVE  WorkersOK'
<1>1. pc' \in [Worker -> Place]
  BY DEF WorkersOK, Return, Place
<1>2. call' \in [Worker -> CallType]
  BY NoCallType DEF WorkersOK, Return
<1>3. base' \in [Worker -> [Mission -> Snapshot]]
  BY ConstantTypes DEF WorkersOK, Return
<1>4. todo' \in [Worker -> SUBSET Mission]
  BY DEF WorkersOK, Return
<1>5. ASSUME NEW v \in Worker
      PROVE  CallAt(pc'[v], call'[v])
  BY NoCallType DEF WorkersOK, Return
<1>6. QED
  BY <1>1, <1>2, <1>3, <1>4, <1>5 DEF WorkersOK

LEMMA EnterKeeps ==
  ASSUME WorkersOK, NEW w \in Worker, NEW p \in Place, NEW b \in [Mission -> Snapshot],
         Enter(w, p, b), CallAt(p, call[w]), UNCHANGED token
  PROVE  WorkersOK'
<1>1. CASE p = "idle"
  BY <1>1, ReturnKeeps DEF Enter, WorkersOK
<1>2. CASE p # "idle"
  <2>1. /\ pc' = [pc EXCEPT ![w] = p]
        /\ base' = [base EXCEPT ![w] = b]
        /\ UNCHANGED <<call, todo>>
    BY <1>2 DEF Enter
  <2>2. \A v \in Worker : CallAt(pc'[v], call'[v])
    BY <2>1 DEF WorkersOK
  <2>3. QED
    BY <2>1, <2>2 DEF WorkersOK
<1>3. QED
  BY <1>1, <1>2

LEMMA GotoKeeps ==
  ASSUME WorkersOK, NEW w \in Worker, NEW p \in Place,
         Goto(w, p), CallAt(p, call[w]), UNCHANGED token
  PROVE  WorkersOK'
BY EnterKeeps DEF Goto, WorkersOK

\* The call with which a worker begins an operation.
LEMMA BeginKeeps ==
  ASSUME WorkersOK, NEW w \in Worker, NEW p \in Place, NEW c \in CallType,
         CallAt(p, c),
         pc' = [pc EXCEPT ![w] = p], call' = [call EXCEPT ![w] = c],
         base' \in [Worker -> [Mission -> Snapshot]],
         todo' \in [Worker -> SUBSET Mission],
         token' \in [Worker -> [Mission -> Nat]]
  PROVE  WorkersOK'
<1>1. \A v \in Worker : CallAt(pc'[v], call'[v])
  BY DEF WorkersOK
<1>2. QED
  BY <1>1 DEF WorkersOK

\* Where an error or an admission takes a call with a key.
LEMMA ThrownPlace ==
  ASSUME WorkersOK, NEW w \in Worker, pc[w] \notin {"idle", "recover"}
  PROVE  Thrown(w) \in {"idle", "fail"} /\ CallAt(Thrown(w), call[w])
<1>1. call[w].key \in Key \union {NoKey}
  BY DEF WorkersOK, CallType
<1>2. QED
  BY <1>1 DEF WorkersOK, CallAt, Thrown

LEMMA AdmitPlace ==
  ASSUME WorkersOK, NEW w \in Worker, pc[w] \in {"load", "claim", "fence"},
         NEW s
  PROVE  /\ Proceed(w, s) \in {"idle", "fail", "save"}
         /\ CallAt(Proceed(w, s), call[w])
         /\ Admit(w, s) \in {"idle", "fail", "fence", "save"}
         /\ CallAt(Admit(w, s), call[w])
<1>1. CallAt("fence", call[w]) /\ CallAt("save", call[w])
  BY DEF WorkersOK, CallAt, Writing
<1>2. QED
  BY <1>1, ThrownPlace DEF Proceed, Admit

LEMMA PutKeeps ==
  ASSUME TypeInv, NEW k \in Key, NEW c \in Commands, NEW r \in Event \union {NoResult},
         NEW s \in {"EXECUTING", "COMPLETED", "FAILED"}, Put(k, s, c, r)
  PROVE  idem' \in [Key -> Record]
<1>1. idem \in [Key -> Record] /\ idem[k].payload \in Commands \union {NoCommand}
  BY DEF TypeInv, StoresOK, Record
<1>2. QED
  BY <1>1 DEF Put, Record

-----------------------------------------------------------------------------
(* Types: one lemma per group of actions *)

LEMMA ApplyCallsKeepTypes ==
  ASSUME TypeInv, NEW w \in Worker,
         \/ \E c \in Commands, k \in Key \union {NoKey} : BeginApply(w, c, k)
         \/ Lookup(w) \/ Reflect(w) \/ Load(w) \/ Claim(w) \/ CheckFence(w)
  PROVE  TypeInv'
<1>1. WorkersOK /\ StoresOK
  BY DEF TypeInv
<1>2. ASSUME NEW c \in Commands, NEW k \in Key \union {NoKey}, BeginApply(w, c, k)
      PROVE  TypeInv'
  <2> DEFINE cl == [op |-> "apply", mission |-> c.mission, command |-> c, key |-> k]
             p == IF k = NoKey THEN "load" ELSE "lookup"
  <2>1. cl \in CallType
    BY CommandTypes DEF CallType, Operation
  <2>2. p \in Place /\ CallAt(p, cl)
    BY CommandTypes DEF Place, CallAt
  <2>3. pc' = [pc EXCEPT ![w] = p] /\ call' = [call EXCEPT ![w] = cl]
    BY <1>2 DEF BeginApply
  <2>4. UNCHANGED <<stores, base, todo, token, faults, applied>>
    BY <1>2 DEF BeginApply
  <2>5. WorkersOK'
    <3> HIDE DEF cl, p
    <3>1. QED
      BY <1>1, <2>1, <2>2, <2>3, <2>4, BeginKeeps DEF WorkersOK
  <2>6. QED
    BY <1>1, <2>4, <2>5 DEF TypeInv, StoresOK, stores
<1>3. CASE Lookup(w)
  <2>1. PICK p \in {"load", "reflect", "idle"} : Goto(w, p)
    BY <1>3 DEF Lookup
  <2>2. p \in Place /\ CallAt(p, call[w])
    BY <1>1, <1>3 DEF Place, Lookup, WorkersOK, CallAt
  <2>3. WorkersOK'
    BY <1>1, <1>3, <2>1, <2>2, GotoKeeps DEF Lookup
  <2>4. QED
    BY <1>1, <1>3, <2>3 DEF Lookup, TypeInv, StoresOK, stores
<1>4. CASE Reflect(w)
  <2>1. WorkersOK'
    BY <1>1, <1>4, ReturnKeeps DEF Reflect, WorkersOK
  <2>2. QED
    BY <1>1, <1>4, <2>1 DEF Reflect, TypeInv, StoresOK, stores
<1>5. CASE Load(w)
  <2> DEFINE s == mission[Target(w)]
             b == [base[w] EXCEPT ![Target(w)] = s]
             p == IF s = Absent THEN "idle"
                  ELSE IF call[w].key # NoKey THEN "claim" ELSE Admit(w, s)
  <2>1. Target(w) \in Mission /\ s \in Snapshot /\ b \in [Mission -> Snapshot]
    BY <1>1, <1>5 DEF Load, Target, WorkersOK, StoresOK, CallAt
  <2>2. Enter(w, p, b)
    BY <1>5 DEF Load
  <2>3. p \in Place /\ CallAt(p, call[w])
    <3>1. pc[w] = "load"
      BY <1>5 DEF Load
    <3>2. CallAt("idle", call[w])
      BY <1>1 DEF WorkersOK, CallAt
    <3>3. call[w].key # NoKey => CallAt("claim", call[w])
      BY <1>1, <3>1 DEF WorkersOK, CallAt, CallType
    <3>4. Admit(w, s) \in {"idle", "fail", "fence", "save"} /\ CallAt(Admit(w, s), call[w])
      BY <1>1, <3>1, AdmitPlace
    <3> HIDE DEF s
    <3>5. QED
      BY <3>2, <3>3, <3>4 DEF Place
  <2>4. WorkersOK'
    <3> HIDE DEF b, p
    <3>1. QED
      BY <1>1, <1>5, <2>1, <2>2, <2>3, EnterKeeps DEF Load
  <2>5. QED
    BY <1>1, <1>5, <2>4 DEF Load, TypeInv, StoresOK, stores
<1>6. CASE Claim(w)
  <2> DEFINE p == Admit(w, base[w][Target(w)])
  <2>1. p \in Place /\ CallAt(p, call[w])
    BY <1>1, <1>6, AdmitPlace DEF Claim, Place
  <2>2. WorkersOK'
    <3> HIDE DEF p
    <3>1. Goto(w, p) /\ UNCHANGED token
      BY <1>6 DEF Claim, p
    <3>2. QED
      BY <1>1, <2>1, <3>1, GotoKeeps
  <2>3. idem' \in [Key -> Record]
    <3>1. call[w].key \in Key /\ call[w].command \in Commands
      BY <1>1, <1>6 DEF Claim, WorkersOK, CallAt
    <3>2. QED
      BY <1>6, <3>1, PutKeeps DEF Claim
  <2>4. QED
    BY <1>1, <1>6, <2>2, <2>3 DEF Claim, TypeInv, StoresOK
<1>7. CASE CheckFence(w)
  <2>1. PICK p \in {Thrown(w), Proceed(w, base[w][Target(w)])} : Goto(w, p)
    BY <1>7 DEF CheckFence
  <2>2. p \in Place /\ CallAt(p, call[w])
    <3>1. pc[w] = "fence"
      BY <1>7 DEF CheckFence
    <3>2. QED
      BY <1>1, <2>1, <3>1, ThrownPlace, AdmitPlace DEF Place
  <2>3. WorkersOK'
    BY <1>1, <1>7, <2>1, <2>2, GotoKeeps DEF CheckFence
  <2>4. QED
    BY <1>1, <1>7, <2>3 DEF CheckFence, TypeInv, StoresOK, stores
<1>8. QED
  BY <1>2, <1>3, <1>4, <1>5, <1>6, <1>7

LEMMA WritesKeepTypes ==
  ASSUME TypeInv, NEW w \in Worker,
         Save(w) \/ AppendEvent(w) \/ Complete(w) \/ Fail(w)
  PROVE  TypeInv'
<1>1. WorkersOK /\ StoresOK
  BY DEF TypeInv
<1>2. CASE Save(w)
  <2>1. WorkersOK'
    <3>1. CallAt("append", call[w]) /\ "append" \in Place
      BY <1>1, <1>2 DEF Save, WorkersOK, CallAt, Place
    <3>2. QED
      BY <1>1, <1>2, <3>1, GotoKeeps DEF Save
  <2>2. mission' \in [Mission -> Snapshot]
    <3>1. Write(w) \in Snapshot
      BY <1>2, BuiltEventType DEF Save
    <3>2. QED
      BY <1>1, <1>2, <3>1 DEF Save, StoresOK
  <2>3. applied' \in [Key -> Nat]
    <3>1. call[w].key \in Key \union {NoKey}
      BY <1>1 DEF WorkersOK, CallType
    <3>2. QED
      BY <1>1, <1>2, <3>1 DEF Save, StoresOK
  <2>4. QED
    BY <1>1, <1>2, <2>1, <2>2, <2>3 DEF Save, TypeInv, StoresOK
<1>3. CASE AppendEvent(w)
  <2> DEFINE e == BuiltEvent(w)
  <2>1. e \in Event /\ Target(w) \in Mission /\ pc[w] = "append"
    BY <1>1, <1>3, BuiltEventType DEF AppendEvent, WorkersOK, CallAt, Target
  <2>2. log' \in [Mission -> Seq(Event)]
    <3> HIDE DEF e
    <3>1. log' = log \/ log' = [log EXCEPT ![Target(w)] = Append(@, e)]
      BY <1>3 DEF AppendEvent, e
    <3>2. \A q \in Seq(Event) : Append(q, e) \in Seq(Event)
      BY <2>1
    <3>3. log[Target(w)] \in Seq(Event) /\ log \in [Mission -> Seq(Event)]
      BY <1>1, <2>1 DEF StoresOK
    <3>4. QED
      BY <3>1, <3>2, <3>3
  <2>3. PICK p \in {Thrown(w), Appended(w)} : Goto(w, p)
    BY <1>3 DEF AppendEvent
  <2>4. p \in Place /\ CallAt(p, call[w])
    <3>1. Appended(w) \in {"complete", "recover", "idle"}
      BY DEF Appended
    <3>2. CallAt(Appended(w), call[w])
      <4>1. call[w].key \in Key \union {NoKey}
        BY <1>1 DEF WorkersOK, CallType
      <4>2. QED
        BY <1>1, <2>1, <4>1 DEF Appended, WorkersOK, CallAt
    <3>3. QED
      BY <1>1, <2>1, <2>3, <3>1, <3>2, ThrownPlace DEF Place
  <2>5. WorkersOK'
    BY <1>1, <1>3, <2>3, <2>4, GotoKeeps DEF AppendEvent
  <2>6. QED
    BY <1>1, <1>3, <2>2, <2>5 DEF AppendEvent, TypeInv, StoresOK
<1>4. CASE Complete(w)
  <2>1. WorkersOK'
    BY <1>1, <1>4, ReturnKeeps DEF Complete, WorkersOK
  <2>2. idem' \in [Key -> Record]
    <3>1. call[w].key \in Key /\ call[w].command \in Commands /\ BuiltEvent(w) \in Event
      BY <1>1, <1>4, BuiltEventType DEF Complete, WorkersOK, CallAt
    <3>2. QED
      BY <1>4, <3>1, PutKeeps DEF Complete
  <2>3. QED
    BY <1>1, <1>4, <2>1, <2>2 DEF Complete, TypeInv, StoresOK
<1>5. CASE Fail(w)
  <2>1. WorkersOK'
    BY <1>1, <1>5, ReturnKeeps DEF Fail, WorkersOK
  <2>2. idem' \in [Key -> Record]
    <3>1. call[w].key \in Key /\ call[w].command \in Commands
      BY <1>1, <1>5 DEF Fail, WorkersOK, CallAt
    <3>2. QED
      BY <1>5, <3>1, PutKeeps DEF Fail
  <2>3. QED
    BY <1>1, <1>5, <2>1, <2>2 DEF Fail, TypeInv, StoresOK
<1>6. QED
  BY <1>2, <1>3, <1>4, <1>5

LEMMA OtherOperationsKeepTypes ==
  ASSUME TypeInv, NEW w \in Worker,
         \/ \E m \in Mission : Start(w, m)
         \/ BeginRecover(w)
         \/ \E m \in Mission : \/ RecoverOne(w, m)
                               \/ BeginReconcile(w, m)
                               \/ ReadFence(w, m)
         \/ \E outcome, verifiable : ResolverAnswers(w, outcome, verifiable)
         \/ WriteFence(w)
  PROVE  TypeInv'
<1>1. WorkersOK /\ StoresOK
  BY DEF TypeInv
<1>2. ASSUME NEW m \in Mission, Start(w, m)
      PROVE  TypeInv'
  <2> DEFINE c == [op |-> "start", mission |-> m, command |-> NoCommand, key |-> NoKey]
  <2>1. c \in CallType /\ CallAt("save", c) /\ "save" \in Place
    BY DEF CallType, CallAt, Operation, Place, Writing
  <2>2. pc' = [pc EXCEPT ![w] = "save"] /\ call' = [call EXCEPT ![w] = c]
    BY <1>2 DEF Start
  <2>3. WorkersOK'
    <3> HIDE DEF c
    <3>1. QED
      BY <1>1, <1>2, <2>1, <2>2, BeginKeeps DEF Start, WorkersOK
  <2>4. QED
    BY <1>1, <1>2, <2>3 DEF Start, TypeInv, StoresOK, stores
<1>3. CASE BeginRecover(w)
  <2> DEFINE c == [NoCall EXCEPT !.op = "recover"]
             found == {m \in Mission : mission[m].status \in DefaultRecoverable}
  <2>1. c \in CallType /\ CallAt("recover", c) /\ "recover" \in Place
    BY DEF CallType, CallAt, Operation, Place, NoCall
  <2>2. /\ pc' = [pc EXCEPT ![w] = "recover"] /\ call' = [call EXCEPT ![w] = c]
        /\ base' = [base EXCEPT ![w] = mission] /\ todo' = [todo EXCEPT ![w] = found]
    BY <1>3 DEF BeginRecover
  <2>3. WorkersOK'
    <3>1. found \subseteq Mission
      OBVIOUS
    <3> HIDE DEF c, found
    <3>2. /\ base' \in [Worker -> [Mission -> Snapshot]]
          /\ todo' \in [Worker -> SUBSET Mission]
      BY <1>1, <2>2, <3>1 DEF WorkersOK, StoresOK
    <3>3. token' \in [Worker -> [Mission -> Nat]]
      BY <1>1, <1>3 DEF WorkersOK, BeginRecover
    <3>4. QED
      BY <1>1, <2>1, <2>2, <3>2, <3>3, BeginKeeps
  <2>4. QED
    BY <1>1, <1>3, <2>3 DEF BeginRecover, TypeInv, StoresOK, stores
<1>4. ASSUME NEW m \in Mission, RecoverOne(w, m)
      PROVE  TypeInv'
  <2> DEFINE c == [call[w] EXCEPT !.mission = m]
  <2>1. c \in CallType /\ CallAt("append", c) /\ "append" \in Place
    BY <1>1, <1>4 DEF RecoverOne, WorkersOK, CallType, CallAt, Place, Writing
  <2>2. /\ pc' = [pc EXCEPT ![w] = "append"] /\ call' = [call EXCEPT ![w] = c]
    BY <1>1, <1>4 DEF RecoverOne, WorkersOK
  <2>3. WorkersOK'
    <3> HIDE DEF c
    <3>1. todo' \in [Worker -> SUBSET Mission]
      BY <1>1, <1>4 DEF WorkersOK, RecoverOne
    <3>2. QED
      BY <1>1, <1>4, <2>1, <2>2, <3>1, BeginKeeps DEF RecoverOne, WorkersOK
  <2>4. mission' \in [Mission -> Snapshot]
    <3>1. base[w][m] \in Snapshot
      BY <1>1 DEF WorkersOK
    <3>2. NextSnapshot(base[w][m], "UNKNOWN", base[w][m]) \in Snapshot
      BY <3>1, NextSnapshotType, ConstantTypes
    <3>3. QED
      BY <1>1, <1>4, <3>2 DEF RecoverOne, StoresOK
  <2>5. QED
    BY <1>1, <1>4, <2>3, <2>4 DEF RecoverOne, TypeInv, StoresOK
<1>5. ASSUME NEW m \in Mission, BeginReconcile(w, m)
      PROVE  TypeInv'
  <2> DEFINE c == [NoCall EXCEPT !.op = "reconcile", !.mission = m]
  <2>1. c \in CallType /\ CallAt("resolver", c) /\ "resolver" \in Place
    BY DEF CallType, CallAt, Operation, Place, NoCall
  <2>2. /\ pc' = [pc EXCEPT ![w] = "resolver"] /\ call' = [call EXCEPT ![w] = c]
    BY <1>5 DEF BeginReconcile
  <2>3. WorkersOK'
    <3> HIDE DEF c
    <3>1. base' \in [Worker -> [Mission -> Snapshot]]
      BY <1>1, <1>5 DEF WorkersOK, StoresOK, BeginReconcile
    <3>2. QED
      BY <1>1, <1>5, <2>1, <2>2, <3>1, BeginKeeps DEF BeginReconcile, WorkersOK
  <2>4. QED
    BY <1>1, <1>5, <2>3 DEF BeginReconcile, TypeInv, StoresOK, stores
<1>6. ASSUME NEW outcome, NEW verifiable, ResolverAnswers(w, outcome, verifiable)
      PROVE  TypeInv'
  <2>1. PICK p \in {"save", "idle"} : Goto(w, p)
    BY <1>6 DEF ResolverAnswers
  <2>2. p \in Place /\ CallAt(p, call[w])
    BY <1>1, <1>6 DEF ResolverAnswers, WorkersOK, CallAt, Place, Writing
  <2>3. WorkersOK'
    BY <1>1, <1>6, <2>1, <2>2, GotoKeeps DEF ResolverAnswers
  <2>4. QED
    BY <1>1, <1>6, <2>3 DEF ResolverAnswers, TypeInv, StoresOK, stores
<1>7. ASSUME NEW m \in Mission, ReadFence(w, m)
      PROVE  TypeInv'
  <2> DEFINE c == [NoCall EXCEPT !.op = "acquire", !.mission = m]
  <2>1. c \in CallType /\ CallAt("acquire", c) /\ "acquire" \in Place
    BY DEF CallType, CallAt, Operation, Place, NoCall
  <2>2. /\ pc' = [pc EXCEPT ![w] = "acquire"] /\ call' = [call EXCEPT ![w] = c]
    BY <1>7 DEF ReadFence
  <2>3. WorkersOK'
    <3> HIDE DEF c
    <3>1. fence[m] + 1 \in Nat
      BY <1>1 DEF StoresOK
    <3>2. token' \in [Worker -> [Mission -> Nat]]
      BY <1>1, <1>7, <3>1 DEF WorkersOK, ReadFence
    <3>3. QED
      BY <1>1, <1>7, <2>1, <2>2, <3>2, BeginKeeps DEF ReadFence, WorkersOK
  <2>4. QED
    BY <1>1, <1>7, <2>3 DEF ReadFence, TypeInv, StoresOK, stores
<1>8. CASE WriteFence(w)
  <2>1. WorkersOK'
    BY <1>1, <1>8, ReturnKeeps DEF WriteFence, WorkersOK
  <2>2. fence' \in [Mission -> Nat]
    <3>1. Target(w) \in Mission
      BY <1>1, <1>8 DEF WriteFence, WorkersOK, CallAt, Target
    <3>2. token[w][Target(w)] \in Nat
      BY <1>1, <3>1 DEF WorkersOK
    <3>3. QED
      BY <1>1, <1>8, <3>2 DEF WriteFence, StoresOK
  <2>3. QED
    BY <1>1, <1>8, <2>1, <2>2 DEF WriteFence, TypeInv, StoresOK
<1>9. QED
  BY <1>2, <1>3, <1>4, <1>5, <1>6, <1>7, <1>8

LEMMA EnvironmentKeepsTypes ==
  ASSUME TypeInv,
         \/ \E w \in Worker : Crash(w) \/ StoreFails(w)
         \/ \E k \in Key : Expire(k)
         \/ UNCHANGED vars
  PROVE  TypeInv'
<1>1. WorkersOK /\ StoresOK
  BY DEF TypeInv
<1>2. ASSUME NEW w \in Worker, Crash(w)
      PROVE  TypeInv'
  <2>1. token' \in [Worker -> [Mission -> Nat]]
    BY <1>1, <1>2 DEF Crash, WorkersOK
  <2>2. WorkersOK'
    BY <1>1, <1>2, <2>1, ReturnKeeps DEF Crash
  <2>3. QED
    BY <1>1, <1>2, <2>2 DEF Crash, TypeInv, StoresOK, stores
<1>3. ASSUME NEW w \in Worker, StoreFails(w)
      PROVE  TypeInv'
  <2>1. PICK p \in {"idle", Thrown(w)} : Goto(w, p)
    BY <1>3 DEF StoreFails
  <2>2. p \in Place /\ CallAt(p, call[w])
    <3>1. pc[w] \notin {"idle", "recover"} /\ CallAt("idle", call[w])
      BY <1>1, <1>3 DEF StoreFails, WorkersOK, CallAt
    <3>2. QED
      BY <1>1, <2>1, <3>1, ThrownPlace DEF Place
  <2>3. WorkersOK'
    BY <1>1, <1>3, <2>1, <2>2, GotoKeeps DEF StoreFails
  <2>4. QED
    BY <1>1, <1>3, <2>3 DEF StoreFails, TypeInv, StoresOK, stores
<1>4. ASSUME NEW k \in Key, Expire(k)
      PROVE  TypeInv'
  <2>1. idem[k].payload \in Commands \union {NoCommand}
    BY <1>1 DEF StoresOK, Record
  <2>2. idem' \in [Key -> Record]
    BY <1>1, <1>4, <2>1, ConstantTypes DEF Expire, StoresOK, Record
  <2>3. applied' \in [Key -> Nat]
    BY <1>1, <1>4 DEF Expire, StoresOK
  <2>4. QED
    BY <1>1, <1>4, <2>2, <2>3 DEF Expire, TypeInv, StoresOK, WorkersOK, workers
<1>5. CASE UNCHANGED vars
  BY <1>1, <1>5 DEF vars, TypeInv, StoresOK, WorkersOK
<1>6. QED
  BY <1>2, <1>3, <1>4, <1>5

LEMMA InitHasTypes == Init => TypeInv
<1> SUFFICES ASSUME Init PROVE TypeInv
  OBVIOUS
<1>1. StoresOK
  BY ConstantTypes DEF Init, Quiet, StoresOK
<1>2. WorkersOK
  BY ConstantTypes, NoCallType DEF Init, Quiet, WorkersOK, Place
<1>3. QED
  BY <1>1, <1>2 DEF TypeInv

LEMMA StepKeepsTypes == TypeInv /\ [Next]_vars => TypeInv'
<1> SUFFICES ASSUME TypeInv, [Next]_vars PROVE TypeInv'
  OBVIOUS
<1>1. ASSUME NEW w \in Worker, Begin(w)
      PROVE  TypeInv'
  BY <1>1, ApplyCallsKeepTypes, OtherOperationsKeepTypes DEF Begin
<1>2. ASSUME NEW w \in Worker, Step(w)
      PROVE  TypeInv'
  BY <1>2, ApplyCallsKeepTypes, WritesKeepTypes, OtherOperationsKeepTypes DEF Step
<1>3. QED
  BY <1>1, <1>2, EnvironmentKeepsTypes DEF Next, Rest

\* Every store and every suspended call stays in its domain, whatever the
\* number of workers and the faults (runtime.ts with either backend).
THEOREM TypeCorrect == Spec => []TypeOK
<1>1. Spec => []TypeInv
  BY InitHasTypes, StepKeepsTypes, PTL DEF Spec
<1>2. QED
  BY <1>1, TypeInvType, PTL

-----------------------------------------------------------------------------
(* A step moves one worker, and only AppendEvent leads to "complete" *)

\* Every worker but w keeps its place, its call and what it read.
OnlyMoves(w) ==
  \A v \in Worker \ {w} : /\ pc'[v] = pc[v] /\ call'[v] = call[v]
                          /\ base'[v] = base[v] /\ todo'[v] = todo[v]

Acts(w) == Begin(w) \/ Step(w) \/ Crash(w) \/ StoreFails(w)

LEMMA EnterMoves ==
  ASSUME WorkersOK, NEW w \in Worker, NEW p, NEW b, Enter(w, p, b)
  PROVE  OnlyMoves(w) /\ pc'[w] = p
BY DEF Enter, Return, WorkersOK, OnlyMoves

LEMMA ActMoves ==
  ASSUME TypeInv, NEW w \in Worker, Acts(w)
  PROVE  OnlyMoves(w) /\ (pc'[w] = "complete" => AppendEvent(w))
<1>1. WorkersOK
  BY DEF TypeInv
<1>2. ASSUME Return(w)
      PROVE  OnlyMoves(w) /\ pc'[w] = "idle"
  BY <1>1, <1>2 DEF Return, WorkersOK, OnlyMoves
<1>3. ASSUME NEW p, Goto(w, p)
      PROVE  OnlyMoves(w) /\ pc'[w] = p
  BY <1>1, <1>3, EnterMoves DEF Goto
<1>4. CASE Begin(w)
  BY <1>1, <1>4 DEF Begin, Start, BeginApply, BeginRecover, BeginReconcile, ReadFence,
     OnlyMoves, WorkersOK
<1>5. CASE Crash(w)
  BY <1>2, <1>5 DEF Crash
<1>6. CASE StoreFails(w)
  <2>1. PICK p \in {"idle", Thrown(w)} : Goto(w, p)
    BY <1>6 DEF StoreFails
  <2>2. Thrown(w) # "complete"
    BY DEF Thrown
  <2>3. QED
    BY <1>3, <2>1, <2>2
<1>7. CASE Step(w)
  <2>1. CASE Lookup(w)
    <3>1. PICK p \in {"load", "reflect", "idle"} : Goto(w, p)
      BY <2>1 DEF Lookup
    <3>2. QED
      BY <1>3, <3>1
  <2>2. CASE Reflect(w) \/ Complete(w) \/ Fail(w) \/ WriteFence(w)
    BY <1>2, <2>2 DEF Reflect, Complete, Fail, WriteFence
  <2>3. CASE Load(w)
    <3> DEFINE s == mission[Target(w)]
               p == IF s = Absent THEN "idle"
                    ELSE IF call[w].key # NoKey THEN "claim" ELSE Admit(w, s)
    <3>1. OnlyMoves(w) /\ pc'[w] = p
      <4>1. Enter(w, p, [base[w] EXCEPT ![Target(w)] = s])
        BY <2>3 DEF Load
      <4> HIDE DEF p
      <4>2. QED
        BY <1>1, <4>1, EnterMoves
    <3>2. Admit(w, s) # "complete"
      BY <1>1, <2>3, AdmitPlace DEF Load
    <3>3. QED
      BY <3>1, <3>2
  <2>4. CASE Claim(w)
    <3>1. Goto(w, Admit(w, base[w][Target(w)]))
      BY <2>4 DEF Claim
    <3>2. Admit(w, base[w][Target(w)]) # "complete"
      BY <1>1, <2>4, AdmitPlace DEF Claim
    <3>3. QED
      BY <1>3, <3>1, <3>2
  <2>5. CASE CheckFence(w)
    <3>1. PICK p \in {Thrown(w), Proceed(w, base[w][Target(w)])} : Goto(w, p)
      BY <2>5 DEF CheckFence
    <3>2. p # "complete"
      BY <1>1, <2>5, <3>1, AdmitPlace DEF CheckFence, Thrown
    <3>3. QED
      BY <1>3, <3>1, <3>2
  <2>6. CASE Save(w)
    BY <1>3, <2>6 DEF Save
  <2>7. CASE AppendEvent(w)
    <3>1. PICK p : Goto(w, p)
      BY <2>7 DEF AppendEvent
    <3>2. QED
      BY <1>3, <2>7, <3>1
  <2>8. ASSUME NEW m \in Mission, RecoverOne(w, m)
        PROVE  OnlyMoves(w) /\ pc'[w] # "complete"
    BY <1>1, <2>8 DEF RecoverOne, OnlyMoves, WorkersOK
  <2>9. ASSUME NEW outcome, NEW verifiable, ResolverAnswers(w, outcome, verifiable)
        PROVE  OnlyMoves(w) /\ pc'[w] # "complete"
    <3>1. PICK p \in {"save", "idle"} : Goto(w, p)
      BY <2>9 DEF ResolverAnswers
    <3>2. QED
      BY <1>3, <3>1
  <2>10. QED
    BY <1>7, <2>1, <2>2, <2>3, <2>4, <2>5, <2>6, <2>7, <2>8, <2>9 DEF Step
<1>8. QED
  BY <1>4, <1>5, <1>6, <1>7 DEF Acts

-----------------------------------------------------------------------------
(* A replayed result is an event of the log *)

Holds(l, e) == \E i \in 1..Len(l) : l[i] = e

\* A worker about to put COMPLETED has its event in the log.
CompletingLogged ==
  \A w \in Worker : pc[w] = "complete" => Holds(log[Target(w)], BuiltEvent(w))

LogInv == TypeInv /\ CompletedIsLogged /\ CompletingLogged

\* The log only grows.
LEMMA LogGrows ==
  ASSUME TypeInv, [Next]_vars, NEW m \in Mission, NEW e, Holds(log[m], e)
  PROVE  Holds(log'[m], e)
<1>1. CASE UNCHANGED log
  BY <1>1
<1>2. ASSUME NEW w \in Worker, AppendEvent(w)
      PROVE  Holds(log'[m], e)
  <2>1. CASE UNCHANGED log
    BY <2>1
  <2>2. CASE log' = [log EXCEPT ![Target(w)] = Append(@, BuiltEvent(w))]
    <3> DEFINE b == BuiltEvent(w)
    <3>1. log \in [Mission -> Seq(Event)] /\ b \in Event
      BY <1>2, BuiltEventType DEF TypeInv, StoresOK, AppendEvent
    <3> HIDE DEF b
    <3>2. log'[m] = log[m] \/ log'[m] = Append(log[m], b)
      BY <2>2, <3>1 DEF b
    <3>3. QED
      BY <3>1, <3>2 DEF Holds
  <2>3. QED
    BY <1>2, <2>1, <2>2 DEF AppendEvent
<1>3. UNCHANGED log \/ \E w \in Worker : AppendEvent(w)
  BY DEF Next, Begin, Step, Crash, StoreFails, Expire, Rest, Start, BeginApply,
     BeginRecover, BeginReconcile, ReadFence, Lookup, Reflect, Load, Claim, CheckFence,
     Save, Complete, Fail, RecoverOne, ResolverAnswers, WriteFence, stores, vars
<1>4. QED
  BY <1>1, <1>2, <1>3

\* A record becomes COMPLETED by Complete and no other step.
LEMMA CompletedByComplete ==
  ASSUME TypeInv, [Next]_vars, NEW k \in Key, idem'[k].status = "COMPLETED"
  PROVE  \/ idem'[k] = idem[k]
         \/ \E w \in Worker : pc[w] = "complete" /\ idem'[k].result = BuiltEvent(w)
<1>1. idem \in [Key -> Record]
  BY DEF TypeInv, StoresOK
<1>2. CASE UNCHANGED idem
  BY <1>2
<1>3. ASSUME NEW w \in Worker, Claim(w) \/ Fail(w)
      PROVE  idem'[k] = idem[k]
  BY <1>1, <1>3 DEF Claim, Fail, Put
<1>4. ASSUME NEW w \in Worker, Complete(w)
      PROVE  \/ idem'[k] = idem[k]
             \/ pc[w] = "complete" /\ idem'[k].result = BuiltEvent(w)
  BY <1>1, <1>4 DEF Complete, Put
<1>5. ASSUME NEW j \in Key, Expire(j)
      PROVE  idem'[k] = idem[k]
  BY <1>1, <1>5 DEF Expire, Free
<1>6. \/ UNCHANGED idem
      \/ \E w \in Worker : Claim(w) \/ Fail(w) \/ Complete(w)
      \/ \E j \in Key : Expire(j)
  BY DEF Next, Begin, Step, Crash, StoreFails, Rest, Start, BeginApply,
     BeginRecover, BeginReconcile, ReadFence, Lookup, Reflect, Load, CheckFence,
     Save, AppendEvent, RecoverOne, ResolverAnswers, WriteFence, stores, vars
<1>7. QED
  BY <1>2, <1>3, <1>4, <1>5, <1>6

LEMMA StepKeepsLogInv == LogInv /\ [Next]_vars => LogInv'
<1> SUFFICES ASSUME LogInv, [Next]_vars PROVE LogInv'
  OBVIOUS
<1>1. TypeInv /\ TypeInv'
  BY StepKeepsTypes DEF LogInv
<1>2. CompletedIsLogged'
  <2> SUFFICES ASSUME NEW k \in Key, idem'[k].status = "COMPLETED"
               PROVE  \E m \in Mission : Holds(log'[m], idem'[k].result)
    BY DEF CompletedIsLogged, Logged, Holds
  <2>1. CASE idem'[k] = idem[k]
    <3>1. PICK m \in Mission : Holds(log[m], idem[k].result)
      BY <2>1 DEF LogInv, CompletedIsLogged, Logged, Holds
    <3>2. QED
      BY <1>1, <2>1, <3>1, LogGrows
  <2>2. ASSUME NEW w \in Worker, pc[w] = "complete", idem'[k].result = BuiltEvent(w)
        PROVE  \E m \in Mission : Holds(log'[m], idem'[k].result)
    <3>1. Target(w) \in Mission /\ Holds(log[Target(w)], BuiltEvent(w))
      BY <1>1, <2>2 DEF LogInv, CompletingLogged, TypeInv, WorkersOK, CallAt, Target
    <3>2. QED
      BY <1>1, <2>2, <3>1, LogGrows
  <2>3. QED
    BY <1>1, <2>1, <2>2, CompletedByComplete
<1>3. CompletingLogged'
  <2> SUFFICES ASSUME NEW w \in Worker, pc'[w] = "complete"
               PROVE  Holds(log'[Target(w)'], BuiltEvent(w)')
    BY DEF CompletingLogged
  <2>1. ASSUME pc[w] = "complete", call'[w] = call[w], base'[w] = base[w]
        PROVE  Holds(log'[Target(w)'], BuiltEvent(w)')
    <3>1. Target(w)' = Target(w) /\ Write(w)' = Write(w) /\ BuiltEvent(w)' = BuiltEvent(w)
      BY <2>1 DEF Target, Write, BuiltEvent
    <3>2. Target(w) \in Mission /\ Holds(log[Target(w)], BuiltEvent(w))
      BY <1>1, <2>1 DEF LogInv, CompletingLogged, TypeInv, WorkersOK, CallAt, Target
    <3>3. QED
      BY <1>1, <3>1, <3>2, LogGrows
  <2>2. ASSUME AppendEvent(w)
        PROVE  Holds(log'[Target(w)'], BuiltEvent(w)')
    <3>1. Thrown(w) # "complete" /\ WorkersOK
      BY <1>1 DEF Thrown, TypeInv
    <3>2. ASSUME NEW p, Goto(w, p)
          PROVE  pc'[w] = p
      BY <3>1, <3>2, EnterMoves DEF Goto
    <3>3. log' = [log EXCEPT ![Target(w)] = Append(@, BuiltEvent(w))] /\ Goto(w, "complete")
      BY <2>2, <3>1, <3>2 DEF AppendEvent
    <3>4. call'[w] = call[w] /\ base'[w] = base[w]
      BY <3>1, <3>3 DEF Goto, Enter, WorkersOK
    <3>5. Target(w)' = Target(w) /\ Write(w)' = Write(w) /\ BuiltEvent(w)' = BuiltEvent(w)
      BY <3>4 DEF Target, Write, BuiltEvent
    <3> DEFINE b == BuiltEvent(w)
    <3>6. b \in Event /\ Target(w) \in Mission /\ log \in [Mission -> Seq(Event)]
      BY <1>1, <2>2, BuiltEventType DEF TypeInv, StoresOK, WorkersOK, CallAt, AppendEvent, Target
    <3> HIDE DEF b
    <3>7. log'[Target(w)] = Append(log[Target(w)], b)
      BY <3>3, <3>6 DEF b
    <3>8. Holds(log'[Target(w)], b)
      BY <3>6, <3>7 DEF Holds
    <3>9. QED
      BY <3>5, <3>8 DEF b
  <2>3. ASSUME NEW v \in Worker, Acts(v)
        PROVE  Holds(log'[Target(w)'], BuiltEvent(w)')
    BY <1>1, <2>1, <2>2, <2>3, ActMoves DEF OnlyMoves
  <2>4. CASE UNCHANGED <<pc, call, base>>
    BY <2>1, <2>4
  <2>5. (\E v \in Worker : Acts(v)) \/ UNCHANGED <<pc, call, base>>
    BY DEF Next, Acts, Expire, Rest, vars, workers
  <2>6. QED
    BY <2>3, <2>4, <2>5
<1>4. QED
  BY <1>1, <1>2, <1>3 DEF LogInv

\* No client is ever told of a state change that is not in the event log
\* (runtime.ts, apply: COMPLETED is put after the append), whatever the
\* interleaving of workers, the crashes and the failed store calls.
THEOREM CompletedResultIsLogged == Spec => []CompletedIsLogged
<1>1. Init => LogInv
  <2>1. Init => CompletedIsLogged /\ CompletingLogged
    BY DEF Init, Quiet, Free, CompletedIsLogged, CompletingLogged
  <2>2. QED
    BY <2>1, InitHasTypes DEF LogInv
<1>2. LogInv => CompletedIsLogged
  BY DEF LogInv
<1>3. QED
  BY <1>1, <1>2, StepKeepsLogInv, PTL DEF Spec

-----------------------------------------------------------------------------
(* How often a key's command takes effect *)

\* Places of a call that may still save, and of one that has claimed its key.
MaySave == {"load", "claim", "fence", "save"}
HasClaimed == {"fence", "save", "append", "complete", "fail"}

Pending(k) == {w \in Worker : call[w].key = k /\ pc[w] \in MaySave}

\* A key is visible once it is claimed, and a key that is not has had no effect;
\* the saves made and those still to come are bounded by the calls there are.
KeyInv(k) ==
  /\ ~Visible(k) => applied[k] = 0
  /\ \A w \in Worker : call[w].key = k /\ pc[w] \in HasClaimed => Visible(k)
  /\ applied[k] + Cardinality(Pending(k)) <= Cardinality(Worker)

AppliedInv == TypeInv /\ \A k \in Key : KeyInv(k)

\* Only Lookup of a free key gives a call the right to save, and only Claim
\* lets it pass for the owner of its key.
LEMMA KeyMoves ==
  ASSUME TypeInv, NEW w \in Worker, Acts(w), NEW k \in Key, call'[w].key = k
  PROVE  /\ pc'[w] \in MaySave =>
              call[w].key = k /\ (pc[w] \in MaySave \/ (pc[w] = "lookup" /\ ~Visible(k)))
         /\ pc'[w] \in HasClaimed =>
              call[w].key = k /\ (pc[w] \in HasClaimed \/ Claim(w))
<1> DEFINE Goal == /\ pc'[w] \in MaySave =>
                        call[w].key = k /\ (pc[w] \in MaySave \/ (pc[w] = "lookup" /\ ~Visible(k)))
                   /\ pc'[w] \in HasClaimed =>
                        call[w].key = k /\ (pc[w] \in HasClaimed \/ Claim(w))
<1>1. WorkersOK /\ k # NoKey
  BY RuntimeAssumption DEF TypeInv
<1>2. ASSUME Return(w)
      PROVE  Goal
  BY <1>1, <1>2 DEF Return, WorkersOK, MaySave, HasClaimed
<1>3. ASSUME NEW p, NEW b, Enter(w, p, b)
      PROVE  pc'[w] = p /\ (p # "idle" => call[w].key = k)
  BY <1>1, <1>3 DEF Enter, Return, WorkersOK
<1>4. ASSUME NEW p, Goto(w, p)
      PROVE  pc'[w] = p /\ (p # "idle" => call[w].key = k)
  BY <1>3, <1>4 DEF Goto
<1>5. CASE Begin(w)
  <2>1. CASE BeginRecover(w)
    BY <1>1, <2>1 DEF BeginRecover, WorkersOK, MaySave, HasClaimed
  <2>2. ASSUME NEW m \in Mission, Start(w, m) \/ BeginReconcile(w, m) \/ ReadFence(w, m)
        PROVE  Goal
    BY <1>1, <2>2 DEF Start, BeginReconcile, ReadFence, NoCall, WorkersOK, MaySave, HasClaimed
  <2>3. ASSUME NEW c \in Commands, NEW j \in Key \union {NoKey}, BeginApply(w, c, j)
        PROVE  Goal
    BY <1>1, <2>3 DEF BeginApply, WorkersOK, MaySave, HasClaimed
  <2>4. QED
    BY <1>5, <2>1, <2>2, <2>3 DEF Begin
<1>6. CASE Crash(w)
  BY <1>2, <1>6 DEF Crash
<1>7. Thrown(w) \in {"idle", "fail"}
  BY DEF Thrown
<1>8. CASE StoreFails(w)
  BY <1>4, <1>7, <1>8 DEF StoreFails, MaySave, HasClaimed
<1>9. CASE Step(w)
  <2>1. CASE Lookup(w)
    BY <1>4, <2>1 DEF Lookup, MaySave, HasClaimed
  <2>2. CASE Reflect(w) \/ Complete(w) \/ Fail(w) \/ WriteFence(w)
    BY <1>2, <2>2 DEF Reflect, Complete, Fail, WriteFence
  <2>3. CASE Load(w)
    <3> DEFINE s == mission[Target(w)]
    <3>1. PICK p \in {"idle", "claim"} \union (IF call[w].key = NoKey THEN {Admit(w, s)} ELSE {}) :
            pc'[w] = p /\ (p # "idle" => call[w].key = k)
      BY <1>3, <2>3 DEF Load
    <3>2. QED
      BY <1>1, <2>3, <3>1 DEF Load, MaySave, HasClaimed
  <2>4. CASE Claim(w)
    BY <1>4, <2>4 DEF Claim, MaySave, HasClaimed
  <2>5. CASE CheckFence(w)
    BY <1>4, <1>7, <2>5 DEF CheckFence, MaySave, HasClaimed
  <2>6. CASE Save(w)
    BY <1>4, <2>6 DEF Save, MaySave, HasClaimed
  <2>7. CASE AppendEvent(w)
    <3>1. Appended(w) \in {"complete", "recover", "idle"}
      BY DEF Appended
    <3>2. QED
      BY <1>4, <1>7, <2>7, <3>1 DEF AppendEvent, MaySave, HasClaimed
  <2>8. ASSUME NEW m \in Mission, RecoverOne(w, m)
        PROVE  Goal
    BY <1>1, <2>8 DEF RecoverOne, WorkersOK, CallAt
  <2>9. ASSUME NEW outcome, NEW verifiable, ResolverAnswers(w, outcome, verifiable)
        PROVE  Goal
    <3>1. pc[w] = "resolver" /\ call[w].key = NoKey
      BY <1>1, <2>9 DEF ResolverAnswers, WorkersOK, CallAt
    <3>2. PICK p \in {"save", "idle"} : Goto(w, p)
      BY <2>9 DEF ResolverAnswers
    <3>3. QED
      BY <1>1, <1>4, <3>1, <3>2 DEF MaySave, HasClaimed
  <2>10. QED
    BY <1>9, <2>1, <2>2, <2>3, <2>4, <2>5, <2>6, <2>7, <2>8, <2>9 DEF Step
<1>10. QED
  BY <1>5, <1>6, <1>8, <1>9 DEF Acts

\* A worker's step leaves a visible key visible, Claim makes its key visible, and
\* Save alone counts.
LEMMA KeyEffects ==
  ASSUME TypeInv, NEW w \in Worker, Acts(w), NEW k \in Key
  PROVE  /\ Visible(k) => Visible(k)'
         /\ Claim(w) /\ call[w].key = k => Visible(k)'
         /\ applied' = applied \/ Save(w)
<1>1. idem \in [Key -> Record] /\ WorkersOK
  BY DEF TypeInv, StoresOK
<1>2. ASSUME NEW s \in {"EXECUTING", "COMPLETED", "FAILED"}, NEW j \in Key, NEW c, NEW r,
             Put(j, s, c, r)
      PROVE  Visible(j)' /\ (Visible(k) => Visible(k)')
  BY <1>1, <1>2 DEF Put, Visible
<1>3. Claim(w) \/ Fail(w) \/ Complete(w) => call[w].key \in Key
  BY <1>1 DEF WorkersOK, CallAt, Claim, Fail, Complete
<1>4. UNCHANGED idem \/ Claim(w) \/ Fail(w) \/ Complete(w)
  BY DEF Acts, Begin, Step, Crash, StoreFails, Start, BeginApply,
     BeginRecover, BeginReconcile, ReadFence, Lookup, Reflect, Load, CheckFence,
     Save, AppendEvent, RecoverOne, ResolverAnswers, WriteFence, stores
<1>5. applied' = applied \/ Save(w)
  BY DEF Acts, Begin, Step, Crash, StoreFails, Start, BeginApply,
     BeginRecover, BeginReconcile, ReadFence, Lookup, Reflect, Load, Claim, CheckFence,
     AppendEvent, Complete, Fail, RecoverOne, ResolverAnswers, WriteFence
<1>6. Claim(w) \/ Fail(w) \/ Complete(w) => (Visible(k) => Visible(k)')
  BY <1>2, <1>3 DEF Claim, Fail, Complete
<1>7. UNCHANGED idem => (Visible(k) => Visible(k)')
  BY DEF Visible
<1>8. ASSUME Claim(w), call[w].key = k
      PROVE  Visible(k)'
  BY <1>1, <1>8 DEF Claim, Put, Visible
<1>9. QED
  BY <1>4, <1>5, <1>6, <1>7, <1>8

LEMMA ActKeepsKeyInv ==
  ASSUME TypeInv, IsFiniteSet(Worker), NEW w \in Worker, Acts(w), NEW k \in Key, KeyInv(k)
  PROVE  KeyInv(k)'
<1> DEFINE Old == Pending(k)
           New == {v \in Worker : call'[v].key = k /\ pc'[v] \in MaySave}
<1>1. /\ OnlyMoves(w)
      /\ \A v \in Worker \ {w} : v \in New <=> v \in Old
  BY ActMoves DEF OnlyMoves, Pending
<1>2. applied \in [Key -> Nat] /\ WorkersOK
  BY DEF TypeInv, StoresOK
<1>3. /\ IsFiniteSet(Old) /\ IsFiniteSet(New)
      /\ Cardinality(Old) \in Nat /\ Cardinality(New) \in Nat /\ Cardinality(Worker) \in Nat
      /\ Cardinality(New) <= Cardinality(Worker)
  <2>1. Old \subseteq Worker /\ New \subseteq Worker
    BY DEF Pending
  <2> HIDE DEF Old, New
  <2>2. QED
    BY <2>1, FS_Subset, FS_CardinalityType
<1>4. \A v \in Worker : call'[v].key = k /\ pc'[v] \in HasClaimed => Visible(k)'
  <2> SUFFICES ASSUME NEW v \in Worker, call'[v].key = k, pc'[v] \in HasClaimed
               PROVE  Visible(k)'
    OBVIOUS
  <2>1. CASE v = w
    BY <2>1, KeyMoves, KeyEffects DEF KeyInv
  <2>2. CASE v # w
    BY <1>1, <2>2, KeyEffects DEF KeyInv, OnlyMoves
  <2>3. QED
    BY <2>1, <2>2
<1>5. CASE Save(w) /\ call[w].key = k
  <2>1. applied'[k] = applied[k] + 1
    BY <1>2, <1>5, RuntimeAssumption DEF Save
  <2>2. Visible(k)'
    BY <1>5, KeyEffects DEF Save, KeyInv, HasClaimed
  <2>3. w \in Old /\ w \notin New
    <3>1. pc'[w] = "append"
      BY <1>2, <1>5, EnterMoves DEF Save, Goto
    <3>2. QED
      BY <1>5, <3>1 DEF Save, Pending, MaySave
  <2>4. New = Old \ {w}
    BY <1>1, <2>3 DEF Pending
  <2>5. Cardinality(New) = Cardinality(Old) - 1
    <3> HIDE DEF Old, New
    <3>1. QED
      BY <1>3, <2>3, <2>4, FS_RemoveElement
  <2>6. applied'[k] + Cardinality(New) <= Cardinality(Worker)
    <3>1. applied[k] + Cardinality(Old) <= Cardinality(Worker) /\ applied[k] \in Nat
      BY <1>2 DEF KeyInv
    <3> HIDE DEF Old, New
    <3>2. QED
      BY <1>3, <2>1, <2>5, <3>1
  <2>7. QED
    BY <1>4, <2>2, <2>6 DEF KeyInv, Pending
<1>6. CASE ~(Save(w) /\ call[w].key = k)
  <2>1. applied'[k] = applied[k]
    BY <1>2, <1>6, KeyEffects, RuntimeAssumption DEF Save
  <2>2. ~Visible(k)' => applied'[k] = 0
    BY <2>1, KeyEffects DEF KeyInv
  <2>3. applied'[k] + Cardinality(New) <= Cardinality(Worker)
    <3>1. CASE New \subseteq Old
      <4>1. applied[k] + Cardinality(Old) <= Cardinality(Worker) /\ applied[k] \in Nat
        BY <1>2 DEF KeyInv
      <4> HIDE DEF Old, New
      <4>2. Cardinality(New) <= Cardinality(Old)
        BY <1>3, <3>1, FS_Subset
      <4>3. QED
        BY <1>3, <2>1, <4>1, <4>2
    <3>2. CASE ~(New \subseteq Old)
      <4>1. w \in New /\ w \notin Old
        BY <1>1, <3>2
      <4>2. ~Visible(k)
        BY <4>1, KeyMoves DEF Pending
      <4>3. applied[k] = 0
        BY <4>2 DEF KeyInv
      <4> HIDE DEF Old, New
      <4>4. QED
        BY <1>3, <2>1, <4>3
    <3>3. QED
      BY <3>1, <3>2
  <2>4. QED
    BY <1>4, <2>2, <2>3 DEF KeyInv, Pending
<1>7. QED
  BY <1>5, <1>6

LEMMA StepKeepsAppliedInv ==
  ASSUME IsFiniteSet(Worker)
  PROVE  AppliedInv /\ [Next]_vars => AppliedInv'
<1> SUFFICES ASSUME AppliedInv, [Next]_vars PROVE AppliedInv'
  OBVIOUS
<1>1. TypeInv /\ TypeInv'
  BY StepKeepsTypes DEF AppliedInv
<1> SUFFICES ASSUME NEW k \in Key PROVE KeyInv(k)'
  BY <1>1 DEF AppliedInv
<1>2. KeyInv(k)
  BY DEF AppliedInv
<1>3. ASSUME NEW w \in Worker, Acts(w)
      PROVE  KeyInv(k)'
  BY <1>1, <1>2, <1>3, ActKeepsKeyInv
<1>4. ASSUME NEW j \in Key, Expire(j)
      PROVE  KeyInv(k)'
  <2>1. Pending(k)' = Pending(k)
    BY <1>4 DEF Expire, Pending, workers
  <2>2. idem \in [Key -> Record] /\ applied \in [Key -> Nat]
    BY <1>1 DEF TypeInv, StoresOK
  <2>3. CASE j = k
    <3>1. \A w \in Worker : call'[w].key # k
      BY <1>4, <2>3 DEF Expire, workers
    <3>2. applied'[k] = 0
      BY <1>4, <2>2, <2>3 DEF Expire
    <3>3. Cardinality(Pending(k)) <= Cardinality(Worker) /\ Cardinality(Pending(k)) \in Nat
      <4>1. Pending(k) \subseteq Worker
        BY DEF Pending
      <4>2. QED
        BY <4>1, FS_Subset, FS_CardinalityType
    <3>4. QED
      BY <2>1, <3>1, <3>2, <3>3 DEF KeyInv
  <2>4. CASE j # k
    <3>1. applied'[k] = applied[k] /\ idem'[k] = idem[k]
      BY <1>4, <2>2, <2>4 DEF Expire
    <3>2. UNCHANGED <<pc, call>>
      BY <1>4 DEF Expire, workers
    <3>3. Visible(k)' = Visible(k)
      BY <3>1 DEF Visible
    <3>4. QED
      BY <1>2, <2>1, <3>1, <3>2, <3>3 DEF KeyInv
  <2>5. QED
    BY <2>3, <2>4
<1>5. CASE UNCHANGED vars
  BY <1>2, <1>5 DEF vars, KeyInv, Visible, Pending
<1>6. QED
  BY <1>3, <1>4, <1>5 DEF Next, Acts, Rest

\* Between two expirations a key's command takes effect at most once for each
\* invocation that can be in progress at a time, in spite of crashes, refused
\* writes and failed calls; under one owner that is at most once (runtime.ts,
\* apply: "EXECUTING/COMPLETED records replay the cached result").
THEOREM AppliedBound ==
  ASSUME IsFiniteSet(Worker)
  PROVE  Spec => []AppliedOncePerCall
<1>1. Init => AppliedInv
  <2> SUFFICES ASSUME Init, NEW k \in Key PROVE KeyInv(k)
    BY InitHasTypes DEF AppliedInv
  <2>1. Pending(k) = {}
    BY DEF Init, Quiet, Pending, MaySave
  <2>2. applied[k] = 0 /\ ~(\E w \in Worker : pc[w] \in HasClaimed)
    BY DEF Init, Quiet, HasClaimed
  <2>3. QED
    BY <2>1, <2>2, FS_EmptySet, FS_CardinalityType DEF KeyInv
<1>2. AppliedInv => AppliedOncePerCall
  <2> SUFFICES ASSUME AppliedInv, NEW k \in Key PROVE applied[k] <= Cardinality(Worker)
    BY DEF AppliedOncePerCall
  <2>1. Pending(k) \subseteq Worker
    BY DEF Pending
  <2>2. /\ Cardinality(Pending(k)) \in Nat /\ Cardinality(Worker) \in Nat
        /\ applied[k] \in Nat
    BY <2>1, FS_Subset, FS_CardinalityType DEF AppliedInv, TypeInv, StoresOK
  <2>3. QED
    BY <2>2 DEF AppliedInv, KeyInv
<1>3. AppliedInv /\ [Next]_vars => AppliedInv'
  BY StepKeepsAppliedInv
<1>4. QED
  BY <1>1, <1>2, <1>3, PTL DEF Spec
-----------------------------------------------------------------------------
(* What a worker has decided, about the snapshot it read *)

\* A write that was decided on is legal for the snapshot that was read, whatever
\* has become of the stored one since.
Decides(w) ==
  /\ call[w].op # "apply" => call[w].command = NoCommand
  /\ pc[w] \in {"fence", "save"} /\ call[w].op = "apply" =>
       VersionMatches(call[w].command, base[w][Target(w)])
  /\ pc[w] \in {"save", "append", "complete"} /\ call[w].op = "apply" =>
       Admissible(base[w][Target(w)], call[w].command)
  /\ pc[w] \in {"resolver", "save", "append"} /\ call[w].op = "reconcile" =>
       base[w][Target(w)].status = "UNKNOWN"
  /\ pc[w] \in {"recover", "append"} /\ call[w].op = "recover" =>
       \A m \in todo[w] : base[w][m].status \in DefaultRecoverable
  /\ pc[w] = "append" /\ call[w].op = "recover" =>
       base[w][Target(w)].status \in DefaultRecoverable
  /\ pc[w] = "save" => call[w].op # "recover"

DecideInv == TypeInv /\ \A w \in Worker : Decides(w)

LEMMA DecidesWhenMoved ==
  ASSUME TypeInv, NEW w \in Worker, Decides(w), Acts(w)
  PROVE  Decides(w)'
<1>1. WorkersOK
  BY DEF TypeInv
<1>2. ASSUME Return(w)
      PROVE  Decides(w)'
  BY <1>1, <1>2 DEF Return, NoCall, WorkersOK, Decides
<1>3. ASSUME NEW p, NEW b, Enter(w, p, b), p # "idle"
      PROVE  /\ pc'[w] = p /\ base'[w] = b /\ call'[w] = call[w] /\ todo'[w] = todo[w]
             /\ Target(w)' = Target(w)
  BY <1>1, <1>3 DEF Enter, WorkersOK, Target
<1>4. ASSUME NEW p, Goto(w, p), p # "idle"
      PROVE  /\ pc'[w] = p /\ base'[w] = base[w] /\ call'[w] = call[w] /\ todo'[w] = todo[w]
             /\ Target(w)' = Target(w)
  BY <1>3, <1>4 DEF Goto
<1>5. ASSUME NEW p, Goto(w, p), p \in {"idle", "fail", "load", "reflect"}
      PROVE  Decides(w)'
  <2>1. CASE p = "idle"
    BY <1>2, <1>5, <2>1 DEF Goto, Enter
  <2>2. CASE p # "idle"
    BY <1>4, <1>5, <2>2 DEF Decides
  <2> QED
    BY <2>1, <2>2
\* After a read, a claim or a fence check.
<1>6. ASSUME NEW p, NEW b, Enter(w, p, b), call[w].op = "apply",
             p \in {"idle", "fail", "claim", "fence", "save"},
             p \in {"fence", "save"} => VersionMatches(call[w].command, b[Target(w)]),
             p = "save" => Admissible(b[Target(w)], call[w].command)
      PROVE  Decides(w)'
  <2>1. CASE p = "idle"
    BY <1>2, <1>6, <2>1 DEF Enter
  <2>2. CASE p # "idle"
    <3>1. /\ pc'[w] = p /\ base'[w] = b /\ call'[w] = call[w]
          /\ Target(w)' = Target(w)
      BY <1>3, <1>6, <2>2
    <3> QED
      BY <1>6, <2>2, <3>1 DEF Decides
  <2> QED
    BY <2>1, <2>2
<1>7. CASE Begin(w)
  <2>1. CASE BeginRecover(w)
    <3> DEFINE found == {m \in Mission : mission[m].status \in DefaultRecoverable}
    <3>1. /\ pc'[w] = "recover" /\ base'[w] = mission /\ todo'[w] = found
          /\ call'[w].op = "recover" /\ call'[w].command = NoCommand
      BY <1>1, <2>1 DEF BeginRecover, WorkersOK, NoCall
    <3>2. \A m \in found : mission[m].status \in DefaultRecoverable
      OBVIOUS
    <3> HIDE DEF found
    <3> QED
      BY <3>1, <3>2 DEF Decides
  <2>2. ASSUME NEW m \in Mission, Start(w, m)
        PROVE  Decides(w)'
    <3>1. pc'[w] = "save" /\ call'[w].op = "start" /\ call'[w].command = NoCommand
      BY <1>1, <2>2 DEF Start, WorkersOK
    <3> QED
      BY <3>1 DEF Decides
  <2>3. ASSUME NEW m \in Mission, BeginReconcile(w, m)
        PROVE  Decides(w)'
    <3>1. /\ pc'[w] = "resolver" /\ call'[w].op = "reconcile" /\ call'[w].mission = m
          /\ call'[w].command = NoCommand /\ base'[w][m] = mission[m]
      BY <1>1, <2>3 DEF BeginReconcile, WorkersOK, NoCall
    <3>2. mission[m].status = "UNKNOWN"
      BY <2>3 DEF BeginReconcile
    <3> QED
      BY <3>1, <3>2 DEF Decides, Target
  <2>4. ASSUME NEW m \in Mission, ReadFence(w, m)
        PROVE  Decides(w)'
    <3>1. pc'[w] = "acquire" /\ call'[w].command = NoCommand
      BY <1>1, <2>4 DEF ReadFence, WorkersOK, NoCall
    <3> QED
      BY <3>1 DEF Decides
  <2>5. ASSUME NEW c \in Commands, NEW k \in Key \union {NoKey}, BeginApply(w, c, k)
        PROVE  Decides(w)'
    <3>1. pc'[w] \in {"load", "lookup"} /\ call'[w].op = "apply"
      BY <1>1, <2>5 DEF BeginApply, WorkersOK
    <3> QED
      BY <3>1 DEF Decides
  <2> QED
    BY <1>7, <2>1, <2>2, <2>3, <2>4, <2>5 DEF Begin
<1>8. CASE Crash(w)
  BY <1>2, <1>8 DEF Crash
<1>9. Thrown(w) \in {"idle", "fail"}
  BY DEF Thrown
<1>10. CASE StoreFails(w)
  BY <1>5, <1>9, <1>10 DEF StoreFails
<1>11. CASE Step(w)
  <2>1. CASE Lookup(w)
    BY <1>5, <2>1 DEF Lookup
  <2>2. CASE Reflect(w) \/ Complete(w) \/ Fail(w) \/ WriteFence(w)
    BY <1>2, <2>2 DEF Reflect, Complete, Fail, WriteFence
  <2>3. ASSUME NEW s
        PROVE  /\ Proceed(w, s) \in {"idle", "fail", "save"}
               /\ Proceed(w, s) = "save" => Admissible(s, call[w].command)
               /\ Admit(w, s) \in {"idle", "fail", "fence", "save"}
               /\ Admit(w, s) \in {"fence", "save"} => VersionMatches(call[w].command, s)
               /\ Admit(w, s) = "save" => Admissible(s, call[w].command)
    BY <1>9 DEF Proceed, Admit
  <2>4. CASE Load(w)
    <3> DEFINE s == mission[Target(w)]
               b == [base[w] EXCEPT ![Target(w)] = s]
               p == IF s = Absent THEN "idle"
                    ELSE IF call[w].key # NoKey THEN "claim" ELSE Admit(w, s)
    <3>1. call[w].op = "apply" /\ Target(w) \in Mission
      BY <1>1, <2>4 DEF Load, WorkersOK, CallAt, Target
    <3>2. Enter(w, p, b) /\ b[Target(w)] = s
      BY <1>1, <2>4, <3>1 DEF Load, WorkersOK
    <3>3. /\ p \in {"idle", "fail", "claim", "fence", "save"}
          /\ p \in {"fence", "save"} => VersionMatches(call[w].command, s)
          /\ p = "save" => Admissible(s, call[w].command)
      BY <2>3
    <3> HIDE DEF p, b, s
    <3> QED
      BY <1>6, <3>1, <3>2, <3>3
  <2>5. CASE Claim(w)
    <3> DEFINE p == Admit(w, base[w][Target(w)])
    <3>1. call[w].op = "apply"
      BY <1>1, <2>5 DEF Claim, WorkersOK, CallAt
    <3>2. Enter(w, p, base[w])
      BY <2>5 DEF Claim, Goto
    <3>3. /\ p \in {"idle", "fail", "claim", "fence", "save"}
          /\ p \in {"fence", "save"} => VersionMatches(call[w].command, base[w][Target(w)])
          /\ p = "save" => Admissible(base[w][Target(w)], call[w].command)
      BY <2>3, <3>1
    <3> HIDE DEF p
    <3> QED
      BY <1>6, <3>1, <3>2, <3>3
  <2>6. CASE CheckFence(w)
    <3>1. call[w].op = "apply" /\ VersionMatches(call[w].command, base[w][Target(w)])
      BY <1>1, <2>6 DEF CheckFence, WorkersOK, CallAt, Decides
    <3>2. PICK p \in {Thrown(w), Proceed(w, base[w][Target(w)])} : Enter(w, p, base[w])
      BY <2>6 DEF CheckFence, Goto
    <3>3. /\ p \in {"idle", "fail", "claim", "fence", "save"}
          /\ p = "save" => Admissible(base[w][Target(w)], call[w].command)
      BY <1>9, <2>3, <3>1, <3>2
    <3> QED
      BY <1>6, <3>1, <3>2, <3>3
  <2>7. CASE Save(w)
    <3>1. /\ pc'[w] = "append" /\ call'[w] = call[w] /\ base'[w] = base[w]
          /\ Target(w)' = Target(w) /\ pc[w] = "save"
      BY <1>4, <2>7 DEF Save
    <3> QED
      BY <3>1 DEF Decides
  <2>8. CASE AppendEvent(w)
    <3>0. pc[w] = "append"
      BY <2>8 DEF AppendEvent
    <3>1. PICK p \in {Thrown(w), Appended(w)} : Goto(w, p)
      BY <2>8 DEF AppendEvent
    <3>2. Appended(w) \in {"complete", "idle"} \/ (Appended(w) = "recover" /\ call[w].op = "recover")
      BY DEF Appended
    <3>3. CASE p \in {"idle", "fail"}
      BY <1>5, <3>1, <3>3
    <3>4. CASE p \in {"complete", "recover"}
      <4>1. /\ pc'[w] = p /\ base'[w] = base[w] /\ call'[w] = call[w]
            /\ todo'[w] = todo[w] /\ Target(w)' = Target(w)
        BY <1>4, <3>1, <3>4
      <4> QED
        BY <3>0, <3>4, <4>1 DEF Decides
    <3> QED
      BY <1>9, <3>1, <3>2, <3>3, <3>4
  <2>9. ASSUME NEW m \in Mission, RecoverOne(w, m)
        PROVE  Decides(w)'
    <3>1. /\ pc'[w] = "append" /\ base'[w] = base[w] /\ todo'[w] = todo[w] \ {m}
          /\ call'[w] = [call[w] EXCEPT !.mission = m] /\ m \in todo[w] /\ pc[w] = "recover"
      BY <1>1, <2>9 DEF RecoverOne, WorkersOK
    <3>2. /\ call'[w].op = "recover" /\ call'[w].command = call[w].command
          /\ call'[w].mission = m /\ call[w].op = "recover"
      BY <1>1, <3>1 DEF WorkersOK, CallAt, CallType
    <3> QED
      BY <3>1, <3>2 DEF Decides, Target
  <2>10. ASSUME NEW outcome, NEW verifiable, ResolverAnswers(w, outcome, verifiable)
        PROVE  Decides(w)'
    <3>1. PICK p \in {"save", "idle"} : Goto(w, p)
      BY <2>10 DEF ResolverAnswers
    <3>2. CASE p = "save"
      <4>1. /\ pc'[w] = "save" /\ base'[w] = base[w] /\ call'[w] = call[w]
            /\ Target(w)' = Target(w)
        BY <1>4, <3>1, <3>2
      <4>2. call[w].op = "reconcile" /\ base[w][Target(w)].status = "UNKNOWN"
            /\ call[w].command = NoCommand
        BY <1>1, <2>10 DEF ResolverAnswers, Decides, WorkersOK, CallAt
      <4> QED
        BY <4>1, <4>2 DEF Decides
    <3> QED
      BY <1>5, <3>1, <3>2
  <2> QED
    BY <1>11, <2>1, <2>2, <2>4, <2>5, <2>6, <2>7, <2>8, <2>9, <2>10 DEF Step
<1> QED
  BY <1>7, <1>8, <1>10, <1>11 DEF Acts

LEMMA StepKeepsDecideInv == DecideInv /\ [Next]_vars => DecideInv'
<1> SUFFICES ASSUME DecideInv, [Next]_vars PROVE DecideInv'
  OBVIOUS
<1>1. TypeInv /\ TypeInv'
  BY StepKeepsTypes DEF DecideInv
<1> SUFFICES ASSUME NEW w \in Worker PROVE Decides(w)'
  BY <1>1 DEF DecideInv
<1>2. ASSUME pc'[w] = pc[w], call'[w] = call[w], base'[w] = base[w], todo'[w] = todo[w]
      PROVE  Decides(w)'
  BY <1>2 DEF DecideInv, Decides, Target
<1>3. ASSUME NEW v \in Worker, Acts(v)
      PROVE  Decides(w)'
  <2>1. CASE v = w
    BY <1>1, <1>3, <2>1, DecidesWhenMoved DEF DecideInv
  <2>2. CASE v # w
    BY <1>1, <1>2, <1>3, <2>2, ActMoves DEF OnlyMoves
  <2> QED
    BY <2>1, <2>2
<1>4. CASE UNCHANGED <<pc, call, base, todo>>
  BY <1>2, <1>4
<1>5. (\E v \in Worker : Acts(v)) \/ UNCHANGED <<pc, call, base, todo>>
  BY DEF Next, Acts, Expire, Rest, vars, workers
<1> QED
  BY <1>3, <1>4, <1>5

LEMMA DecideInvHolds == Spec => []DecideInv
<1>1. Init => DecideInv
  <2>1. Init => \A w \in Worker : Decides(w)
    BY DEF Init, Quiet, NoCall, Decides
  <2> QED
    BY <2>1, InitHasTypes DEF DecideInv
<1> QED
  BY <1>1, StepKeepsDecideInv, PTL DEF Spec

-----------------------------------------------------------------------------
(* What is written *)

LEMMA NextSnapshotFields ==
  ASSUME NEW s \in Snapshot, NEW b \in Snapshot, NEW status
  PROVE  /\ NextSnapshot(s, status, b).status = status
         /\ NextSnapshot(s, status, b).version = s.version + 1
         /\ NextSnapshot(s, status, b).proposal = b.proposal
BY DEF NextSnapshot, Snapshot

LEMMA ResolvedType ==
  ASSUME NEW s \in Snapshot, NEW c \in Command(Mission)
  PROVE  Resolved(s, c) \in Snapshot
<1>1. {"APPROVED", "REJECTED"} \subseteq Status
  BY DEF Status
<1> QED
  BY <1>1, HandlerExecuteType DEF Resolved, Command, Snapshot

\* The statuses the handler proposes; the approval gate with its proposal.
LEMMA HandlerExecuteStatus ==
  ASSUME NEW s \in Snapshot
  PROVE  /\ HandlerExecute(s).status \notin {"APPROVED", "REJECTED"}
         /\ HandlerExecute(s).status = "AWAITING_APPROVAL" =>
              HandlerExecute(s).proposal = s.version
BY DEF HandlerExecute, Staged, Resumed, Snapshot

LEMMA SuccessorFields ==
  ASSUME NEW s \in Snapshot, NEW c \in Command(Mission)
  PROVE  /\ Successor(s, c).status = Resolved(s, c).status
         /\ Successor(s, c).version = s.version + 1
         /\ Successor(s, c).proposal = Resolved(s, c).proposal
BY ResolvedType, NextSnapshotFields DEF Successor

LEMMA FromUnknown == "UNKNOWN" \in Status /\ ValidTransitions["UNKNOWN"] = RecoveryTargets
<1>1. "UNKNOWN" \in Status /\ "UNKNOWN" \notin Terminal
  BY DEF Status, Terminal
<1> QED
  BY <1>1 DEF ValidTransitions

\* A write follows the snapshot that was read, by a legal transition.
LEMMA WriteFollows ==
  ASSUME TypeInv, NEW w \in Worker, Decides(w), pc[w] \in {"save", "append"}
  PROVE  \/ call[w].op = "start" /\ Write(w) = Draft
         \/ /\ call[w].op \in {"apply", "recover", "reconcile"}
            /\ Write(w).version = base[w][Target(w)].version + 1
            /\ base[w][Target(w)].status \in Status
            /\ Write(w).status \in ValidTransitions[base[w][Target(w)].status]
<1> DEFINE s == base[w][Target(w)]
           c == call[w].command
<1>1. s \in Snapshot /\ call[w].op \in Writing
  BY DEF TypeInv, WorkersOK, CallAt, Target, Writing
<1>2. CASE call[w].op = "start"
  BY <1>2 DEF Write
<1>3. CASE call[w].op = "recover"
  <2>1. s.status \in DefaultRecoverable /\ Write(w) = NextSnapshot(s, "UNKNOWN", s)
    BY <1>3 DEF Decides, Write
  <2> HIDE DEF s
  <2>2. s.status \in Status /\ "UNKNOWN" \in ValidTransitions[s.status]
    BY <2>1 DEF DefaultRecoverable
  <2> QED
    BY <1>1, <1>3, <2>1, <2>2, NextSnapshotFields DEF s
<1>4. CASE call[w].op = "reconcile"
  <2>1. s.status = "UNKNOWN" /\ Write(w) = NextSnapshot(s, "RUNNING", s)
    BY <1>4 DEF Decides, Write
  <2> HIDE DEF s
  <2>2. "UNKNOWN" \in Status /\ "RUNNING" \in ValidTransitions["UNKNOWN"]
    BY FromUnknown DEF RecoveryTargets
  <2> QED
    BY <1>1, <1>4, <2>1, <2>2, NextSnapshotFields DEF s
<1>5. CASE call[w].op = "apply"
  <2>1. Admissible(s, c) /\ Write(w) = Successor(s, c) /\ c \in Command(Mission)
    BY <1>5, CommandTypes DEF Decides, Write, TypeInv, WorkersOK, CallAt
  <2> HIDE DEF s, c
  <2>2. /\ Write(w).status = Resolved(s, c).status /\ Write(w).version = s.version + 1
    BY <1>1, <2>1, SuccessorFields
  <2>3. s.status \in Status
    BY <2>1 DEF Admissible
  <2>4. Resolved(s, c).status \in ValidTransitions[s.status]
    <3>1. CASE c.type = "reconcile"
      <4>1. s.status = "UNKNOWN" /\ c.resolution \in RecoveryTargets
        BY <2>1, <3>1 DEF Admissible
      <4>2. Resolved(s, c).status = c.resolution
        BY <1>1, <3>1 DEF Resolved, Snapshot
      <4> QED
        BY <4>1, <4>2, FromUnknown
    <3> QED
      BY <2>1, <3>1 DEF Admissible
  <2> QED
    BY <1>5, <2>2, <2>3, <2>4 DEF s
<1> QED
  BY <1>1, <1>2, <1>3, <1>4, <1>5 DEF Writing

\* Who writes a snapshot at the gate writes the proposal of the version before.
Current(s) == s.status = "AWAITING_APPROVAL" => s.proposal = s.version - 1

LEMMA WriteIsCurrent ==
  ASSUME TypeInv, NEW w \in Worker, Decides(w), pc[w] = "save"
  PROVE  Current(Write(w))
<1> DEFINE s == base[w][Target(w)]
           c == call[w].command
<1>1. s \in Snapshot /\ call[w].op \in Writing /\ call[w].op # "recover"
  BY DEF TypeInv, WorkersOK, CallAt, Target, Writing, Decides
<1>2. CASE call[w].op = "start"
  BY <1>2 DEF Write, Draft, Current
<1>3. CASE call[w].op = "reconcile"
  <2>1. Write(w) = NextSnapshot(s, "RUNNING", s)
    BY <1>3 DEF Write
  <2> HIDE DEF s
  <2> QED
    BY <1>1, <2>1, NextSnapshotFields DEF Current
<1>4. CASE call[w].op = "apply"
  <2>1. Admissible(s, c) /\ Write(w) = Successor(s, c) /\ c \in Command(Mission)
    BY <1>4, CommandTypes DEF Decides, Write, TypeInv, WorkersOK, CallAt
  <2> HIDE DEF s, c
  <2>2. /\ Write(w).status = Resolved(s, c).status /\ Write(w).version = s.version + 1
        /\ Write(w).proposal = Resolved(s, c).proposal
    BY <1>1, <2>1, SuccessorFields
  <2>3. Resolved(s, c).status = "AWAITING_APPROVAL" => Resolved(s, c).proposal = s.version
    <3>1. CASE c.type = "execute"
      BY <1>1, <3>1, HandlerExecuteStatus DEF Resolved
    <3>2. CASE c.type = "reconcile"
      <4>1. Resolved(s, c).status = c.resolution
        BY <1>1, <3>2 DEF Resolved, Snapshot
      <4> QED
        BY <2>1, <3>2, <4>1 DEF Admissible, RecoveryTargets
    <3>3. CASE c.type \in {"approve", "reject"}
      BY <1>1, <3>3 DEF Resolved, Snapshot
    <3> QED
      BY <2>1, <3>1, <3>2, <3>3 DEF Command
  <2> QED
    BY <1>1, <2>2, <2>3 DEF Current, Snapshot
<1> QED
  BY <1>1, <1>2, <1>3, <1>4 DEF Writing

\* A step changes the stored missions by a save or not at all.
LEMMA MissionWrites ==
  ASSUME [Next]_vars
  PROVE  \/ UNCHANGED mission
         \/ \E w \in Worker : Save(w)
         \/ \E w \in Worker, m \in Mission : RecoverOne(w, m)
BY DEF Next, Begin, Step, Crash, StoreFails, Expire, Rest, Start, BeginApply,
   BeginRecover, BeginReconcile, ReadFence, Lookup, Reflect, Load, Claim, CheckFence,
   AppendEvent, Complete, Fail, ResolverAnswers, WriteFence, stores, vars

GateInv == DecideInv /\ \A m \in Mission : Current(mission[m])

LEMMA StepKeepsGateInv == GateInv /\ [Next]_vars => GateInv'
<1> SUFFICES ASSUME GateInv, [Next]_vars PROVE GateInv'
  OBVIOUS
<1>1. DecideInv /\ DecideInv' /\ TypeInv /\ mission \in [Mission -> Snapshot]
  BY StepKeepsDecideInv DEF GateInv, DecideInv, TypeInv, StoresOK
<1> SUFFICES ASSUME NEW m \in Mission PROVE Current(mission'[m])
  BY <1>1 DEF GateInv, Current
<1>2. CASE UNCHANGED mission
  BY <1>2 DEF GateInv
<1>3. ASSUME NEW w \in Worker, Save(w)
      PROVE  Current(mission'[m])
  <2>1. PICK x : x = Write(w)
    OBVIOUS
  <2>2. Current(x)
    BY <1>1, <1>3, <2>1, WriteIsCurrent DEF Save, DecideInv
  <2>3. mission' = [mission EXCEPT ![Target(w)] = x]
    BY <1>3, <2>1 DEF Save
  <2> QED
    BY <1>1, <2>2, <2>3 DEF GateInv
<1>4. ASSUME NEW w \in Worker, NEW n \in Mission, RecoverOne(w, n)
      PROVE  Current(mission'[m])
  <2>1. PICK x : x = NextSnapshot(base[w][n], "UNKNOWN", base[w][n])
    OBVIOUS
  <2>2. x.status = "UNKNOWN"
    BY <1>1, <2>1, NextSnapshotFields DEF TypeInv, WorkersOK
  <2>3. mission' = [mission EXCEPT ![n] = x]
    BY <1>4, <2>1 DEF RecoverOne
  <2> QED
    BY <1>1, <2>2, <2>3 DEF GateInv, Current
<1> QED
  BY <1>2, <1>3, <1>4, MissionWrites

\* A proposal that awaits approval is the one the version just before staged,
\* for any number of concurrent workers and lost updates between them: whoever
\* writes a snapshot at the gate writes its own proposal with it.
THEOREM ProposalsAreCurrent == Spec => []ProposalIsCurrent
<1>1. Init => GateInv
  <2>1. Init => DecideInv
    BY InitHasTypes DEF Init, Quiet, NoCall, Decides, DecideInv
  <2>2. Init => \A m \in Mission : Current(mission[m])
    BY DEF Init, Absent, Current
  <2> QED
    BY <2>1, <2>2 DEF GateInv
<1>2. GateInv => ProposalIsCurrent
  BY DEF GateInv, Current, ProposalIsCurrent
<1> QED
  BY <1>1, <1>2, StepKeepsGateInv, PTL DEF Spec

-----------------------------------------------------------------------------
(* Replays from the in-memory store *)

\* What Complete records answers the command it is recorded for.
LEMMA BuiltEventAnswers ==
  ASSUME TypeInv, NEW w \in Worker, pc[w] = "complete"
  PROVE  /\ call[w].command \in Commands /\ call[w].command.mission = Target(w)
         /\ Answers(BuiltEvent(w), call[w].command)
<1> DEFINE s == base[w][Target(w)]
           c == call[w].command
<1>1. /\ call[w].op = "apply" /\ c \in Commands /\ c.mission = Target(w)
      /\ s \in Snapshot /\ c \in Command(Mission)
  BY CommandTypes DEF TypeInv, WorkersOK, CallAt, Target
<1>2. BuiltEvent(w).type = EventType(c) /\ BuiltEvent(w).snapshot = Successor(s, c)
  BY <1>1 DEF BuiltEvent, Write
<1> HIDE DEF s, c
<1>3. Successor(s, c).status = Resolved(s, c).status
  BY <1>1, SuccessorFields
<1>4. /\ c.type = "approve" => Resolved(s, c).status = "APPROVED"
      /\ c.type = "reject" => Resolved(s, c).status = "REJECTED"
      /\ c.type = "reconcile" => Resolved(s, c).status = c.resolution
  BY <1>1 DEF Resolved, Snapshot
<1>5. c.type = "execute" => Resolved(s, c).status \notin {"APPROVED", "REJECTED"}
  BY <1>1, HandlerExecuteStatus DEF Resolved
<1>6. Answers(BuiltEvent(w), c)
  BY <1>1, <1>2, <1>3, <1>4, <1>5 DEF Answers, Command
<1> QED
  BY <1>1, <1>6 DEF c

\* A completed record holds an outcome of the command of its payload.
Replayable(k) ==
  idem[k].status = "COMPLETED" =>
    /\ idem[k].payload \in Commands
    /\ Answers(idem[k].result, idem[k].payload)
    /\ Holds(log[idem[k].payload.mission], idem[k].result)

ReplayInv == LogInv /\ (backend = "memory" => \A k \in Key : Replayable(k))

LEMMA StepKeepsReplayInv == ReplayInv /\ [Next]_vars => ReplayInv'
<1> SUFFICES ASSUME ReplayInv, [Next]_vars PROVE ReplayInv'
  OBVIOUS
<1>1. LogInv /\ LogInv' /\ TypeInv /\ idem \in [Key -> Record]
  BY StepKeepsLogInv DEF ReplayInv, LogInv, TypeInv, StoresOK
<1>2. backend' = backend
  BY DEF Next, Begin, Step, Crash, StoreFails, Expire, Rest, Start, BeginApply,
     BeginRecover, BeginReconcile, ReadFence, Lookup, Reflect, Load, Claim, CheckFence,
     Save, AppendEvent, Complete, Fail, RecoverOne, ResolverAnswers, WriteFence, stores, vars
<1> SUFFICES ASSUME backend = "memory", NEW k \in Key, Replayable(k)
             PROVE  Replayable(k)'
  BY <1>1, <1>2 DEF ReplayInv
<1>3. CASE idem'[k] = idem[k]
  <2>1. idem[k].status = "COMPLETED" =>
          Holds(log'[idem[k].payload.mission], idem[k].result)
    BY <1>1, CommandTypes, LogGrows DEF Replayable
  <2> QED
    BY <1>3, <2>1 DEF Replayable
<1>4. ASSUME NEW w \in Worker, Complete(w), call[w].key = k
      PROVE  Replayable(k)'
  <2>1. PICK e, c : e = BuiltEvent(w) /\ c = call[w].command
    OBVIOUS
  <2>2. /\ pc[w] = "complete" /\ log' = log
        /\ idem' = [idem EXCEPT ![k] = [status |-> "COMPLETED", result |-> e, payload |-> c]]
    BY <1>4, <2>1 DEF Complete, Put
  <2>3. idem'[k] = [status |-> "COMPLETED", result |-> e, payload |-> c]
    BY <1>1, <2>2
  <2>4. c \in Commands /\ c.mission = Target(w) /\ Answers(e, c)
    BY <1>1, <2>1, <2>2, BuiltEventAnswers
  <2>5. Holds(log[Target(w)], e)
    BY <1>1, <2>1, <2>2 DEF LogInv, CompletingLogged
  <2>6. /\ idem'[k].status = "COMPLETED" /\ idem'[k].result = e /\ idem'[k].payload = c
        /\ Holds(log'[Target(w)], e)
    BY <2>2, <2>3, <2>5
  <2>7. Answers(idem'[k].result, idem'[k].payload)
    BY <2>4, <2>6
  <2> QED
    BY <2>4, <2>6, <2>7 DEF Replayable
<1>5. ASSUME NEW w \in Worker, Claim(w) \/ Fail(w), call[w].key = k
      PROVE  idem'[k].status # "COMPLETED"
  BY <1>1, <1>5 DEF Claim, Fail, Put
<1>6. ASSUME NEW w \in Worker, Claim(w) \/ Fail(w) \/ Complete(w), call[w].key # k
      PROVE  idem'[k] = idem[k]
  BY <1>1, <1>6 DEF Claim, Fail, Complete, Put
<1>7. ASSUME NEW j \in Key, Expire(j)
      PROVE  idem'[k] = idem[k] \/ idem'[k].status # "COMPLETED"
  BY <1>1, <1>7 DEF Expire, Free
<1>8. \/ UNCHANGED idem
      \/ \E w \in Worker : Claim(w) \/ Fail(w) \/ Complete(w)
      \/ \E j \in Key : Expire(j)
  BY DEF Next, Begin, Step, Crash, StoreFails, Rest, Start, BeginApply,
     BeginRecover, BeginReconcile, ReadFence, Lookup, Reflect, Load, CheckFence,
     Save, AppendEvent, RecoverOne, ResolverAnswers, WriteFence, stores, vars
<1>9. idem'[k].status # "COMPLETED" => Replayable(k)'
  BY DEF Replayable
<1> QED
  BY <1>3, <1>4, <1>5, <1>6, <1>7, <1>8, <1>9

\* What the in-memory store replays answers the command its record was claimed
\* for, on its mission, even when calls with different payloads race for a key
\* or use it again after it expired (missions/store.ts, payloadHash).
THEOREM InMemoryReplaysAnswer == Spec => []InMemoryReplayAnswersPayload
<1>1. Init => ReplayInv
  <2>1. Init => LogInv
    BY InitHasTypes DEF Init, Quiet, Free, CompletedIsLogged, CompletingLogged, LogInv
  <2>2. Init => \A k \in Key : Replayable(k)
    BY DEF Init, Free, Replayable
  <2> QED
    BY <2>1, <2>2 DEF ReplayInv
<1>2. ReplayInv => InMemoryReplayAnswersPayload
  BY DEF ReplayInv, Replayable, InMemoryReplayAnswersPayload, ReplayAnswersPayload, Logged, Holds
<1> QED
  BY <1>1, <1>2, StepKeepsReplayInv, PTL DEF Spec

-----------------------------------------------------------------------------
(* MissionLifecycle itself, over a variable of its own: types, that the    *)
(* approval gate only ever sees a whole plan, and that completion is a     *)
(* decision.                                                               *)

\* Statuses in which an approval is asked or decided.
Gated == {"AWAITING_APPROVAL", "APPROVED", "REJECTED"}

PlanSeen(w) == w.status \in Gated => w.done = PlanSteps /\ w.staged

\* ApprovalSeesWholePlan is inductive together with the types.
AtomicInv == LifecycleTypeOK /\ \A m \in Missions : PlanSeen(work[m])

LEMMA AtomicStatusTypes ==
  /\ {"DRAFT", "QUEUED", "RUNNING", "WAITING_FOR_EVIDENCE", "AWAITING_APPROVAL",
      "APPROVED", "REJECTED", "COMPLETED", "FAILED", "UNKNOWN"} \subseteq Status
  /\ RecoveryTargets \subseteq Status
BY DEF Status, RecoveryTargets

LEMMA AtomicStarts ==
  /\ WorkOf(Absent) \in Work /\ PlanSeen(WorkOf(Absent))
  /\ WorkOf(Draft) \in Work /\ PlanSeen(WorkOf(Draft))
BY AtomicStatusTypes, PlanStepsAssumption
DEF WorkOf, Absent, Draft, Work, PlanSeen, Gated

LEMMA AtomicAdvances ==
  ASSUME NEW s, s.done \in 0..PlanSteps
  PROVE  /\ Advanced(s) \in 0..PlanSteps
         /\ PlanEnds(s) => Advanced(s) = PlanSteps
BY PlanStepsAssumption DEF Advanced, PlanEnds

\* What execute makes of a mission's work.
LEMMA AtomicExecuteKeeps ==
  ASSUME NEW w \in Work, PlanSeen(w)
  PROVE  LET h == HandlerExecute(AsSnapshot(w))
             v == [status |-> h.status, done |-> h.done, staged |-> h.proposal # 0]
         IN  /\ v \in Work
             /\ PlanSeen(v)
             /\ v.status = "COMPLETED" => w.status = "APPROVED"
<1> DEFINE s == AsSnapshot(w)
           h == HandlerExecute(s)
<1>1. /\ s.status = w.status /\ s.done = w.done /\ s.done \in 0..PlanSteps
      /\ s.version = 1
      /\ DOMAIN s = {"status", "version", "done", "proposal"}
  BY DEF AsSnapshot, Work
<1>2. Advanced(s) \in 0..PlanSteps /\ (PlanEnds(s) => Advanced(s) = PlanSteps)
  BY <1>1, AtomicAdvances
<1> HIDE DEF s
<1>3. \/ h = [s EXCEPT !.status = "QUEUED", !.done = 0]
      \/ h = Staged(s) /\ PlanEnds(s)
      \/ h = [s EXCEPT !.status = "WAITING_FOR_EVIDENCE", !.done = Advanced(s)]
      \/ h = Resumed(s)
      \/ h = [s EXCEPT !.status = "QUEUED"]
      \/ h = [s EXCEPT !.status = "COMPLETED", !.done = PlanSteps] /\ s.status = "APPROVED"
      \/ h = [s EXCEPT !.status = "RUNNING"]
  BY DEF HandlerExecute
<1> HIDE DEF h
<1>4. /\ h.status \in {"QUEUED", "AWAITING_APPROVAL", "WAITING_FOR_EVIDENCE", "RUNNING",
                       "COMPLETED"}
      /\ h.status = "AWAITING_APPROVAL" => h.done = PlanSteps /\ h.proposal # 0
      /\ h.status = "COMPLETED" => s.status = "APPROVED"
      /\ h.done \in 0..PlanSteps
  <2>1. CASE h = Staged(s) /\ PlanEnds(s)
    BY <1>1, <1>2, <2>1 DEF Staged
  <2>2. CASE h = [s EXCEPT !.status = "QUEUED", !.done = 0]
    BY <1>1, <2>2, PlanStepsAssumption
  <2>3. CASE h = [s EXCEPT !.status = "WAITING_FOR_EVIDENCE", !.done = Advanced(s)]
    BY <1>1, <1>2, <2>3
  <2>4. CASE \/ h = Resumed(s)
             \/ h = [s EXCEPT !.status = "QUEUED"]
             \/ h = [s EXCEPT !.status = "RUNNING"]
    BY <1>1, <2>4 DEF Resumed
  <2>5. CASE h = [s EXCEPT !.status = "COMPLETED", !.done = PlanSteps] /\ s.status = "APPROVED"
    BY <1>1, <2>5, PlanStepsAssumption
  <2>6. QED
    BY <1>3, <2>1, <2>2, <2>3, <2>4, <2>5
<1> DEFINE v == [status |-> h.status, done |-> h.done, staged |-> h.proposal # 0]
<1>5. v.status = h.status /\ v.done = h.done /\ v.staged = (h.proposal # 0)
  OBVIOUS
<1>6. v \in Work
  BY <1>4, AtomicStatusTypes DEF Work
<1> HIDE DEF v
<1>7. PlanSeen(v) /\ (v.status = "COMPLETED" => w.status = "APPROVED")
  BY <1>1, <1>4, <1>5 DEF PlanSeen, Gated
<1>8. QED
  BY <1>6, <1>7 DEF v, h, s

\* The approval gate is the only way to a decision.
LEMMA DecisionSource ==
  ASSUME NEW t \in Status, NEW d \in {"APPROVED", "REJECTED"},
         d \in ValidTransitions[t]
  PROVE  t = "AWAITING_APPROVAL"
<1>1. ValidTransitions[t] =
        CASE t = "DRAFT"              -> {"QUEUED"}
          [] t = "QUEUED"             -> {"RUNNING", "FAILED"}
          [] t = "RUNNING"            -> {"BLOCKED", "AWAITING_APPROVAL", "COMPLETED",
                                          "FAILED", "UNKNOWN", "WAITING_FOR_EVIDENCE",
                                          "BLOCKED_BY_GATE", "RETRYING"}
          [] t \in {"BLOCKED", "WAITING_FOR_EVIDENCE", "RECOVERING", "RETRYING"}
                                      -> {"RUNNING", "FAILED"}
          [] t = "BLOCKED_BY_GATE"    -> {"RUNNING", "AWAITING_APPROVAL", "FAILED"}
          [] t = "AWAITING_APPROVAL"  -> {"APPROVED", "REJECTED", "RUNNING"}
          [] t = "APPROVED"           -> {"COMPLETED", "FAILED"}
          [] t = "REJECTED"           -> {"REVISION_REQUESTED"}
          [] t = "REVISION_REQUESTED" -> {"QUEUED"}
          [] t = "UNKNOWN"            -> RecoveryTargets
          [] t \in Terminal           -> {}
  BY DEF ValidTransitions
<1>2. QED
  BY <1>1 DEF Status, RecoveryTargets, Terminal

\* A command leaves the work typed and never brings part of a plan to the gate.
LEMMA AtomicApplyKeeps ==
  ASSUME NEW m \in Missions, NEW w \in Work, PlanSeen(w), w.status # "NONE",
         NEW type \in {"execute", "approve", "reject", "reconcile"}, NEW r \in Status,
         Admissible(AsSnapshot(w), Request(type, m, r))
  PROVE  LET v == WorkOf(Successor(AsSnapshot(w), Request(type, m, r)))
         IN  /\ v \in Work
             /\ PlanSeen(v)
             /\ v.status = "COMPLETED" => w.status \in {"APPROVED", "UNKNOWN"}
<1> DEFINE s == AsSnapshot(w)
           c == Request(type, m, r)
           b == Resolved(s, c)
           v == WorkOf(Successor(s, c))
<1>1. /\ s.status = w.status /\ s.done = w.done /\ s.version = 1
      /\ (s.proposal # 0) = w.staged
      /\ w.done \in 0..PlanSteps /\ w.staged \in BOOLEAN
      /\ s = [status |-> s.status, version |-> s.version, done |-> s.done,
              proposal |-> s.proposal]
  BY DEF AsSnapshot, Work
<1>2. c.type = type /\ c.resolution = r
  BY DEF Request
<1>3. v = [status |-> b.status, done |-> b.done, staged |-> b.proposal # 0]
  <2>1. CASE type = "execute"
    <3>1. b = HandlerExecute(s)
      BY <1>2, <2>1 DEF Resolved
    <3>2. b = [status |-> b.status, version |-> b.version, done |-> b.done,
               proposal |-> b.proposal]
      BY <1>1, <3>1 DEF HandlerExecute, Staged, Resumed
    <3> HIDE DEF b, s, c
    <3>3. QED
      BY <3>2 DEF Successor, NextSnapshot, WorkOf, b
  <2>2. CASE type # "execute"
    BY <1>1, <1>2, <2>2 DEF Successor, NextSnapshot, Resolved, WorkOf
  <2>3. QED
    BY <2>1, <2>2
<1>4. CASE type = "execute"
  <2>1. b = HandlerExecute(s)
    BY <1>2, <1>4 DEF Resolved
  <2>2. QED
    BY <1>3, <2>1, AtomicExecuteKeeps
<1>5. CASE type = "approve"
  <2>1. b = [s EXCEPT !.status = "APPROVED"] /\ "APPROVED" \in ValidTransitions[s.status]
    BY <1>1, <1>2, <1>5 DEF Resolved, Admissible
  <2>2. s.status = "AWAITING_APPROVAL"
    BY <2>1, DecisionSource DEF Admissible
  <2>3. QED
    BY <1>1, <1>3, <2>1, <2>2, AtomicStatusTypes DEF Work, PlanSeen, Gated
<1>6. CASE type = "reject"
  <2>1. b = [s EXCEPT !.status = "REJECTED"] /\ "REJECTED" \in ValidTransitions[s.status]
    BY <1>1, <1>2, <1>6 DEF Resolved, Admissible
  <2>2. s.status = "AWAITING_APPROVAL"
    BY <2>1, DecisionSource DEF Admissible
  <2>3. QED
    BY <1>1, <1>3, <2>1, <2>2, AtomicStatusTypes DEF Work, PlanSeen, Gated
<1>7. CASE type = "reconcile"
  <2>1. b = [s EXCEPT !.status = r] /\ s.status = "UNKNOWN" /\ r \in RecoveryTargets
    BY <1>2, <1>7 DEF Resolved, Admissible
  <2>2. QED
    BY <1>1, <1>3, <2>1, AtomicStatusTypes DEF Work, PlanSeen, Gated, RecoveryTargets
<1>8. QED
  BY <1>4, <1>5, <1>6, <1>7

\* The effect of any step: one mission, whose work stays sound, and is completed
\* out of APPROVED or UNKNOWN only.
LEMMA AtomicStepEffect ==
  ASSUME AtomicInv, LifecycleNext
  PROVE  \E m \in Missions, v \in Work :
           /\ work' = [work EXCEPT ![m] = v]
           /\ PlanSeen(v)
           /\ v.status = "COMPLETED" => work[m].status \in {"APPROVED", "UNKNOWN"}
<1> DEFINE Effect(m, v) ==
             /\ v \in Work
             /\ work' = [work EXCEPT ![m] = v]
             /\ PlanSeen(v)
             /\ v.status = "COMPLETED" => work[m].status \in {"APPROVED", "UNKNOWN"}
<1>1. ASSUME NEW m \in Missions, Create(m)
      PROVE  Effect(m, WorkOf(Draft))
  BY <1>1, AtomicStarts DEF Create, WorkOf, Draft
<1>2. ASSUME NEW m \in Missions, NEW type \in {"execute", "approve", "reject", "reconcile"},
             NEW r \in Status, Apply(Request(type, m, r))
      PROVE  Effect(m, WorkOf(Successor(AsSnapshot(work[m]), Request(type, m, r))))
  <2>1. Request(type, m, r).mission = m
    BY DEF Request
  <2>2. /\ Admissible(AsSnapshot(work[m]), Request(type, m, r))
        /\ work' = [work EXCEPT ![m] =
                      WorkOf(Successor(AsSnapshot(work[m]), Request(type, m, r)))]
    BY <1>2, <2>1 DEF Apply
  <2>3. work[m] \in Work /\ PlanSeen(work[m]) /\ work[m].status # "NONE"
    BY <2>2 DEF AtomicInv, LifecycleTypeOK, Admissible, AsSnapshot, Status
  <2>4. QED
    BY <2>2, <2>3, AtomicApplyKeeps
<1>3. ASSUME NEW m \in Missions, NEW s \in {"UNKNOWN", "RUNNING"},
             work' = [work EXCEPT ![m].status = s]
      PROVE  Effect(m, [work[m] EXCEPT !.status = s])
  BY <1>3, AtomicStatusTypes DEF AtomicInv, LifecycleTypeOK, Work, PlanSeen, Gated
<1>4. PICK m \in Missions :
        \/ Create(m) \/ MarkUnknown(m) \/ ResumeByEvidence(m)
        \/ \E type \in {"execute", "approve", "reject", "reconcile"}, r \in Status :
             Apply(Request(type, m, r))
  BY AtomicStatusTypes DEF LifecycleNext, Execute, Approve, Reject, Reconcile
<1> HIDE DEF Effect
<1>5. \E v : Effect(m, v)
  BY <1>1, <1>2, <1>3, <1>4 DEF MarkUnknown, ResumeByEvidence
<1>6. QED
  BY <1>5 DEF Effect

LEMMA AtomicInvInductive ==
  /\ LifecycleInit => AtomicInv
  /\ AtomicInv /\ [LifecycleNext]_work => AtomicInv'
<1>1. LifecycleInit => AtomicInv
  BY AtomicStarts DEF LifecycleInit, AtomicInv, LifecycleTypeOK
<1>2. ASSUME AtomicInv, LifecycleNext
      PROVE  AtomicInv'
  BY <1>2, AtomicStepEffect DEF AtomicInv, LifecycleTypeOK
<1>3. ASSUME AtomicInv, UNCHANGED work
      PROVE  AtomicInv'
  BY <1>3 DEF AtomicInv, LifecycleTypeOK, PlanSeen
<1>4. QED
  BY <1>1, <1>2, <1>3

LEMMA AtomicInvHolds == LifecycleSpec => []AtomicInv
BY AtomicInvInductive, PTL DEF LifecycleSpec

\* Statuses and counters stay in their domains (missions/status.ts).
THEOREM LifecycleTypeCorrect == LifecycleSpec => []LifecycleTypeOK
<1>1. AtomicInv => LifecycleTypeOK
  BY DEF AtomicInv
<1>2. QED
  BY <1>1, AtomicInvHolds, PTL

\* Whatever the plan length, no path leads to the approval gate without the whole
\* plan staged (agents/handlers.ts, stageProposal).
THEOREM GateSeesWholePlan == LifecycleSpec => []ApprovalSeesWholePlan
<1>1. AtomicInv => ApprovalSeesWholePlan
  BY DEF AtomicInv, ApprovalSeesWholePlan, PlanSeen, Gated
<1>2. QED
  BY <1>1, AtomicInvHolds, PTL

\* No step completes a mission that is neither APPROVED nor UNKNOWN: the agent
\* never completes on its own (agents/handlers.ts, missions/runtime.ts).
THEOREM OnlyDecisionsComplete == LifecycleSpec => CompletionIsDecided
<1> DEFINE A == \A m \in Missions :
                  work[m].status # "COMPLETED" /\ work'[m].status = "COMPLETED" =>
                    work[m].status \in {"APPROVED", "UNKNOWN"}
<1>1. AtomicInv /\ [LifecycleNext]_work => [A]_work
  <2>1. ASSUME AtomicInv, LifecycleNext
        PROVE  A
    BY <2>1, AtomicStepEffect DEF AtomicInv, LifecycleTypeOK
  <2>2. QED
    BY <2>1
<1>2. QED
  BY <1>1, AtomicInvHolds, PTL DEF LifecycleSpec, CompletionIsDecided

-----------------------------------------------------------------------------
(* With one owner at a time: MissionRuntime implements MissionLifecycle.   *)
(* What a suspended worker read is still what the store holds, because     *)
(* nobody else writes (Fresh); so the snapshot it saves is the successor   *)
(* of the stored one by a legal operation.                                 *)

\* contracts/recovery.md, "Fencing note": one owner at a time.
SingleOwner == \A v, w \in Worker : v = w

Started(m) == mission[m] = Absent \/ (mission[m].status \in Status /\ mission[m].version > 0)

\* What worker w read is what the stores hold.
Fresh(w) ==
  /\ pc[w] \in {"claim", "fence"} => base[w][Target(w)] = mission[Target(w)]
  /\ pc[w] = "resolver" =>
       base[w][Target(w)] = mission[Target(w)] /\ mission[Target(w)].status = "UNKNOWN"
  /\ pc[w] = "save" =>
       /\ call[w].op # "recover"
       /\ call[w].op = "start" => mission[Target(w)] = Absent
       /\ call[w].op # "start" => base[w][Target(w)] = mission[Target(w)]
       /\ call[w].op = "apply" => Admissible(mission[Target(w)], call[w].command)
       /\ call[w].op = "reconcile" => mission[Target(w)].status = "UNKNOWN"
  /\ pc[w] \in {"recover", "append"} /\ call[w].op = "recover" =>
       \A m \in todo[w] : base[w][m] = mission[m] /\ mission[m].status \in DefaultRecoverable

RefInv == TypeInv /\ (\A m \in Mission : Started(m)) /\ (\A w \in Worker : Fresh(w))

-----------------------------------------------------------------------------
(* Saved snapshots *)

LEMMA WrittenIsStarted ==
  ASSUME TypeInv, NEW w \in Worker, pc[w] = "save", Fresh(w)
  PROVE  Write(w).status \in Status /\ Write(w).version > 0
<1> DEFINE s == base[w][Target(w)]
<1>1. /\ call[w].op \in Writing /\ call[w].op # "recover"
      /\ s \in Snapshot
  BY DEF TypeInv, WorkersOK, CallAt, Target, Writing, Fresh
<1>2. s.version + 1 > 0
  BY <1>1 DEF Snapshot
<1>3. CASE call[w].op = "start"
  BY <1>3, ConstantTypes DEF Write, Draft, Status
<1>4. CASE call[w].op = "reconcile"
  <2>1. Write(w) = NextSnapshot(s, "RUNNING", s)
    BY <1>4 DEF Write
  <2> HIDE DEF s
  <2>2. QED
    BY <1>1, <1>2, <2>1, ConstantTypes DEF NextSnapshot, Snapshot
<1>5. CASE call[w].op = "apply"
  <2> DEFINE c == call[w].command
             b == Resolved(s, c)
  <2>1. Write(w) = NextSnapshot(s, b.status, b) /\ Admissible(s, c) /\ c \in Command(Mission)
    BY <1>5, CommandTypes DEF Write, Successor, Fresh, TypeInv, WorkersOK, CallAt
  <2> HIDE DEF s, c
  <2>2. b \in Snapshot
    <3>1. {"APPROVED", "REJECTED"} \subseteq Status
      BY DEF Status
    <3>2. QED
      BY <1>1, <2>1, <3>1, HandlerExecuteType DEF Resolved, Command, Snapshot
  <2>3. b.status \in Status
    <3>1. c.type = "execute" => b = HandlerExecute(s)
      BY DEF Resolved
    <3>2. s.status \in Status
      BY <2>1 DEF Admissible
    <3>3. HandlerExecute(s).status \in Status
      <4>1. {"QUEUED", "WAITING_FOR_EVIDENCE", "COMPLETED", "RUNNING", "AWAITING_APPROVAL"}
              \subseteq Status
        BY DEF Status
      <4>2. QED
        BY <1>1, <4>1 DEF HandlerExecute, Staged, Resumed, Snapshot
    <3>4. c.type # "execute" => b.status \in {"APPROVED", "REJECTED", c.resolution}
      BY <1>1, <2>1 DEF Resolved, Command, Snapshot
    <3>5. {"APPROVED", "REJECTED"} \subseteq Status /\ c.resolution \in Status
      BY <2>1 DEF Status, Command
    <3>6. QED
      BY <3>1, <3>3, <3>4, <3>5
  <2> HIDE DEF b
  <2>4. \A v \in Nat : [b EXCEPT !.status = b.status, !.version = v].status = b.status
    BY <2>2 DEF Snapshot
  <2>5. \A v \in Nat : [b EXCEPT !.status = b.status, !.version = v].version = v
    BY <2>2 DEF Snapshot
  <2>6. s.version + 1 \in Nat
    BY <1>1 DEF Snapshot
  <2>7. QED
    BY <1>2, <2>1, <2>3, <2>4, <2>5, <2>6 DEF NextSnapshot
<1>6. QED
  BY <1>1, <1>3, <1>4, <1>5 DEF Writing

-----------------------------------------------------------------------------
(* RefInv is inductive *)

LEMMA FreshWhenMoved ==
  ASSUME RefInv, NEW w \in Worker, Acts(w)
  PROVE  Fresh(w)'
<1>1. TypeInv /\ WorkersOK /\ Fresh(w)
  BY DEF RefInv, TypeInv
<1>2. ASSUME Return(w)
      PROVE  Fresh(w)'
  BY <1>1, <1>2 DEF Return, WorkersOK, Fresh
<1>3. ASSUME NEW p, NEW b, Enter(w, p, b), p # "idle"
      PROVE  /\ pc'[w] = p /\ base'[w] = b /\ call'[w] = call[w] /\ todo'[w] = todo[w]
             /\ Target(w)' = Target(w)
  BY <1>1, <1>3 DEF Enter, WorkersOK, Target
<1>4. ASSUME NEW p, Goto(w, p), p # "idle"
      PROVE  /\ pc'[w] = p /\ base'[w] = base[w] /\ call'[w] = call[w] /\ todo'[w] = todo[w]
             /\ Target(w)' = Target(w)
  BY <1>3, <1>4 DEF Goto
<1>5. ASSUME NEW p, Goto(w, p), p \in {"idle", "fail", "complete", "load", "reflect"}
      PROVE  Fresh(w)'
  <2>1. CASE p = "idle"
    BY <1>2, <1>5, <2>1 DEF Goto, Enter
  <2>2. CASE p # "idle"
    BY <1>4, <1>5, <2>2 DEF Fresh
  <2>3. QED
    BY <2>1, <2>2
\* After a read, a claim or a fence check of an unchanged store.
<1>6. ASSUME NEW p, NEW b, Enter(w, p, b), UNCHANGED mission,
             call[w].op = "apply", b[Target(w)] = mission[Target(w)],
             p \in {"idle", "fail", "claim", "fence", "save"},
             p = "save" => Admissible(mission[Target(w)], call[w].command)
      PROVE  Fresh(w)'
  <2>1. CASE p = "idle"
    BY <1>2, <1>6, <2>1 DEF Enter
  <2>2. CASE p # "idle"
    <3>1. /\ pc'[w] = p /\ base'[w] = b /\ call'[w] = call[w]
          /\ Target(w)' = Target(w)
      BY <1>3, <1>6, <2>2
    <3>2. QED
      BY <1>6, <2>2, <3>1 DEF Fresh
  <2>3. QED
    BY <2>1, <2>2
<1>7. CASE Begin(w)
  <2>1. CASE BeginRecover(w)
    <3> DEFINE found == {m \in Mission : mission[m].status \in DefaultRecoverable}
    <3>1. pc'[w] = "recover" /\ base'[w] = mission /\ todo'[w] = found /\ UNCHANGED mission
      BY <1>1, <2>1 DEF BeginRecover, WorkersOK, stores
    <3>2. \A m \in found : mission[m].status \in DefaultRecoverable
      OBVIOUS
    <3> HIDE DEF found
    <3>3. QED
      BY <3>1, <3>2 DEF Fresh
  <2>2. ASSUME NEW m \in Mission, Start(w, m)
        PROVE  Fresh(w)'
    <3>1. pc'[w] = "save" /\ call'[w].op = "start" /\ call'[w].mission = m /\ UNCHANGED mission
      BY <1>1, <2>2 DEF Start, WorkersOK, stores
    <3>2. mission[m] = Absent
      BY <2>2 DEF Start
    <3>3. QED
      BY <3>1, <3>2 DEF Fresh, Target
  <2>3. ASSUME NEW m \in Mission, BeginReconcile(w, m)
        PROVE  Fresh(w)'
    <3>1. /\ pc'[w] = "resolver" /\ call'[w].op = "reconcile" /\ call'[w].mission = m
          /\ UNCHANGED mission /\ base'[w][m] = mission[m]
      BY <1>1, <2>3 DEF BeginReconcile, WorkersOK, NoCall, stores
    <3>2. mission[m].status = "UNKNOWN"
      BY <2>3 DEF BeginReconcile
    <3>3. QED
      BY <3>1, <3>2 DEF Fresh, Target
  <2>4. ASSUME NEW m \in Mission, ReadFence(w, m)
        PROVE  Fresh(w)'
    BY <1>1, <2>4 DEF ReadFence, WorkersOK, Fresh
  <2>5. ASSUME NEW c \in Commands, NEW k \in Key \union {NoKey}, BeginApply(w, c, k)
        PROVE  Fresh(w)'
    BY <1>1, <2>5 DEF BeginApply, WorkersOK, Fresh
  <2>6. QED
    BY <1>7, <2>1, <2>2, <2>3, <2>4, <2>5 DEF Begin
<1>8. CASE Crash(w)
  BY <1>2, <1>8 DEF Crash
<1>9. Thrown(w) \in {"idle", "fail"}
  BY DEF Thrown
<1>10. CASE StoreFails(w)
  BY <1>5, <1>9, <1>10 DEF StoreFails
<1>11. CASE Step(w)
  <2>1. CASE Lookup(w)
    BY <1>5, <2>1 DEF Lookup
  <2>2. CASE Reflect(w) \/ Complete(w) \/ Fail(w) \/ WriteFence(w)
    BY <1>2, <2>2 DEF Reflect, Complete, Fail, WriteFence
  <2>3. ASSUME NEW s
        PROVE  /\ Proceed(w, s) \in {"idle", "fail", "save"}
               /\ Proceed(w, s) = "save" => Admissible(s, call[w].command)
               /\ Admit(w, s) \in {"idle", "fail", "fence", "save"}
               /\ Admit(w, s) = "save" => Admissible(s, call[w].command)
    BY <1>9 DEF Proceed, Admit
  <2>4. CASE Load(w)
    <3> DEFINE s == mission[Target(w)]
               b == [base[w] EXCEPT ![Target(w)] = s]
               p == IF s = Absent THEN "idle"
                    ELSE IF call[w].key # NoKey THEN "claim" ELSE Admit(w, s)
    <3>1. call[w].op = "apply" /\ Target(w) \in Mission
      BY <1>1, <2>4 DEF Load, WorkersOK, CallAt, Target
    <3>2. Enter(w, p, b) /\ UNCHANGED mission /\ b[Target(w)] = s
      BY <1>1, <2>4, <3>1 DEF Load, WorkersOK, stores
    <3>3. /\ p \in {"idle", "fail", "claim", "fence", "save"}
          /\ p = "save" => Admissible(s, call[w].command)
      BY <2>3
    <3> HIDE DEF p, b
    <3>4. QED
      BY <1>6, <3>1, <3>2, <3>3
  <2>5. CASE Claim(w)
    <3> DEFINE p == Admit(w, base[w][Target(w)])
    <3>1. call[w].op = "apply" /\ base[w][Target(w)] = mission[Target(w)]
      BY <1>1, <2>5 DEF Claim, WorkersOK, CallAt, Fresh
    <3>2. Enter(w, p, base[w]) /\ UNCHANGED mission
      BY <2>5 DEF Claim, Goto
    <3>3. /\ p \in {"idle", "fail", "claim", "fence", "save"}
          /\ p = "save" => Admissible(mission[Target(w)], call[w].command)
      BY <2>3, <3>1
    <3> HIDE DEF p
    <3>4. QED
      BY <1>6, <3>1, <3>2, <3>3
  <2>6. CASE CheckFence(w)
    <3>1. call[w].op = "apply" /\ base[w][Target(w)] = mission[Target(w)]
      BY <1>1, <2>6 DEF CheckFence, WorkersOK, CallAt, Fresh
    <3>2. PICK p \in {Thrown(w), Proceed(w, base[w][Target(w)])} : Goto(w, p)
      BY <2>6 DEF CheckFence
    <3>3. /\ p \in {"idle", "fail", "claim", "fence", "save"}
          /\ p = "save" => Admissible(mission[Target(w)], call[w].command)
      BY <1>9, <2>3, <3>1, <3>2
    <3>4. Enter(w, p, base[w]) /\ UNCHANGED mission
      BY <2>6, <3>2 DEF CheckFence, Goto, stores
    <3>5. QED
      BY <1>6, <3>1, <3>3, <3>4
  <2>7. CASE Save(w)
    <3>1. pc'[w] = "append" /\ call'[w] = call[w] /\ call[w].op # "recover"
      BY <1>1, <1>4, <2>7 DEF Save, Fresh
    <3>2. QED
      BY <3>1 DEF Fresh
  <2>8. CASE AppendEvent(w)
    <3>1. PICK p \in {Thrown(w), Appended(w)} : Goto(w, p)
      BY <2>8 DEF AppendEvent
    <3>2. Appended(w) \in {"complete", "idle"} \/ (Appended(w) = "recover" /\ call[w].op = "recover")
      BY DEF Appended
    <3>3. CASE p \in {"idle", "fail", "complete"}
      BY <1>5, <3>1, <3>3
    <3>4. CASE p = "recover" /\ call[w].op = "recover"
      <4>1. /\ pc'[w] = "recover" /\ base'[w] = base[w] /\ call'[w] = call[w]
            /\ todo'[w] = todo[w] /\ UNCHANGED mission
        BY <1>4, <2>8, <3>1, <3>4 DEF AppendEvent
      <4>2. \A m \in todo[w] : base[w][m] = mission[m] /\ mission[m].status \in DefaultRecoverable
        BY <1>1, <2>8, <3>4 DEF AppendEvent, Fresh
      <4>3. QED
        BY <4>1, <4>2 DEF Fresh
    <3>5. QED
      BY <1>9, <3>1, <3>2, <3>3, <3>4
  <2>9. ASSUME NEW m \in Mission, RecoverOne(w, m)
        PROVE  Fresh(w)'
    <3>1. /\ pc'[w] = "append" /\ base'[w] = base[w] /\ todo'[w] = todo[w] \ {m}
          /\ \A n \in Mission \ {m} : mission'[n] = mission[n]
      BY <1>1, <2>9 DEF RecoverOne, WorkersOK, TypeInv, StoresOK
    <3>2. \A n \in todo[w] : base[w][n] = mission[n] /\ mission[n].status \in DefaultRecoverable
      BY <1>1, <2>9 DEF RecoverOne, Fresh, WorkersOK, CallAt
    <3>3. todo[w] \subseteq Mission
      BY <1>1 DEF WorkersOK
    <3>4. QED
      BY <3>1, <3>2, <3>3 DEF Fresh
  <2>10. ASSUME NEW outcome, NEW verifiable, ResolverAnswers(w, outcome, verifiable)
        PROVE  Fresh(w)'
    <3>1. PICK p \in {"save", "idle"} : Goto(w, p)
      BY <2>10 DEF ResolverAnswers
    <3>2. CASE p = "save"
      <4>1. /\ pc'[w] = "save" /\ base'[w] = base[w] /\ call'[w] = call[w]
            /\ Target(w)' = Target(w) /\ UNCHANGED mission
        BY <1>4, <2>10, <3>1, <3>2 DEF ResolverAnswers, stores
      <4>2. /\ call[w].op = "reconcile" /\ base[w][Target(w)] = mission[Target(w)]
            /\ mission[Target(w)].status = "UNKNOWN"
        BY <1>1, <2>10 DEF ResolverAnswers, Fresh, WorkersOK, CallAt
      <4>3. QED
        BY <4>1, <4>2 DEF Fresh
    <3>3. QED
      BY <1>5, <3>1, <3>2
  <2>11. QED
    BY <1>11, <2>1, <2>2, <2>4, <2>5, <2>6, <2>7, <2>8, <2>9, <2>10 DEF Step
<1>12. QED
  BY <1>7, <1>8, <1>10, <1>11 DEF Acts

LEMMA RefInvInductive ==
  ASSUME SingleOwner
  PROVE  (Init => RefInv) /\ (RefInv /\ [Next]_vars => RefInv')
<1>1. Init => RefInv
  <2> SUFFICES ASSUME Init PROVE RefInv
    OBVIOUS
  <2>1. (\A m \in Mission : Started(m)) /\ (\A w \in Worker : Fresh(w))
    BY DEF Init, Quiet, Started, Fresh
  <2>2. QED
    BY <2>1, InitHasTypes DEF RefInv
<1>2. ASSUME RefInv, [Next]_vars
      PROVE  RefInv'
  <2>1. TypeInv /\ TypeInv'
    BY <1>2, StepKeepsTypes DEF RefInv
  <2>2. \A m \in Mission : Started(m)'
    <3>1. CASE UNCHANGED mission
      BY <1>2, <3>1 DEF RefInv, Started
    <3>2. ASSUME NEW w \in Worker, Save(w)
          PROVE  \A m \in Mission : Started(m)'
      <4> DEFINE s == Write(w)
      <4>1. s.status \in Status /\ s.version > 0
        BY <1>2, <3>2, WrittenIsStarted DEF RefInv, Save
      <4>2. mission' = [mission EXCEPT ![Target(w)] = s]
        BY <3>2 DEF Save
      <4> HIDE DEF s
      <4>3. QED
        BY <1>2, <2>1, <4>1, <4>2 DEF RefInv, Started, TypeInv, StoresOK
    <3>3. ASSUME NEW w \in Worker, NEW m \in Mission, RecoverOne(w, m)
          PROVE  \A n \in Mission : Started(n)'
      <4> DEFINE s == NextSnapshot(base[w][m], "UNKNOWN", base[w][m])
      <4>1. base[w][m] \in Snapshot
        BY <2>1 DEF TypeInv, WorkersOK
      <4>2. s.status \in Status /\ s.version > 0
        BY <4>1, ConstantTypes DEF NextSnapshot, Snapshot
      <4>3. mission' = [mission EXCEPT ![m] = s]
        BY <3>3 DEF RecoverOne
      <4> HIDE DEF s
      <4>4. QED
        BY <1>2, <2>1, <4>2, <4>3 DEF RefInv, Started, TypeInv, StoresOK
    <3>4. QED
      BY <1>2, <3>1, <3>2, <3>3, MissionWrites
  <2>3. ASSUME NEW w \in Worker
        PROVE  Fresh(w)'
    <3>1. CASE \E v \in Worker : Acts(v)
      BY <1>2, <3>1, FreshWhenMoved DEF SingleOwner
    <3>2. CASE UNCHANGED <<pc, call, base, todo, mission>>
      BY <1>2, <3>2 DEF RefInv, Fresh, Target
    <3>3. (\E v \in Worker : Acts(v)) \/ UNCHANGED <<pc, call, base, todo, mission>>
      BY <1>2 DEF Next, Acts, Expire, Rest, vars, workers
    <3>4. QED
      BY <3>1, <3>2, <3>3
  <2>4. QED
    BY <2>1, <2>2, <2>3 DEF RefInv
<1>3. QED
  BY <1>1, <1>2

-----------------------------------------------------------------------------
(* The simulation *)

\* The instance's protocol is this module's protocol.
LEMMA SameProtocol ==
  /\ Life!Absent = Absent /\ Life!Draft = Draft
  /\ Life!RecoveryTargets = RecoveryTargets
  /\ Life!DefaultRecoverable = DefaultRecoverable
  /\ \A s, c : Life!Admissible(s, c) = Admissible(s, c)
  /\ \A s, c : Life!Successor(s, c) = Successor(s, c)
<1>1. /\ Life!Absent = Absent /\ Life!Draft = Draft
      /\ Life!Terminal = Terminal /\ Life!Status = Status
      /\ Life!RecoveryTargets = RecoveryTargets
  BY DEF Life!Absent, Absent, Life!Draft, Draft, Life!Terminal, Terminal, Life!Status, Status,
     Life!RecoveryTargets, RecoveryTargets
<1>2. Life!ValidTransitions = ValidTransitions
  BY <1>1 DEF Life!ValidTransitions, ValidTransitions
<1>3. Life!DefaultRecoverable = DefaultRecoverable
  BY <1>1, <1>2 DEF Life!DefaultRecoverable, DefaultRecoverable
<1>4. \A s : Life!HandlerExecute(s) = HandlerExecute(s)
  <2>1. \A s : /\ Life!Advanced(s) = Advanced(s)
               /\ Life!PlanEnds(s) = PlanEnds(s)
               /\ Life!Staged(s) = Staged(s)
               /\ Life!Resumed(s) = Resumed(s)
    BY DEF Life!Advanced, Advanced, Life!PlanEnds, PlanEnds, Life!Staged, Staged,
       Life!Resumed, Resumed
  <2>2. Life!Resumable = Resumable
    BY DEF Life!Resumable, Resumable
  <2>3. QED
    BY <2>1, <2>2 DEF Life!HandlerExecute, HandlerExecute
<1>5. \A s, c : Life!Resolved(s, c) = Resolved(s, c)
  BY <1>4 DEF Life!Resolved, Resolved
<1>6. \A s, c : Life!Admissible(s, c) = Admissible(s, c)
  BY <1>1, <1>2, <1>5 DEF Life!Admissible, Admissible
<1>7. \A s, c : Life!Successor(s, c) = Successor(s, c)
  BY <1>5 DEF Life!Successor, Successor, Life!NextSnapshot, NextSnapshot
<1>8. QED
  BY <1>1, <1>3, <1>6, <1>7

\* The mapped state of MissionLifecycle.
Mapped == [m \in Mission |-> [status |-> mission[m].status, done |-> mission[m].done,
                              staged |-> mission[m].proposal # 0]]

\* Two snapshots the protocol tells nothing apart in.
Alike(s, t) ==
  s.status = t.status /\ s.done = t.done /\ (s.proposal # 0 <=> t.proposal # 0)

LEMMA ResolvedAlike ==
  ASSUME NEW s \in Snapshot, NEW t \in Snapshot, Alike(s, t), s.version # 0, t.version # 0,
         NEW c, NEW d, c.type = d.type, c.type \in {"execute", "approve", "reject", "reconcile"},
         c.type = "reconcile" => c.resolution = d.resolution
  PROVE  Alike(Resolved(s, c), Resolved(t, d))
<1>1. /\ DOMAIN s = {"status", "version", "done", "proposal"}
      /\ DOMAIN t = {"status", "version", "done", "proposal"}
  BY DEF Snapshot
<1>2. Advanced(s) = Advanced(t) /\ (PlanEnds(s) <=> PlanEnds(t))
  BY DEF Advanced, PlanEnds, Alike
<1> DEFINE Moved(u, x) == [u EXCEPT !.status = x]
           Counted(u, x, n) == [u EXCEPT !.status = x, !.done = n]
<1>3. ASSUME NEW x
      PROVE  Alike(Moved(s, x), Moved(t, x))
  BY <1>1 DEF Alike
<1>4. ASSUME NEW x, NEW n
      PROVE  Alike(Counted(s, x, n), Counted(t, x, n))
  BY <1>1 DEF Alike
<1>5. Alike(Staged(s), Staged(t))
  BY <1>1, <1>2 DEF Alike, Staged
\* What the handler makes of a snapshot is decided by its status.
<1>6. ASSUME NEW u
      PROVE  /\ u.status = "DRAFT" => HandlerExecute(u) = Counted(u, "QUEUED", 0)
             /\ u.status = "RUNNING" /\ PlanEnds(u) => HandlerExecute(u) = Staged(u)
             /\ u.status = "RUNNING" /\ ~PlanEnds(u) =>
                  HandlerExecute(u) = Counted(u, "WAITING_FOR_EVIDENCE", Advanced(u))
             /\ u.status = "REVISION_REQUESTED" => HandlerExecute(u) = Moved(u, "QUEUED")
             /\ u.status = "APPROVED" => HandlerExecute(u) = Counted(u, "COMPLETED", PlanSteps)
             /\ u.status \notin {"DRAFT", "RUNNING", "REVISION_REQUESTED", "APPROVED"} =>
                  HandlerExecute(u) = Moved(u, "RUNNING")
  BY DEF HandlerExecute, Resumable, Resumed
<1>7. Resolved(s, c) = IF c.type = "execute" THEN HandlerExecute(s)
                       ELSE IF c.type = "approve" THEN Moved(s, "APPROVED")
                       ELSE IF c.type = "reject" THEN Moved(s, "REJECTED")
                       ELSE Moved(s, c.resolution)
  BY DEF Resolved
<1>8. Resolved(t, d) = IF c.type = "execute" THEN HandlerExecute(t)
                       ELSE IF c.type = "approve" THEN Moved(t, "APPROVED")
                       ELSE IF c.type = "reject" THEN Moved(t, "REJECTED")
                       ELSE Moved(t, c.resolution)
  BY DEF Resolved
<1> HIDE DEF Moved, Counted
<1>9. Alike(HandlerExecute(s), HandlerExecute(t))
  <2>1. s.status = t.status
    BY DEF Alike
  <2>2. CASE s.status = "RUNNING"
    BY <1>2, <1>4, <1>5, <1>6, <2>1, <2>2
  <2>3. CASE s.status = "DRAFT"
    BY <1>4, <1>6, <2>1, <2>3
  <2>4. CASE s.status = "APPROVED"
    BY <1>4, <1>6, <2>1, <2>4
  <2>5. CASE s.status = "REVISION_REQUESTED"
    BY <1>3, <1>6, <2>1, <2>5
  <2>6. CASE s.status \notin {"DRAFT", "RUNNING", "REVISION_REQUESTED", "APPROVED"}
    BY <1>3, <1>6, <2>1, <2>6
  <2>7. QED
    BY <2>2, <2>3, <2>4, <2>5, <2>6
<1>10. QED
  BY <1>3, <1>7, <1>8, <1>9

\* What a successor keeps of what was resolved.
LEMMA SuccessorAlike ==
  ASSUME NEW s \in Snapshot, NEW c
  PROVE  c.type \in {"execute", "approve", "reject", "reconcile"} =>
           Alike(Successor(s, c), Resolved(s, c))
<1> SUFFICES ASSUME c.type \in {"execute", "approve", "reject", "reconcile"}
             PROVE  Alike(Successor(s, c), Resolved(s, c))
  OBVIOUS
<1> DEFINE b == Resolved(s, c)
<1>1. DOMAIN s = {"status", "version", "done", "proposal"}
  BY DEF Snapshot
<1>2. DOMAIN b = {"status", "version", "done", "proposal"}
  <2>1. DOMAIN HandlerExecute(s) = {"status", "version", "done", "proposal"}
    BY <1>1 DEF HandlerExecute, Staged, Resumed
  <2>2. QED
    BY <1>1, <2>1 DEF Resolved
<1>3. Successor(s, c) = [b EXCEPT !.status = b.status, !.version = s.version + 1]
  BY DEF Successor, NextSnapshot
<1> HIDE DEF b
<1>4. Alike(Successor(s, c), b)
  BY <1>2, <1>3 DEF Alike
<1>5. QED
  BY <1>4 DEF b

\* The work of a snapshot, as the refinement mapping takes it.
View(s) == [status |-> s.status, done |-> s.done, staged |-> s.proposal # 0]

LEMMA ViewsOfAlike ==
  ASSUME NEW s, NEW t, Alike(s, t)
  PROVE  View(s) = View(t)
<1>1. (s.proposal # 0) = (t.proposal # 0)
  BY DEF Alike
<1>2. QED
  BY <1>1 DEF View, Alike

\* A command does to the work of a snapshot what it does to the snapshot.
LEMMA CommandCommutes ==
  ASSUME NEW s \in Snapshot, s.version # 0, NEW c \in Command(Mission), Admissible(s, c),
         NEW r, c.type = "reconcile" => r = c.resolution
  PROVE  LET t == Life!AsSnapshot(View(s))
             d == Life!Request(c.type, c.mission, r)
         IN  Admissible(t, d) /\ View(Successor(t, d)) = View(Successor(s, c))
<1> DEFINE t == Life!AsSnapshot(View(s))
           d == Life!Request(c.type, c.mission, r)
<1>1. t \in Snapshot /\ t.version # 0 /\ Alike(s, t)
  <2> DEFINE n == IF s.proposal # 0 THEN 1 ELSE 0
  <2>1. t = [status |-> s.status, version |-> 1, done |-> s.done, proposal |-> n]
    <3>1. /\ View(s).status = s.status /\ View(s).done = s.done
          /\ View(s).staged = (s.proposal # 0)
      BY Zenon DEF View
    <3>2. (IF View(s).staged THEN 1 ELSE 0) = n
      BY <3>1, Zenon
    <3>3. QED
      BY <3>1, <3>2, Zenon DEF Life!AsSnapshot
  <2>2. n \in Nat /\ (s.proposal # 0 <=> n # 0)
    OBVIOUS
  <2> HIDE DEF n, t
  <2>3. QED
    BY <2>1, <2>2 DEF Snapshot, Alike
<1>2. /\ d.type = c.type
      /\ c.type \in {"execute", "approve", "reject", "reconcile"}
      /\ c.type = "reconcile" => c.resolution = d.resolution
  BY DEF Life!Request, Command
<1> HIDE DEF t, d
<1>3. Alike(Resolved(s, c), Resolved(t, d))
  BY <1>1, <1>2, ResolvedAlike
<1>4. Alike(Successor(s, c), Resolved(s, c)) /\ Alike(Successor(t, d), Resolved(t, d))
  BY <1>1, <1>2, SuccessorAlike
<1>5. Alike(Successor(t, d), Successor(s, c))
  BY <1>3, <1>4 DEF Alike
<1>6. Admissible(t, d)
  BY <1>1, <1>2, <1>3 DEF Alike, Admissible
<1>7. QED
  BY <1>5, <1>6, ViewsOfAlike DEF t, d

\* Snapshots that differ in their status and version only.
LEMMA StatusOnly ==
  ASSUME NEW s \in Snapshot, NEW status
  PROVE  View(NextSnapshot(s, status, s)) = [View(s) EXCEPT !.status = status]
<1> DEFINE n == NextSnapshot(s, status, s)
<1>1. n.status = status /\ n.done = s.done /\ n.proposal = s.proposal
  BY DEF NextSnapshot, Snapshot
<1>2. View(n) = [status |-> status, done |-> s.done, staged |-> s.proposal # 0]
  BY <1>1, Zenon DEF View
<1>3. ASSUME NEW a, NEW d, NEW p
      PROVE  [[status |-> a, done |-> d, staged |-> p] EXCEPT !.status = status]
               = [status |-> status, done |-> d, staged |-> p]
  OBVIOUS
<1>4. [View(s) EXCEPT !.status = status]
        = [status |-> status, done |-> s.done, staged |-> s.proposal # 0]
  <2>1. PICK v : v = View(s)
    OBVIOUS
  <2>2. PICK p : p = (s.proposal # 0)
    OBVIOUS
  <2>3. v = [status |-> s.status, done |-> s.done, staged |-> p]
    BY <2>1, <2>2, Zenon DEF View
  <2>4. [v EXCEPT !.status = status] = [status |-> status, done |-> s.done, staged |-> p]
    BY <2>3
  <2>5. QED
    BY <2>1, <2>2, <2>4, Zenon
<1>5. QED
  BY <1>2, <1>4, Zenon

LEMMA MappedWrite ==
  ASSUME TypeInv, NEW m \in Mission, NEW x, mission' = [mission EXCEPT ![m] = x]
  PROVE  Mapped[m] = View(mission[m]) /\ Mapped' = [Mapped EXCEPT ![m] = View(x)]
<1>1. Mapped = [n \in Mission |-> View(mission[n])]
  BY Zenon DEF Mapped, View
<1>2. Mapped' = [n \in Mission |-> View(mission'[n])]
  BY Zenon DEF Mapped, View
<1>3. /\ mission'[m] = x
      /\ \A n \in Mission \ {m} : mission'[n] = mission[n]
  BY DEF TypeInv, StoresOK
<1>4. QED
  BY <1>1, <1>2, <1>3

\* The actions of MissionLifecycle, in terms of the mapped state.
LEMMA MappedActions ==
  ASSUME NEW m \in Mission
  PROVE  /\ Mapped[m].status = "NONE" /\ Mapped' = [Mapped EXCEPT ![m] = View(Draft)]
              => Life!Create(m)
         /\ \A type, r :
              LET t == Life!AsSnapshot(Mapped[m])
                  d == Life!Request(type, m, r)
              IN  Admissible(t, d) /\ Mapped' = [Mapped EXCEPT ![m] = View(Successor(t, d))]
                    => Life!Apply(d)
         /\ Mapped[m].status \in DefaultRecoverable
            /\ Mapped' = [Mapped EXCEPT ![m] = [Mapped[m] EXCEPT !.status = "UNKNOWN"]]
              => Life!MarkUnknown(m)
         /\ Mapped[m].status = "UNKNOWN"
            /\ Mapped' = [Mapped EXCEPT ![m] = [Mapped[m] EXCEPT !.status = "RUNNING"]]
              => Life!ResumeByEvidence(m)
<1>1. \A s : Life!WorkOf(s) = View(s)
  BY DEF Life!WorkOf, View
<1>2. Mapped[m].status = "NONE" /\ Mapped' = [Mapped EXCEPT ![m] = View(Draft)]
        => Life!Create(m)
  BY <1>1, SameProtocol DEF Life!Create, Mapped
<1>3. ASSUME NEW d, d.mission = m, Admissible(Life!AsSnapshot(Mapped[m]), d),
             Mapped' = [Mapped EXCEPT ![m] = View(Successor(Life!AsSnapshot(Mapped[m]), d))]
      PROVE  Life!Apply(d)
  BY <1>1, <1>3, SameProtocol DEF Life!Apply, Mapped
<1>4. \A type, r : Life!Request(type, m, r).mission = m
  BY DEF Life!Request
<1>5. Mapped[m].status \in DefaultRecoverable
      /\ Mapped' = [Mapped EXCEPT ![m] = [Mapped[m] EXCEPT !.status = "UNKNOWN"]]
        => Life!MarkUnknown(m)
  BY SameProtocol DEF Life!MarkUnknown, Mapped
<1>6. Mapped[m].status = "UNKNOWN"
      /\ Mapped' = [Mapped EXCEPT ![m] = [Mapped[m] EXCEPT !.status = "RUNNING"]]
        => Life!ResumeByEvidence(m)
  BY DEF Life!ResumeByEvidence, Mapped
<1>7. QED
  BY <1>2, <1>3, <1>4, <1>5, <1>6

LEMMA StepSimulates ==
  ASSUME SingleOwner, RefInv, [Next]_vars
  PROVE  Life!LifecycleNext \/ UNCHANGED Mapped
<1>1. TypeInv
  BY DEF RefInv
<1>2. CASE UNCHANGED mission
  BY <1>2 DEF Mapped
<1>3. ASSUME NEW w \in Worker, NEW m \in Mission, RecoverOne(w, m)
      PROVE  Life!MarkUnknown(m)
  <2>1. base[w][m] = mission[m] /\ mission[m].status \in DefaultRecoverable
    BY <1>1, <1>3 DEF RecoverOne, RefInv, Fresh, TypeInv, WorkersOK, CallAt
  <2>2. mission' = [mission EXCEPT ![m] = NextSnapshot(mission[m], "UNKNOWN", mission[m])]
    BY <1>3, <2>1 DEF RecoverOne
  <2>3. mission[m] \in Snapshot
    BY <1>1 DEF TypeInv, StoresOK
  <2>4. /\ Mapped[m] = View(mission[m])
        /\ Mapped' = [Mapped EXCEPT ![m] = [View(mission[m]) EXCEPT !.status = "UNKNOWN"]]
    <3>1. View(NextSnapshot(mission[m], "UNKNOWN", mission[m]))
            = [View(mission[m]) EXCEPT !.status = "UNKNOWN"]
      BY <2>3, StatusOnly
    <3>2. /\ Mapped[m] = View(mission[m])
          /\ Mapped' = [Mapped EXCEPT ![m] =
                          View(NextSnapshot(mission[m], "UNKNOWN", mission[m]))]
      BY <1>1, <2>2, MappedWrite
    <3>3. QED
      BY <3>1, <3>2, Zenon
  <2>5. Mapped[m].status = mission[m].status
    BY <2>4 DEF View
  <2>6. QED
    BY <2>1, <2>4, <2>5, MappedActions
<1>4. ASSUME NEW w \in Worker, Save(w)
      PROVE  Life!LifecycleNext
  <2>1. call[w].op \in {"start", "apply", "reconcile"} /\ Target(w) \in Mission
    BY <1>1, <1>4 DEF RefInv, TypeInv, WorkersOK, CallAt, Target, Save, Writing, Fresh
  <2>2. PICK m \in Mission : m = Target(w)
    BY <2>1
  <2> DEFINE s == mission[m]
  <2>3. s \in Snapshot
    BY <1>1 DEF TypeInv, StoresOK
  <2>4. mission' = [mission EXCEPT ![m] = Write(w)]
    BY <1>4, <2>2 DEF Save
  <2>5. Mapped[m] = View(s) /\ Mapped' = [Mapped EXCEPT ![m] = View(Write(w))]
    BY <1>1, <2>4, MappedWrite
  <2>6. CASE call[w].op = "start"
    <3>1. s = Absent /\ Write(w) = Draft
      BY <1>4, <2>2, <2>6 DEF RefInv, Fresh, Save, Write
    <3>2. Mapped[m].status = "NONE"
      BY <2>5, <3>1 DEF View, Absent
    <3>3. Mapped' = [Mapped EXCEPT ![m] = View(Draft)]
      BY <2>5, <3>1
    <3>4. Life!Create(m)
      BY <3>2, <3>3, MappedActions
    <3>5. QED
      BY <3>4 DEF Life!LifecycleNext
  <2>7. CASE call[w].op = "reconcile"
    <3>1. s.status = "UNKNOWN" /\ Write(w) = NextSnapshot(s, "RUNNING", s)
      BY <1>4, <2>2, <2>7 DEF RefInv, Fresh, Save, Write
    <3>2. View(Write(w)) = [View(s) EXCEPT !.status = "RUNNING"]
      BY <2>3, <3>1, StatusOnly
    <3>3. Mapped' = [Mapped EXCEPT ![m] = [Mapped[m] EXCEPT !.status = "RUNNING"]]
      BY <2>5, <3>2, Zenon
    <3>4. Mapped[m].status = "UNKNOWN"
      BY <2>5, <3>1 DEF View
    <3>5. Life!ResumeByEvidence(m)
      BY <3>3, <3>4, MappedActions
    <3>6. QED
      BY <3>5 DEF Life!LifecycleNext
  <2>8. CASE call[w].op = "apply"
    <3>1. /\ Admissible(s, call[w].command) /\ Write(w) = Successor(s, call[w].command)
          /\ call[w].command \in Command(Mission) /\ call[w].command.mission = m
      BY <1>1, <1>4, <2>2, <2>8, CommandTypes
         DEF RefInv, Fresh, Save, Write, TypeInv, WorkersOK, CallAt, Target
    <3>2. PICK c \in Command(Mission) : c = call[w].command
      BY <3>1
    <3>3. PICK r : r = IF c.type = "reconcile" THEN c.resolution ELSE "RUNNING"
      OBVIOUS
    <3> DEFINE t == Life!AsSnapshot(View(s))
               d == Life!Request(c.type, m, r)
    <3>4. s.version # 0
      <4>1. s.status \in Status
        BY <3>1 DEF Admissible
      <4>2. Absent.status \notin Status
        BY DEF Absent, Status
      <4>3. QED
        BY <2>3, <4>1, <4>2 DEF RefInv, Started, Snapshot
    <3>5. Admissible(t, d) /\ View(Successor(t, d)) = View(Successor(s, c))
      <4>1. Admissible(s, c) /\ c.mission = m
        BY <3>1, <3>2
      <4> HIDE DEF s
      <4>2. QED
        BY <2>3, <3>3, <3>4, <4>1, CommandCommutes
    <3>6. Mapped[m] = View(s) /\ Mapped' = [Mapped EXCEPT ![m] = View(Successor(t, d))]
      BY <2>5, <3>1, <3>2, <3>5, Zenon
    <3>7. Life!Apply(d)
      <4> HIDE DEF s
      <4>1. QED
        BY <3>5, <3>6, MappedActions
    <3>8. c.type \in {"execute", "approve", "reject", "reconcile"}
      BY DEF Command
    <3>9. CASE c.type = "reconcile"
      <4>1. r \in Life!RecoveryTargets
        BY <3>1, <3>2, <3>3, <3>9, SameProtocol DEF Admissible
      <4>2. QED
        BY <3>7, <3>9, <4>1 DEF Life!LifecycleNext, Life!Reconcile
    <3>10. CASE c.type # "reconcile"
      BY <3>3, <3>7, <3>8, <3>10 DEF Life!LifecycleNext, Life!Execute, Life!Approve, Life!Reject
    <3>11. QED
      BY <3>9, <3>10
  <2>9. QED
    BY <2>1, <2>6, <2>7, <2>8
<1>5. QED
  BY <1>2, <1>3, <1>4, MissionWrites DEF Life!LifecycleNext

LEMMA RefInvHolds == ASSUME SingleOwner PROVE Spec => []RefInv
BY RefInvInductive, PTL DEF Spec

\* What the sequences of store calls of missions/runtime.ts make of a mission,
\* with one owner at a time (contracts/recovery.md, "Fencing note"), is a
\* behaviour of the atomic protocol: for all missions, keys, commands, plan
\* lengths, both backends, any number of crashes and failed calls.
THEOREM RuntimeImplementsLifecycle ==
  ASSUME SingleOwner
  PROVE  Spec => ImplementsLifecycle
<1>1. Init => Life!LifecycleInit
  <2>1. \A m \in Mission : Init => mission[m] = Absent
    BY DEF Init
  <2>2. QED
    BY <2>1, SameProtocol DEF Init, Life!LifecycleInit, Life!WorkOf
<1>2. RefInv /\ [Next]_vars => [Life!LifecycleNext]_Mapped
  BY StepSimulates
<1>3. QED
  BY <1>1, <1>2, RefInvHolds, PTL DEF Spec, ImplementsLifecycle, Life!LifecycleSpec, Mapped
-----------------------------------------------------------------------------
(* The history of a mission under one owner *)

\* What an acting worker does to the missions, the log and the writes half done.
LEMMA HalfDone ==
  ASSUME TypeInv, NEW w \in Worker, Acts(w)
  PROVE  \/ AppendEvent(w) /\ pc'[w] # "append"
         \/ /\ Crash(w) \/ StoreFails(w)
            /\ pc'[w] # "append" /\ UNCHANGED <<mission, log>> /\ faults' = faults + 1
         \/ /\ Save(w)
            /\ pc'[w] = "append" /\ call'[w] = call[w] /\ base'[w] = base[w]
         \/ \E m \in Mission : /\ RecoverOne(w, m)
                               /\ pc'[w] = "append" /\ base'[w] = base[w]
                               /\ call'[w].op = "recover" /\ call'[w].mission = m
         \/ pc[w] # "append" /\ pc'[w] # "append" /\ UNCHANGED <<mission, log, faults>>
<1> DEFINE Elsewhere == pc[w] # "append" /\ pc'[w] # "append" /\ UNCHANGED <<mission, log, faults>>
<1>1. WorkersOK
  BY DEF TypeInv
<1>2. ASSUME Return(w)
      PROVE  pc'[w] # "append"
  BY <1>1, <1>2 DEF Return, WorkersOK
<1>3. ASSUME NEW p, NEW b, Enter(w, p, b)
      PROVE  /\ pc'[w] = p
             /\ p # "idle" => call'[w] = call[w] /\ base'[w] = b
  BY <1>1, <1>3 DEF Enter, Return, WorkersOK
<1>4. ASSUME NEW p, Goto(w, p)
      PROVE  /\ pc'[w] = p
             /\ p # "idle" => call'[w] = call[w] /\ base'[w] = base[w]
  BY <1>3, <1>4 DEF Goto
<1>5. Thrown(w) \in {"idle", "fail"}
  BY DEF Thrown
<1>6. CASE Begin(w)
  <2>1. Elsewhere
    BY <1>1, <1>6 DEF Begin, Start, BeginApply, BeginRecover, BeginReconcile, ReadFence,
       WorkersOK, stores
  <2> QED
    BY <2>1
<1>7. CASE Crash(w)
  BY <1>2, <1>7 DEF Crash, stores
<1>8. CASE StoreFails(w)
  BY <1>4, <1>5, <1>8 DEF StoreFails, stores
<1>9. CASE Step(w)
  <2>1. CASE Lookup(w)
    <3>1. PICK p \in {"load", "reflect", "idle"} : Goto(w, p)
      BY <2>1 DEF Lookup
    <3>2. Elsewhere
      BY <1>4, <2>1, <3>1 DEF Lookup, stores
    <3> QED
      BY <3>2
  <2>2. CASE Reflect(w) \/ Complete(w) \/ Fail(w) \/ WriteFence(w)
    BY <1>2, <2>2 DEF Reflect, Complete, Fail, WriteFence, stores
  <2>3. CASE Load(w)
    <3> DEFINE s == mission[Target(w)]
               p == IF s = Absent THEN "idle"
                    ELSE IF call[w].key # NoKey THEN "claim" ELSE Admit(w, s)
    <3>1. p # "append"
      BY <1>1, <2>3, AdmitPlace DEF Load
    <3>2. Enter(w, p, [base[w] EXCEPT ![Target(w)] = s])
      BY <2>3 DEF Load
    <3> HIDE DEF p
    <3>3. pc'[w] = p
      BY <1>3, <3>2
    <3> QED
      BY <2>3, <3>1, <3>3 DEF Load, stores
  <2>4. CASE Claim(w)
    <3>1. Admit(w, base[w][Target(w)]) # "append"
      BY <1>1, <2>4, AdmitPlace DEF Claim
    <3>2. pc'[w] = Admit(w, base[w][Target(w)])
      BY <1>4, <2>4 DEF Claim
    <3> QED
      BY <2>4, <3>1, <3>2 DEF Claim
  <2>5. CASE CheckFence(w)
    <3>1. PICK p \in {Thrown(w), Proceed(w, base[w][Target(w)])} : Goto(w, p)
      BY <2>5 DEF CheckFence
    <3>2. p # "append"
      BY <1>1, <1>5, <2>5, <3>1, AdmitPlace DEF CheckFence
    <3>3. pc'[w] = p
      BY <1>4, <3>1
    <3> QED
      BY <2>5, <3>2, <3>3 DEF CheckFence, stores
  <2>6. CASE Save(w)
    BY <1>4, <2>6 DEF Save
  <2>7. CASE AppendEvent(w)
    <3>1. Appended(w) # "append"
      BY DEF Appended
    <3> QED
      BY <1>4, <1>5, <2>7, <3>1 DEF AppendEvent
  <2>8. ASSUME NEW m \in Mission, RecoverOne(w, m)
        PROVE  /\ pc'[w] = "append" /\ base'[w] = base[w]
               /\ call'[w].op = "recover" /\ call'[w].mission = m
    <3>1. /\ pc'[w] = "append" /\ base'[w] = base[w] /\ pc[w] = "recover"
          /\ call'[w] = [call[w] EXCEPT !.mission = m]
      BY <1>1, <2>8 DEF RecoverOne, WorkersOK
    <3> QED
      BY <1>1, <3>1 DEF WorkersOK, CallAt, CallType
  <2>9. ASSUME NEW outcome, NEW verifiable, ResolverAnswers(w, outcome, verifiable)
        PROVE  Elsewhere
    <3>1. PICK p \in {"save", "idle"} : Goto(w, p)
      BY <2>9 DEF ResolverAnswers
    <3> QED
      BY <1>4, <2>9, <3>1 DEF ResolverAnswers, stores
  <2> QED
    BY <1>9, <2>1, <2>2, <2>3, <2>4, <2>5, <2>6, <2>7, <2>8, <2>9 DEF Step
<1> QED
  BY <1>6, <1>7, <1>8, <1>9 DEF Acts

Logs(m) == 1..Len(log[m])
Snap(m, i) == log[m][i].snapshot

HalfWrites(w, m) == pc[w] = "append" /\ Target(w) = m

\* The log of m is a legal history up to the stored snapshot, and to the write
\* that is half done, which is the stored snapshot.
Hist(m) ==
  /\ \A i, j \in Logs(m) : i < j => Snap(m, i).version < Snap(m, j).version
  /\ \A i, j \in Logs(m) :
       Snap(m, j).version = Snap(m, i).version + 1 =>
         Snap(m, j).status \in ValidTransitions[Snap(m, i).status]
  /\ \A i \in Logs(m) :
       /\ Snap(m, i).version > 0 /\ Snap(m, i).version <= mission[m].version
       /\ Snap(m, i).version = mission[m].version => Snap(m, i) = mission[m]
  /\ \A w \in Worker : HalfWrites(w, m) =>
       /\ mission[m] = Write(w) /\ mission[m].version > 0
       /\ \A i \in Logs(m) :
            /\ Snap(m, i).version < Write(w).version
            /\ Snap(m, i).version + 1 = Write(w).version =>
                 Write(w).status \in ValidTransitions[Snap(m, i).status]

\* What the log knows of the stored snapshot.
Truth(m) ==
  LET pending == {w \in Worker : pc[w] = "append" /\ Target(w) = m}
  IN  /\ faults = 0 /\ pending = {} /\ mission[m] # Absent
           => Len(log[m]) > 0 /\ Snap(m, Len(log[m])) = mission[m]
      /\ mission[m].version <= Len(log[m]) + faults + Cardinality(pending)

HistInv == RefInv /\ DecideInv /\ \A m \in Mission : Hist(m) /\ Truth(m)

LEMMA OneWorker ==
  ASSUME SingleOwner, NEW w \in Worker, NEW S, S \subseteq Worker
  PROVE  /\ w \in S => S = {w} /\ Cardinality(S) = 1
         /\ w \notin S => S = {} /\ Cardinality(S) = 0
<1>1. w \in S => S = {w}
  BY DEF SingleOwner
<1>2. w \notin S => S = {}
  BY DEF SingleOwner
<1> QED
  BY <1>1, <1>2, FS_Singleton, FS_EmptySet

LEMMA LogTypes ==
  ASSUME TypeInv, NEW m \in Mission
  PROVE  /\ Len(log[m]) \in Nat /\ mission[m] \in Snapshot /\ faults \in Nat
         /\ mission[m].version \in Nat
         /\ \A i \in Logs(m) : Snap(m, i) \in Snapshot /\ Snap(m, i).version \in Nat
<1>1. log[m] \in Seq(Event) /\ mission[m] \in Snapshot /\ faults \in Nat
  BY DEF TypeInv, StoresOK
<1>2. \A i \in Logs(m) : log[m][i] \in Event
  BY <1>1 DEF Logs
<1> QED
  BY <1>1, <1>2 DEF Event, Snapshot, Snap

\* Nothing happens to mission m, its log and the writes half done on it.
LEMMA HistStays ==
  ASSUME NEW m \in Mission, Hist(m), mission'[m] = mission[m], log'[m] = log[m],
         \A w \in Worker : HalfWrites(w, m)' => HalfWrites(w, m) /\ Write(w)' = Write(w)
  PROVE  Hist(m)'
BY DEF Hist, Logs, Snap

\* x is saved for mission n, after the snapshot that was stored.
LEMMA SavedKeeps ==
  ASSUME SingleOwner, TypeInv, NEW w \in Worker, NEW n \in Mission, NEW x \in Snapshot,
         Started(n), NEW m \in Mission, Hist(m), Truth(m),
         mission' = [mission EXCEPT ![n] = x], UNCHANGED <<log, faults>>,
         x.version = mission[n].version + 1,
         mission[n] = Absent \/ x.status \in ValidTransitions[mission[n].status],
         pc[w] # "append", pc'[w] = "append", Target(w)' = n, Write(w)' = x
  PROVE  Hist(m)' /\ Truth(m)'
<1>1. /\ mission'[n] = x /\ (m # n => mission'[m] = mission[m])
  BY DEF TypeInv, StoresOK
<1>2. \A v \in Worker : v = w
  BY DEF SingleOwner
<1>3. Logs(m)' = Logs(m) /\ \A i : Snap(m, i)' = Snap(m, i)
  BY DEF Logs, Snap
<1>4. mission[n] = Absent \/ mission[n].version > 0
  BY DEF Started
<1>5. Absent.version = 0
  BY DEF Absent
<1> DEFINE P == {v \in Worker : pc[v] = "append" /\ Target(v) = m}
           Q == {v \in Worker : pc'[v] = "append" /\ Target(v)' = m}
<1>6. P = {} /\ Cardinality(P) = 0
  <2>1. P \subseteq Worker /\ w \notin P
    OBVIOUS
  <2> HIDE DEF P
  <2> QED
    BY <2>1, OneWorker
<1>7. IF m = n THEN Q # {} /\ Cardinality(Q) = 1 ELSE Q = {} /\ Cardinality(Q) = 0
  <2>1. Q \subseteq Worker /\ (w \in Q <=> m = n)
    OBVIOUS
  <2> HIDE DEF Q
  <2> QED
    BY <2>1, OneWorker
<1>8. /\ faults = 0 /\ mission[m] # Absent => Len(log[m]) > 0 /\ Snap(m, Len(log[m])) = mission[m]
      /\ mission[m].version <= Len(log[m]) + faults
  <2>1. /\ faults = 0 /\ P = {} /\ mission[m] # Absent
             => Len(log[m]) > 0 /\ Snap(m, Len(log[m])) = mission[m]
        /\ mission[m].version <= Len(log[m]) + faults + Cardinality(P)
    BY DEF Truth
  <2> HIDE DEF P
  <2> QED
    BY <1>6, <2>1, LogTypes
<1>9. Truth(m)'
  <2>1. /\ faults = 0 /\ Q = {} /\ mission'[m] # Absent
             => Len(log[m]) > 0 /\ Snap(m, Len(log[m])) = mission'[m]
        /\ mission'[m].version <= Len(log[m]) + faults + Cardinality(Q)
    <3> HIDE DEF Q
    <3> QED
      BY <1>1, <1>7, <1>8, LogTypes
  <2> QED
    BY <1>3, <2>1 DEF Truth
<1>10. CASE m # n
  <2>1. \A v \in Worker : ~HalfWrites(v, m)'
    BY <1>2, <1>10 DEF HalfWrites
  <2> QED
    BY <1>1, <1>9, <1>10, <2>1, HistStays
<1>11. CASE m = n
  <2>1. \A i \in Logs(m) : /\ Snap(m, i).version > 0
                           /\ Snap(m, i).version <= mission[m].version
                           /\ Snap(m, i).version = mission[m].version => Snap(m, i) = mission[m]
    BY DEF Hist
  <2>2. \A i \in Logs(m) :
          /\ Snap(m, i).version < x.version
          /\ Snap(m, i).version + 1 = x.version => x.status \in ValidTransitions[Snap(m, i).status]
    <3> SUFFICES ASSUME NEW i \in Logs(m)
                 PROVE  /\ Snap(m, i).version < x.version
                        /\ Snap(m, i).version + 1 = x.version =>
                             x.status \in ValidTransitions[Snap(m, i).status]
      OBVIOUS
    <3>1. Snap(m, i).version < x.version
      BY <1>11, <2>1, LogTypes
    <3>2. ASSUME Snap(m, i).version + 1 = x.version
          PROVE  x.status \in ValidTransitions[Snap(m, i).status]
      <4>1. Snap(m, i).version = mission[m].version
        BY <1>11, <3>2, LogTypes
      <4>2. Snap(m, i) = mission[m] /\ mission[m].version > 0
        BY <2>1, <4>1
      <4> QED
        BY <1>5, <1>11, <4>2
    <3> QED
      BY <3>1, <3>2
  <2>3. \A i \in Logs(m) : Snap(m, i).version <= x.version /\ Snap(m, i).version # x.version
    BY <2>2, LogTypes DEF Snapshot
  <2>4. \A v \in Worker : Write(v)' = x
    BY <1>2
  <2> HIDE DEF P, Q
  <2>5. /\ \A i, j \in Logs(m)' : i < j => Snap(m, i)'.version < Snap(m, j)'.version
        /\ \A i, j \in Logs(m)' :
             Snap(m, j)'.version = Snap(m, i)'.version + 1 =>
               Snap(m, j)'.status \in ValidTransitions[Snap(m, i)'.status]
    BY <1>3 DEF Hist
  <2>6. \A i \in Logs(m)' :
          /\ Snap(m, i)'.version > 0 /\ Snap(m, i)'.version <= mission'[m].version
          /\ Snap(m, i)'.version = mission'[m].version => Snap(m, i)' = mission'[m]
    BY <1>1, <1>3, <1>11, <2>1, <2>3
  <2>7. \A v \in Worker : HalfWrites(v, m)' =>
          /\ mission'[m] = Write(v)' /\ mission'[m].version > 0
          /\ \A i \in Logs(m)' :
               /\ Snap(m, i)'.version < Write(v)'.version
               /\ Snap(m, i)'.version + 1 = Write(v)'.version =>
                    Write(v)'.status \in ValidTransitions[Snap(m, i)'.status]
    <3>1. x.version > 0
      BY LogTypes
    <3> QED
      BY <1>1, <1>3, <1>11, <2>2, <2>4, <3>1
  <2> QED
    BY <1>9, <2>5, <2>6, <2>7 DEF Hist
<1> QED
  BY <1>10, <1>11

\* s is a legal history, of versions up to x, or all below x and legal with it.
LegalLog(s) ==
  /\ \A i, j \in 1..Len(s) : i < j => s[i].snapshot.version < s[j].snapshot.version
  /\ \A i, j \in 1..Len(s) :
       s[j].snapshot.version = s[i].snapshot.version + 1 =>
         s[j].snapshot.status \in ValidTransitions[s[i].snapshot.status]

UpTo(s, x) ==
  \A i \in 1..Len(s) :
    /\ s[i].snapshot.version > 0 /\ s[i].snapshot.version <= x.version
    /\ s[i].snapshot.version = x.version => s[i].snapshot = x

Below(s, x) ==
  \A i \in 1..Len(s) :
    /\ s[i].snapshot.version > 0 /\ s[i].snapshot.version < x.version
    /\ s[i].snapshot.version + 1 = x.version =>
         x.status \in ValidTransitions[s[i].snapshot.status]

\* A legal history extended by an event above all of its versions is legal.
LEMMA AppendedHistory ==
  ASSUME NEW s \in Seq(Event), NEW e \in Event, NEW x \in Snapshot,
         e.snapshot = x, x.version > 0, LegalLog(s), Below(s, x)
  PROVE  LET t == Append(s, e)
         IN  /\ Len(t) = Len(s) + 1 /\ t[Len(t)].snapshot = x
             /\ LegalLog(t) /\ UpTo(t, x)
<1>0. PICK t : t = Append(s, e)
  OBVIOUS
<1> DEFINE n == Len(s)
<1>1. /\ n \in Nat /\ Len(t) = n + 1 /\ t[n + 1] = e
      /\ \A i \in 1..n : t[i] = s[i]
  BY <1>0
<1>2. /\ \A i \in 1..n : s[i] \in Event
      /\ x.version \in Nat
  BY DEF Snapshot
<1>3. \A i \in 1..n : s[i].snapshot.version \in Nat
  BY <1>2 DEF Event, Snapshot
<1>4. \A i \in 1..Len(t) : i \in 1..n \/ i = n + 1
  BY <1>1
<1>5. \A i \in 1..Len(t) : t[i].snapshot.version \in Nat /\ t[i].snapshot.version <= x.version
  BY <1>1, <1>2, <1>3, <1>4 DEF Below
<1>6. ASSUME NEW i \in 1..Len(t), NEW j \in 1..Len(t), i < j
      PROVE  t[i].snapshot.version < t[j].snapshot.version
  <2>1. i \in 1..n
    BY <1>1, <1>6
  <2> QED
    BY <1>1, <1>4, <1>6, <2>1 DEF LegalLog, Below
<1>7. ASSUME NEW i \in 1..Len(t), NEW j \in 1..Len(t),
             t[j].snapshot.version = t[i].snapshot.version + 1
      PROVE  t[j].snapshot.status \in ValidTransitions[t[i].snapshot.status]
  <2>1. i # n + 1
    BY <1>1, <1>2, <1>5, <1>7
  <2>2. i \in 1..n
    BY <1>4, <2>1
  <2>3. CASE j \in 1..n
    BY <1>1, <1>7, <2>2, <2>3 DEF LegalLog
  <2>4. CASE j = n + 1
    BY <1>1, <1>7, <2>2, <2>4 DEF Below
  <2> QED
    BY <1>4, <2>3, <2>4
<1>8. ASSUME NEW i \in 1..Len(t)
      PROVE  /\ t[i].snapshot.version > 0
             /\ t[i].snapshot.version = x.version => t[i].snapshot = x
  <2>1. CASE i \in 1..n
    BY <1>1, <1>2, <1>3, <2>1 DEF Below
  <2> QED
    BY <1>1, <1>4, <2>1
<1>9. Len(t) = Len(s) + 1 /\ t[Len(t)].snapshot = x
  BY <1>1
<1>10. LegalLog(t) /\ UpTo(t, x)
  BY <1>5, <1>6, <1>7, <1>8 DEF LegalLog, UpTo
<1> QED
  BY <1>0, <1>9, <1>10

\* The event of the half done write is appended, never refused, or it is lost.
LEMMA AppendKeeps ==
  ASSUME SingleOwner, TypeInv, NEW w \in Worker, AppendEvent(w), pc'[w] # "append",
         NEW m \in Mission, Hist(m), Truth(m)
  PROVE  Hist(m)' /\ Truth(m)'
<1>1. PICK n \in Mission, e \in Event : n = Target(w) /\ e = BuiltEvent(w)
  BY BuiltEventType DEF AppendEvent, TypeInv, WorkersOK, CallAt, Target
<1>2. /\ pc[w] = "append" /\ UNCHANGED <<mission, faults>> /\ e.snapshot = Write(w)
      /\ \/ Rejected(n, e) /\ UNCHANGED log
         \/ log' = [log EXCEPT ![n] = Append(@, e)]
  BY <1>1 DEF AppendEvent, BuiltEvent
<1>3. \A v \in Worker : v = w
  BY DEF SingleOwner
<1>4. \A v \in Worker : ~HalfWrites(v, m)'
  BY <1>3 DEF HalfWrites
<1>5. log \in [Mission -> Seq(Event)]
  BY DEF TypeInv, StoresOK
<1> DEFINE P == {v \in Worker : pc[v] = "append" /\ Target(v) = m}
           Q == {v \in Worker : pc'[v] = "append" /\ Target(v)' = m}
<1>6. IF m = n THEN P # {} /\ Cardinality(P) = 1 ELSE P = {} /\ Cardinality(P) = 0
  <2>1. P \subseteq Worker /\ (w \in P <=> m = n)
    BY <1>1, <1>2
  <2> HIDE DEF P
  <2> QED
    BY <2>1, OneWorker
<1>7. Q = {} /\ Cardinality(Q) = 0
  <2>1. Q \subseteq Worker /\ w \notin Q
    OBVIOUS
  <2> HIDE DEF Q
  <2> QED
    BY <2>1, OneWorker
<1>8. /\ faults = 0 /\ P = {} /\ mission[m] # Absent
           => Len(log[m]) > 0 /\ Snap(m, Len(log[m])) = mission[m]
      /\ mission[m].version <= Len(log[m]) + faults + Cardinality(P)
  BY DEF Truth
<1> HIDE DEF P, Q
<1>9. CASE m # n
  <2>1. log'[m] = log[m]
    BY <1>2, <1>5, <1>9
  <2>2. Hist(m)'
    BY <1>2, <1>4, <2>1, HistStays
  <2>3. /\ faults = 0 /\ Q = {} /\ mission[m] # Absent
             => Len(log[m]) > 0 /\ Snap(m, Len(log[m])) = mission[m]
        /\ mission[m].version <= Len(log[m]) + faults + Cardinality(Q)
    BY <1>6, <1>7, <1>8, <1>9
  <2>4. Truth(m)'
    BY <1>2, <2>1, <2>3 DEF Truth, Snap, Q
  <2> QED
    BY <2>2, <2>4
<1>10. CASE m = n
  <2>1. HalfWrites(w, m)
    BY <1>1, <1>2, <1>10 DEF HalfWrites
  <2>2. PICK x \in Snapshot : x = Write(w)
    BY <1>2 DEF Event
  <2>3. /\ mission[m] = x
        /\ \A i \in Logs(m) :
             /\ Snap(m, i).version < x.version
             /\ Snap(m, i).version + 1 = x.version =>
                  x.status \in ValidTransitions[Snap(m, i).status]
    BY <2>1, <2>2 DEF Hist
  <2>4. ~Rejected(n, e)
    BY <1>2, <1>10, <2>2, <2>3, LogTypes DEF Rejected, Logs, Snap
  <2>5. x.version > 0 /\ \A i \in Logs(m) : Snap(m, i).version > 0
    BY <2>1, <2>3 DEF Hist
  <2>6. PICK s, t : s = log[m] /\ t = log'[m] /\ s \in Seq(Event)
    BY <1>5
  <2>7. t = Append(s, e) /\ e.snapshot = x
    BY <1>2, <1>5, <1>10, <2>2, <2>4, <2>6
  <2>8. LegalLog(s) /\ Below(s, x)
    BY <2>3, <2>5, <2>6 DEF Hist, Logs, Snap, LegalLog, Below
  <2>9. Len(t) = Len(s) + 1 /\ t[Len(t)].snapshot = x /\ LegalLog(t) /\ UpTo(t, x)
    BY <2>5, <2>6, <2>7, <2>8, AppendedHistory
  <2>10. mission'[m] = x
    BY <1>2, <2>3
  <2>11. Hist(m)'
    BY <1>4, <2>6, <2>9, <2>10 DEF Hist, Logs, Snap, LegalLog, UpTo
  <2>12. /\ mission[m].version <= Len(t) + faults + Cardinality(Q) /\ Len(t) > 0
    BY <1>6, <1>7, <1>8, <1>10, <2>6, <2>9, LogTypes
  <2>13. Truth(m)'
    BY <1>2, <2>6, <2>9, <2>10, <2>12 DEF Truth, Snap, Q
  <2> QED
    BY <2>11, <2>13
<1> QED
  BY <1>9, <1>10

\* A crash or a failed call gives up the half done write and counts it.
LEMMA FaultKeeps ==
  ASSUME SingleOwner, TypeInv, NEW w \in Worker, pc'[w] # "append",
         UNCHANGED <<mission, log>>, faults' = faults + 1,
         NEW m \in Mission, Hist(m), Truth(m)
  PROVE  Hist(m)' /\ Truth(m)'
<1>1. \A v \in Worker : v = w
  BY DEF SingleOwner
<1>2. \A v \in Worker : ~HalfWrites(v, m)'
  BY <1>1 DEF HalfWrites
<1>3. Hist(m)'
  BY <1>2, HistStays
<1> DEFINE P == {v \in Worker : pc[v] = "append" /\ Target(v) = m}
           Q == {v \in Worker : pc'[v] = "append" /\ Target(v)' = m}
<1>4. Cardinality(P) \in 0..1
  <2>1. P \subseteq Worker
    OBVIOUS
  <2> HIDE DEF P
  <2> QED
    BY <2>1, OneWorker
<1>5. Cardinality(Q) = 0
  <2>1. Q \subseteq Worker /\ w \notin Q
    OBVIOUS
  <2> HIDE DEF Q
  <2> QED
    BY <2>1, OneWorker
<1>6. mission[m].version <= Len(log[m]) + faults + Cardinality(P)
  BY DEF Truth
<1> HIDE DEF P, Q
<1>7. mission[m].version <= Len(log[m]) + (faults + 1) + Cardinality(Q) /\ faults + 1 # 0
  BY <1>4, <1>5, <1>6, LogTypes
<1>8. Truth(m)'
  BY <1>7 DEF Truth, Q
<1> QED
  BY <1>3, <1>8

\* Nothing but the place of a worker outside a half done write changes.
LEMMA QuietKeeps ==
  ASSUME UNCHANGED <<mission, log, faults>>,
         \A v \in Worker : \/ pc[v] # "append" /\ pc'[v] # "append"
                           \/ pc'[v] = pc[v] /\ call'[v] = call[v] /\ base'[v] = base[v],
         NEW m \in Mission, Hist(m), Truth(m)
  PROVE  Hist(m)' /\ Truth(m)'
<1>1. \A v \in Worker : pc'[v] = "append" =>
        pc[v] = "append" /\ call'[v] = call[v] /\ base'[v] = base[v]
  OBVIOUS
<1>2. \A v \in Worker : pc'[v] = "append" => Target(v)' = Target(v) /\ Write(v)' = Write(v)
  BY <1>1 DEF Target, Write
<1>3. Hist(m)'
  BY <1>1, <1>2, HistStays DEF HalfWrites
<1>4. {v \in Worker : pc'[v] = "append" /\ Target(v)' = m}
        = {v \in Worker : pc[v] = "append" /\ Target(v) = m}
  BY <1>1, <1>2 DEF Target
<1>5. Truth(m)'
  BY <1>4 DEF Truth, Snap
<1> QED
  BY <1>3, <1>5

LEMMA StepKeepsHistInv ==
  ASSUME SingleOwner
  PROVE  HistInv /\ [Next]_vars => HistInv'
<1> SUFFICES ASSUME HistInv, [Next]_vars PROVE HistInv'
  OBVIOUS
<1>1. /\ RefInv /\ RefInv' /\ DecideInv /\ DecideInv' /\ TypeInv
      /\ mission \in [Mission -> Snapshot]
  BY RefInvInductive, StepKeepsDecideInv DEF HistInv, DecideInv, TypeInv, StoresOK
<1> SUFFICES ASSUME NEW m \in Mission PROVE Hist(m)' /\ Truth(m)'
  BY <1>1 DEF HistInv
<1>2. Hist(m) /\ Truth(m)
  BY DEF HistInv
<1>3. ASSUME NEW w \in Worker, Acts(w)
      PROVE  Hist(m)' /\ Truth(m)'
  <2>1. CASE AppendEvent(w) /\ pc'[w] # "append"
    BY <1>1, <1>2, <2>1, AppendKeeps
  <2>2. CASE /\ Crash(w) \/ StoreFails(w)
             /\ pc'[w] # "append" /\ UNCHANGED <<mission, log>> /\ faults' = faults + 1
    BY <1>1, <1>2, <2>2, FaultKeeps
  <2>3. CASE /\ Save(w)
             /\ pc'[w] = "append" /\ call'[w] = call[w] /\ base'[w] = base[w]
    <3>1. pc[w] = "save" /\ Fresh(w) /\ Decides(w)
      BY <1>1, <2>3 DEF Save, RefInv, DecideInv
    <3>2. PICK n \in Mission, x \in Snapshot : n = Target(w) /\ x = Write(w)
      BY <1>1, <3>1, BuiltEventType DEF TypeInv, WorkersOK, CallAt, Target
    <3>3. /\ mission' = [mission EXCEPT ![n] = x] /\ UNCHANGED <<log, faults>>
          /\ Target(w)' = n /\ Write(w)' = x
      BY <2>3, <3>2 DEF Save, Target, Write
    <3>4. /\ x.version = mission[n].version + 1
          /\ mission[n] = Absent \/ x.status \in ValidTransitions[mission[n].status]
      <4>1. CASE call[w].op = "start" /\ Write(w) = Draft
        BY <3>1, <3>2, <4>1 DEF Fresh, Draft, Absent
      <4>2. CASE /\ call[w].op \in {"apply", "recover", "reconcile"}
                 /\ Write(w).version = base[w][Target(w)].version + 1
                 /\ Write(w).status \in ValidTransitions[base[w][Target(w)].status]
        BY <3>1, <3>2, <4>2 DEF Fresh
      <4> QED
        BY <1>1, <3>1, <4>1, <4>2, WriteFollows
    <3> QED
      BY <1>1, <1>2, <2>3, <3>1, <3>3, <3>4, SavedKeeps DEF RefInv
  <2>4. ASSUME NEW n \in Mission, RecoverOne(w, n),
               pc'[w] = "append", base'[w] = base[w],
               call'[w].op = "recover", call'[w].mission = n
        PROVE  Hist(m)' /\ Truth(m)'
    <3>1. /\ pc[w] = "recover" /\ base[w][n] = mission[n]
          /\ mission[n].status \in DefaultRecoverable
      BY <1>1, <2>4 DEF RecoverOne, RefInv, Fresh, TypeInv, WorkersOK, CallAt
    <3>2. PICK x : x = NextSnapshot(mission[n], "UNKNOWN", mission[n])
      OBVIOUS
    <3>3. x \in Snapshot
      BY <1>1, <3>2, NextSnapshotType, ConstantTypes
    <3>4. /\ mission' = [mission EXCEPT ![n] = x] /\ UNCHANGED <<log, faults>>
          /\ Target(w)' = n /\ Write(w)' = x
      BY <2>4, <3>1, <3>2 DEF RecoverOne, Target, Write
    <3>5. x.version = mission[n].version + 1 /\ x.status \in ValidTransitions[mission[n].status]
      BY <1>1, <3>1, <3>2, NextSnapshotFields DEF DefaultRecoverable
    <3> QED
      BY <1>1, <1>2, <2>4, <3>1, <3>3, <3>4, <3>5, SavedKeeps DEF RefInv
  <2>5. CASE pc[w] # "append" /\ pc'[w] # "append" /\ UNCHANGED <<mission, log, faults>>
    BY <1>2, <2>5, QuietKeeps DEF SingleOwner
  <2> QED
    BY <1>1, <1>3, <2>1, <2>2, <2>3, <2>4, <2>5, HalfDone
<1>4. CASE UNCHANGED <<pc, call, base, mission, log, faults>>
  BY <1>2, <1>4, QuietKeeps
<1>5. (\E v \in Worker : Acts(v)) \/ UNCHANGED <<pc, call, base, mission, log, faults>>
  BY DEF Next, Acts, Expire, Rest, vars, workers
<1> QED
  BY <1>3, <1>4, <1>5

LEMMA HistInvHolds ==
  ASSUME SingleOwner
  PROVE  Spec => []HistInv
<1>1. Init => HistInv
  <2> SUFFICES ASSUME Init PROVE HistInv
    OBVIOUS
  <2>1. RefInv /\ DecideInv
    <3>1. \A w \in Worker : Decides(w)
      BY DEF Init, Quiet, NoCall, Decides
    <3> QED
      BY <3>1, RefInvInductive, InitHasTypes DEF DecideInv
  <2> SUFFICES ASSUME NEW m \in Mission PROVE Hist(m) /\ Truth(m)
    BY <2>1 DEF HistInv
  <2>2. /\ mission[m] = Absent /\ log[m] = <<>> /\ faults = 0
        /\ \A w \in Worker : pc[w] # "append"
    BY DEF Init, Quiet
  <2>3. Len(log[m]) = 0 /\ Logs(m) = {}
    BY <2>2 DEF Logs
  <2>4. Hist(m)
    BY <2>2, <2>3 DEF Hist, HalfWrites
  <2>5. Cardinality({w \in Worker : pc[w] = "append" /\ Target(w) = m}) = 0
    <3>1. {w \in Worker : pc[w] = "append" /\ Target(w) = m} = {}
      BY <2>2
    <3> QED
      BY <3>1, FS_EmptySet
  <2>6. mission[m].version = 0
    BY <2>2 DEF Absent
  <2>7. Truth(m)
    BY <2>2, <2>3, <2>5, <2>6 DEF Truth
  <2> QED
    BY <2>4, <2>7
<1> QED
  BY <1>1, StepKeepsHistInv, PTL DEF Spec

\* The log of every mission replays along the transition table: versions
\* strictly increase and consecutive ones are a legal transition, through
\* crashes, failed calls and lost events, in the store without a unique
\* constraint too (recovery/replay.ts), with one owner at a time.
THEOREM HistoryIsLegal ==
  ASSUME SingleOwner
  PROVE  Spec => []LoggedHistoryIsLegal
<1>1. HistInv => LoggedHistoryIsLegal
  BY DEF HistInv, Hist, Logs, Snap, LoggedHistoryIsLegal
<1> QED
  BY <1>1, HistInvHolds, PTL

\* The last event's snapshot is the stored one when nothing failed, and each
\* fault costs the log one event at most (contracts/recovery.md), with one
\* owner at a time.
THEOREM LogTellsTheTruth ==
  ASSUME SingleOwner
  PROVE  Spec => []LogIsTheTruth
<1>1. HistInv => LogIsTheTruth
  <2> SUFFICES ASSUME HistInv, NEW m \in Mission
               PROVE  LET pending == {w \in Worker : pc[w] = "append" /\ Target(w) = m}
                      IN  /\ faults = 0 /\ pending = {} /\ mission[m] # Absent
                               => log[m] # <<>> /\ log[m][Len(log[m])].snapshot = mission[m]
                          /\ mission[m].version <= Len(log[m]) + faults + Cardinality(pending)
    BY DEF LogIsTheTruth
  <2>1. Truth(m)
    BY DEF HistInv
  <2>2. Len(log[m]) > 0 => log[m] # <<>>
    OBVIOUS
  <2> QED
    BY <2>1, <2>2 DEF Truth, Snap
<1> QED
  BY <1>1, HistInvHolds, PTL

\* What a command with an expected version overwrites is that version, with one
\* owner at a time (contracts/mission-protocol.md, VERSION_CONFLICT). Two owners
\* break it, as the run MissionLostUpdate shows.
THEOREM ExpectedVersionsHonoured ==
  ASSUME SingleOwner
  PROVE  Spec => ExpectedVersionHonoured
<1> DEFINE Honours(w) ==
             pc[w] = "save" /\ pc'[w] = "append" /\ call[w].command.expected # NoVersion
               => mission[Target(w)].version = call[w].command.expected
<1>1. ASSUME RefInv, DecideInv, NEW w \in Worker
      PROVE  Honours(w)
  <2> SUFFICES ASSUME pc[w] = "save", call[w].command.expected # NoVersion
               PROVE  mission[Target(w)].version = call[w].command.expected
    OBVIOUS
  <2>1. call[w].op = "apply"
    BY <1>1 DEF DecideInv, Decides, NoCommand
  <2>2. base[w][Target(w)] = mission[Target(w)]
    BY <1>1, <2>1 DEF RefInv, Fresh
  <2> QED
    BY <1>1, <2>1, <2>2 DEF DecideInv, Decides, VersionMatches
<1>2. RefInv /\ DecideInv /\ [Next]_vars => [\A w \in Worker : Honours(w)]_vars
  BY <1>1
<1>3. Spec => [][\A w \in Worker : Honours(w)]_vars
  BY <1>2, RefInvHolds, DecideInvHolds, PTL DEF Spec
<1> QED
  BY <1>3 DEF ExpectedVersionHonoured

=============================================================================
