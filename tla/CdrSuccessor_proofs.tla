-------------------------- MODULE CdrSuccessor_proofs --------------------------
(***************************************************************************)
(* Theorems about CdrSuccessor for every set of missions, every number of  *)
(* execute steps and every handler: types and, wherever its process dies,  *)
(* that the attempts of one operation end in candidate Bs of one mission;  *)
(* with crashes between calls only, that the mission was approved first,   *)
(* that there is one candidate B and that what is approved was gated.      *)
(***************************************************************************)
EXTENDS CdrSuccessor, TLAPS

-----------------------------------------------------------------------------
(* Types *)

\* Places at which the snapshot a composition has read is used.
Reading == {"commit", "resolver", "gates", "materialize"}

StoredOK(m) == mission[m] = NotStarted \/ mission[m].status \in Status
Bound(c) == pc[c] \notin {"idle", "dead"} => Mine(c) \in Mission /\ mission[Mine(c)] # NotStarted
HasRead(c) == pc[c] \in Reading => task[c].base.status \in Status

TypeInv ==
  /\ TypeOK
  /\ \A m \in Mission : StoredOK(m)
  /\ \A c \in Composer : Bound(c) /\ HasRead(c)

LEMMA StatusFacts ==
  /\ {"DRAFT", "RUNNING", "UNKNOWN", "APPROVED", "REJECTED"} \subseteq Status
  /\ "NONE" \notin Status
  /\ \A s \in Status : ValidTransitions[s] \subseteq Status
<1>1. RecoveryTargets \subseteq Status /\ {} \subseteq Status
  BY DEF Status, RecoveryTargets
<1>2. \A s \in Status : ValidTransitions[s] \subseteq Status
  BY <1>1, SMTT(30) DEF ValidTransitions, Status, Terminal
<1>3. QED
  BY <1>2 DEF Status

LEMMA RoleFacts ==
  /\ Steps \in Nat \ {0} /\ Drive = Steps + 1 /\ Approve = Steps + 2
  /\ 1 \in Role /\ Drive \in Role /\ Approve \in Role
  /\ \A r \in Role : r \in Nat /\ (r < Steps => r + 1 \in Role /\ r + 1 # 1)
  /\ Drive # 1 /\ Approve # 1
BY CdrAssumption DEF Drive, Approve, Role

LEMMA NoTaskType == NoTask \in Task /\ NotStarted \in State
BY RoleFacts DEF NoTask, Task, NotStarted, State

\* A snapshot that was moved is typed, and started.
LEMMA MovedType ==
  ASSUME NEW s \in State, NEW status \in Status
  PROVE  /\ Moved(s, status) \in State
         /\ Moved(s, status).status = status
         /\ Moved(s, status) # NotStarted
BY StatusFacts DEF Moved, State, NotStarted

\* What a change of the mission store has to keep.
StoreKeeps ==
  /\ mission' \in [Mission -> State]
  /\ \A m \in Mission : StoredOK(m)'
  /\ \A m \in Mission : mission[m] # NotStarted => mission'[m] # NotStarted

LEMMA WriteKeeps ==
  ASSUME TypeInv, NEW m \in Mission, NEW s \in State, s.status \in Status,
         mission' = [mission EXCEPT ![m] = s]
  PROVE  StoreKeeps
<1>1. s # NotStarted
  BY StatusFacts DEF NotStarted
<1>2. mission \in [Mission -> State]
  BY DEF TypeInv, TypeOK
<1>3. \A n \in Mission : mission'[n] = IF n = m THEN s ELSE mission[n]
  BY <1>2
<1>4. QED
  BY <1>1, <1>2, <1>3 DEF StoreKeeps, StoredOK, TypeInv

LEMMA StutterKeeps ==
  ASSUME TypeInv, UNCHANGED mission
  PROVE  StoreKeeps
BY DEF StoreKeeps, StoredOK, TypeInv, TypeOK

\* A composition that moves on keeps every composition typed.
LEMMA GotoKeeps ==
  ASSUME TypeInv, StoreKeeps, NEW c \in Composer, NEW p \in Place, NEW t \in Task,
         Goto(c, p, t),
         p \notin {"idle", "dead"} => t.mission \in Mission /\ mission'[t.mission] # NotStarted,
         p \in Reading => t.base.status \in Status
  PROVE  /\ pc' \in [Composer -> Place] /\ task' \in [Composer -> Task]
         /\ \A d \in Composer : Bound(d)' /\ HasRead(d)'
<1>1. pc \in [Composer -> Place] /\ task \in [Composer -> Task]
  BY DEF TypeInv, TypeOK
<1>2. pc' = [pc EXCEPT ![c] = p] /\ task' = [task EXCEPT ![c] = t]
  BY DEF Goto
<1>3. pc' \in [Composer -> Place] /\ task' \in [Composer -> Task]
  BY <1>1, <1>2
<1>4. ASSUME NEW d \in Composer
      PROVE  Bound(d)' /\ HasRead(d)'
  <2>1. CASE d = c
    <3>1. pc'[d] = p /\ task'[d] = t
      BY <1>1, <1>2, <2>1
    <3>2. QED
      BY <3>1 DEF Bound, HasRead, Mine
  <2>2. CASE d # c
    <3>1. pc'[d] = pc[d] /\ task'[d] = task[d]
      BY <1>1, <1>2, <2>2
    <3>2. Bound(d) /\ HasRead(d)
      BY DEF TypeInv
    <3>3. QED
      BY <3>1, <3>2 DEF Bound, HasRead, Mine, StoreKeeps
  <2>3. QED
    BY <2>1, <2>2
<1>5. QED
  BY <1>3, <1>4

\* Where a composition goes when apply returned: on with the same mission.
LEMMA AnsweredGoes ==
  ASSUME TypeInv, NEW c \in Composer, Answered(c)
  PROVE  \E p \in {"lookup", "verify", "readback"}, t \in Task :
           /\ Goto(c, p, t) /\ t.mission = Mine(c)
           /\ p = "lookup" => t.role # 1
<1>1. task[c] \in Task
  BY DEF TypeInv, TypeOK
<1>2. CallOf(c) \in Role /\ CallOf(c) = task[c].role /\ Mine(c) = task[c].mission
  BY <1>1 DEF CallOf, Task, Mine
<1>3. \A r \in Role : [task[c] EXCEPT !.role = r] \in Task
                      /\ [task[c] EXCEPT !.role = r].mission = task[c].mission
                      /\ [task[c] EXCEPT !.role = r].role = r
  BY <1>1 DEF Task
<1>4. CASE CallOf(c) < Steps
  <2>1. PICK t : t = [task[c] EXCEPT !.role = @ + 1]
    OBVIOUS
  <2>2. Goto(c, "lookup", t)
    BY <1>2, <1>4, <2>1, RoleFacts DEF Answered
  <2>3. t = [task[c] EXCEPT !.role = CallOf(c) + 1]
    BY <1>2, <2>1
  <2>4. CallOf(c) + 1 \in Role /\ CallOf(c) + 1 # 1
    BY <1>2, <1>4, RoleFacts
  <2>5. t \in Task /\ t.mission = Mine(c) /\ t.role # 1
    BY <1>2, <1>3, <2>3, <2>4
  <2>6. QED
    BY <2>2, <2>5
<1>5. CASE CallOf(c) = Steps
  <2>1. Goto(c, "verify", task[c])
    BY <1>2, <1>5, RoleFacts DEF Answered
  <2>2. QED
    BY <1>1, <1>2, <2>1
<1>6. CASE CallOf(c) = Drive
  <2>1. PICK t : t = [task[c] EXCEPT !.role = Approve]
    OBVIOUS
  <2>2. Goto(c, "lookup", t)
    BY <1>2, <1>6, <2>1, RoleFacts DEF Answered
  <2>3. t \in Task /\ t.mission = Mine(c) /\ t.role # 1
    BY <1>2, <1>3, <2>1, RoleFacts
  <2>4. QED
    BY <2>2, <2>3
<1>7. CASE CallOf(c) = Approve
  <2>1. Goto(c, "readback", task[c])
    BY <1>2, <1>7, RoleFacts DEF Answered
  <2>2. QED
    BY <1>1, <1>2, <2>1
<1>8. CallOf(c) < Steps \/ CallOf(c) = Steps \/ CallOf(c) = Drive \/ CallOf(c) = Approve
  BY <1>2, CdrAssumption DEF Role, Drive, Approve
<1>9. QED
  BY <1>4, <1>5, <1>6, <1>7, <1>8

-----------------------------------------------------------------------------
(* What a step of a composition does *)

\* A composition at place p with task t has made its first call of apply.
AtWork(p, t) == p \notin {"idle", "dead"} /\ (p \in {"lookup", "claim"} => t.role # 1)

\* Key r belongs to mission m.
Owned(r, m) == idem[r].status # "FREE" /\ idem[r].mission = m

\* The composition goes on with the mission it is bound to, and gets to work
\* only by finding or making the first key its mission's.
Goes(c) ==
  \E p \in Place, t \in Task :
    /\ Goto(c, p, t)
    /\ p \notin {"idle", "dead"} => t.mission \in Mission /\ mission'[t.mission] # NotStarted
    /\ p \in Reading => t.base.status \in Status
    /\ p = "claim" => ~Visible(c) /\ t.role = CallOf(c) /\ UNCHANGED idem
    /\ AtWork(p, t) =>
         /\ t.mission = Mine(c)
         /\ AtWork(pc[c], task[c]) \/ Owned(1, t.mission)'

IdemTyped == idem \in [Role -> KeyRecord]

LEMMA TaskFacts ==
  ASSUME TypeInv, NEW c \in Composer
  PROVE  /\ task[c] \in Task /\ CallOf(c) = task[c].role /\ CallOf(c) \in Role
         /\ Mine(c) = task[c].mission
         /\ pc[c] \notin {"idle", "dead"} => Mine(c) \in Mission /\ mission[Mine(c)] # NotStarted
                              /\ mission[Mine(c)] \in State
                              /\ mission[Mine(c)].status \in Status
         /\ pc[c] \in Reading => task[c].base.status \in Status
         /\ task[c].base \in State
<1>1. task[c] \in Task
  BY DEF TypeInv, TypeOK
<1>2. pc[c] \notin {"idle", "dead"} => Mine(c) \in Mission /\ mission[Mine(c)] # NotStarted
  BY DEF TypeInv, Bound
<1>3. ASSUME NEW m \in Mission, mission[m] # NotStarted
      PROVE  mission[m] \in State /\ mission[m].status \in Status
  BY <1>3 DEF TypeInv, StoredOK, TypeOK
<1>4. QED
  BY <1>1, <1>2, <1>3 DEF TypeInv, HasRead, Task, CallOf, Mine

\* A composition that comes to rest, by a throw or a crash, carries nothing.
LEMMA RestGoes ==
  ASSUME NEW c \in Composer, Throw(c) \/ Goto(c, "dead", NoTask)
  PROVE  Goes(c)
<1>1. PICK p \in {"idle", "dead"} : Goto(c, p, NoTask)
  BY DEF Throw, Goto
<1>2. NoTask \in Task /\ p \in Place \ Reading /\ p # "claim"
  BY NoTaskType DEF Place, Reading
<1>3. ~AtWork(p, NoTask)
  BY DEF AtWork
<1>4. QED
  BY <1>1, <1>2, <1>3 DEF Goes

\* Going to p with the same mission, from a place at work.
LEMMA OnwardGoes ==
  ASSUME TypeInv, StoreKeeps, NEW c \in Composer, NEW p \in Place \ {"claim"},
         NEW t \in Task, Goto(c, p, t), t.mission = Mine(c), pc[c] \notin {"idle", "dead"},
         p \in Reading => t.base.status \in Status,
         AtWork(pc[c], task[c]) \/ Owned(1, t.mission)'
  PROVE  Goes(c)
<1>1. t.mission \in Mission /\ mission'[t.mission] # NotStarted
  BY TaskFacts DEF StoreKeeps
<1>2. QED
  BY <1>1 DEF Goes

LEMMA AnsweredOnward ==
  ASSUME TypeInv, StoreKeeps, NEW c \in Composer, NEW m, m = Mine(c),
         Answered(c), pc[c] \notin {"idle", "dead"},
         AtWork(pc[c], task[c]) \/ Owned(1, m)'
  PROVE  Goes(c)
<1>1. PICK p \in {"lookup", "verify", "readback"}, t \in Task :
        Goto(c, p, t) /\ t.mission = Mine(c)
  BY AnsweredGoes
<1>2. p \in Place \ {"claim"} /\ p \notin Reading
  BY DEF Place, Reading
<1>3. t.mission = m
  BY <1>1
<1>4. AtWork(pc[c], task[c]) \/ Owned(1, t.mission)'
  BY <1>3
<1>5. QED
  BY <1>1, <1>2, <1>4, OnwardGoes

\* A start binds the composition to a mission, at a lookup of its first key.
LEMMA StartGoes ==
  ASSUME TypeInv, NEW c \in Composer,
         Compose(c) \/ \E m \in Mission : Retry(c, m)
  PROVE  StoreKeeps /\ Goes(c) /\ UNCHANGED <<idem, candidates, approved, others>>
<1>1. "lookup" \in Place \ Reading /\ "lookup" # "claim"
  BY DEF Place, Reading
<1>2. CASE Compose(c)
  <2>1. PICK m \in Mission, s \in {[status |-> "DRAFT", version |-> 1]} :
           /\ mission' = [mission EXCEPT ![m] = s]
           /\ Goto(c, "lookup", [NoTask EXCEPT !.mission = m])
    BY <1>2 DEF Compose
  <2>2. s \in State /\ s.status \in Status /\ s # NotStarted
    BY <2>1, StatusFacts DEF State, NotStarted
  <2>3. StoreKeeps
    BY <2>1, <2>2, WriteKeeps
  <2>4. PICK t : t = [NoTask EXCEPT !.mission = m]
    OBVIOUS
  <2>5. t \in Task /\ t.mission = m /\ ~AtWork("lookup", t)
    BY <2>4, NoTaskType DEF NoTask, Task, AtWork
  <2>6. mission'[m] # NotStarted
    BY <2>1, <2>2 DEF TypeInv, TypeOK
  <2>7. Goes(c)
    BY <1>1, <2>1, <2>4, <2>5, <2>6 DEF Goes
  <2>8. QED
    BY <1>2, <2>3, <2>7 DEF Compose
<1>3. CASE \E m \in Mission : Retry(c, m)
  <2>1. PICK m \in Mission : Retry(c, m)
    BY <1>3
  <2>2. PICK t : t = [NoTask EXCEPT !.mission = m, !.retry = TRUE]
    OBVIOUS
  <2>3. t \in Task /\ t.mission = m /\ ~AtWork("lookup", t)
    BY <2>2, NoTaskType DEF NoTask, Task, AtWork
  <2>4. Goto(c, "lookup", t) /\ mission[m] # NotStarted /\ UNCHANGED mission
    BY <2>1, <2>2 DEF Retry
  <2>5. StoreKeeps
    BY <2>4, StutterKeeps
  <2>6. mission'[m] # NotStarted
    BY <2>4
  <2>7. Goes(c)
    BY <1>1, <2>3, <2>4, <2>6 DEF Goes
  <2>8. QED
    BY <2>1, <2>5, <2>7 DEF Retry
<1>4. QED
  BY <1>2, <1>3

-----------------------------------------------------------------------------
(* One lemma per action: each keeps the store, goes on and moves the keys *)

\* A step claims the free key of its call, finishes it, or leaves keys alone.
KeysMove(c) ==
  \/ UNCHANGED idem
  \/ /\ pc[c] = "claim"
     /\ idem' = [idem EXCEPT ![CallOf(c)] = [status |-> "EXECUTING", mission |-> Mine(c)]]
  \/ \E status \in {"COMPLETED", "FAILED"} :
       idem' = [idem EXCEPT ![CallOf(c)].status = status]

Candidate == [mission : Mission, status : Status, version : Nat]

\* A step materializes at most its own mission's candidate, when at work.
CandidatesGrow(c) ==
  \/ UNCHANGED candidates
  \/ /\ AtWork(pc[c], task[c])
     /\ \E b \in Candidate : b.mission = Mine(c) /\ candidates' = candidates \union {b}

HistoryTyped == approved \subseteq Mission

StepKeeps(c) ==
  /\ StoreKeeps /\ Goes(c) /\ KeysMove(c) /\ CandidatesGrow(c)
  /\ HistoryTyped' /\ UNCHANGED others

LEMMA Quiet ==
  ASSUME TypeInv, NEW c \in Composer, Goes(c), StoreKeeps,
         UNCHANGED <<idem, candidates, approved, others>>
  PROVE  StepKeeps(c)
BY DEF StepKeeps, KeysMove, CandidatesGrow, HistoryTyped, TypeInv, TypeOK

LEMMA LookupKeeps ==
  ASSUME TypeInv, NEW c \in Composer, Lookup(c)
  PROVE  StepKeeps(c)
<1>1. /\ UNCHANGED <<mission, idem, candidates, approved, others>>
      /\ pc[c] = "lookup"
  BY DEF Lookup
<1>2. StoreKeeps
  BY <1>1, StutterKeeps
<1>3. Goes(c)
  <2>1. CASE ~Visible(c) /\ Goto(c, "claim", task[c])
    <3>1. task[c].mission \in Mission /\ mission'[task[c].mission] # NotStarted
      BY <1>1, <1>2, TaskFacts DEF StoreKeeps
    <3>2. AtWork("claim", task[c]) => AtWork(pc[c], task[c])
      BY <1>1 DEF AtWork
    <3>3. "claim" \in Place \ Reading
      BY DEF Place, Reading
    <3>4. QED
      BY <1>1, <2>1, <3>1, <3>2, <3>3, TaskFacts DEF Goes
  <2>2. CASE Visible(c) /\ SamePayload(c) /\ Replayed(c) /\ Answered(c)
    <3>1. PICK m : m = Mine(c)
      OBVIOUS
    <3>2. AtWork(pc[c], task[c]) \/ task[c].role = 1
      BY <1>1 DEF AtWork
    <3>3. task[c].role = 1 => idem[1].status # "FREE" /\ idem[1].mission = m
      BY <2>2, <3>1, TaskFacts DEF Visible, SamePayload
    <3>4. task[c].role = 1 => Owned(1, m)'
      BY <1>1, <3>3 DEF Owned
    <3>5. QED
      BY <1>1, <1>2, <2>2, <3>1, <3>2, <3>4, AnsweredOnward
  <2>3. CASE Throw(c)
    BY <2>3, RestGoes
  <2>4. QED
    BY <2>1, <2>2, <2>3 DEF Lookup
<1>4. QED
  BY <1>1, <1>2, <1>3, Quiet

LEMMA ClaimKeeps ==
  ASSUME TypeInv, NEW c \in Composer, Claim(c)
  PROVE  StepKeeps(c)
<1>1. /\ UNCHANGED <<mission, candidates, approved, others>>
      /\ pc[c] = "claim"
      /\ idem' = [idem EXCEPT ![CallOf(c)] = [status |-> "EXECUTING", mission |-> Mine(c)]]
  BY DEF Claim
<1>2. StoreKeeps
  BY <1>1, StutterKeeps
<1>3. PICK p \in {"commit", "fail"}, t \in {[task[c] EXCEPT !.base = mission[Mine(c)]]} :
        Goto(c, p, t)
  BY DEF Claim
<1>4. /\ t \in Task /\ t.mission = Mine(c)
      /\ t.base.status \in Status /\ p \in Place \ {"claim"}
  BY <1>1, <1>3, TaskFacts DEF Task, Place
<1>5. AtWork(pc[c], task[c]) \/ task[c].role = 1
  BY <1>1 DEF AtWork
<1>6. task[c].role = 1 => Owned(1, t.mission)'
  BY <1>1, <1>4, TaskFacts, RoleFacts DEF TypeInv, TypeOK, Owned
<1>7. Goes(c)
  BY <1>1, <1>2, <1>3, <1>4, <1>5, <1>6, OnwardGoes
<1>8. QED
  BY <1>1, <1>2, <1>7 DEF StepKeeps, KeysMove, CandidatesGrow, HistoryTyped, TypeInv, TypeOK

LEMMA CommitKeeps ==
  ASSUME TypeInv, NEW c \in Composer, Commit(c)
  PROVE  StepKeeps(c)
<1>1. UNCHANGED <<idem, candidates, others>> /\ pc[c] = "commit"
  BY DEF Commit
<1>2. AtWork(pc[c], task[c]) /\ pc[c] \in Reading
  BY <1>1 DEF AtWork, Reading
<1>3. PICK m \in Mission, status \in Targets(CallOf(c), task[c].base) :
        /\ m = Mine(c)
        /\ mission' = [mission EXCEPT ![m] = Moved(task[c].base, status)]
        /\ approved' \subseteq approved \union {m}
  BY <1>1, TaskFacts DEF Commit
<1>4. status \in Status
  BY <1>2, <1>3, TaskFacts, StatusFacts DEF Targets
<1>5. StoreKeeps
  <2>1. PICK s : s = Moved(task[c].base, status)
    OBVIOUS
  <2>2. s \in State /\ s.status \in Status
    BY <1>4, <2>1, TaskFacts, MovedType
  <2>3. QED
    BY <1>3, <2>1, <2>2, WriteKeeps
<1>6. "complete" \in Place \ {"claim"} /\ "complete" \notin Reading
  BY DEF Place, Reading
<1>7. Goto(c, "complete", task[c])
  BY DEF Commit
<1>8. Goes(c)
  BY <1>1, <1>2, <1>5, <1>6, <1>7, TaskFacts, OnwardGoes
<1>9. HistoryTyped'
  BY <1>1, <1>3 DEF HistoryTyped, TypeInv, TypeOK
<1>10. QED
  BY <1>1, <1>5, <1>8, <1>9 DEF StepKeeps, KeysMove, CandidatesGrow

LEMMA CompleteKeeps ==
  ASSUME TypeInv, NEW c \in Composer, Complete(c)
  PROVE  StepKeeps(c)
<1>1. /\ UNCHANGED <<mission, candidates, approved, others>>
      /\ pc[c] = "complete" /\ Answered(c)
      /\ idem' = [idem EXCEPT ![CallOf(c)].status = "COMPLETED"]
  BY DEF Complete
<1>2. StoreKeeps
  BY <1>1, StutterKeeps
<1>3. AtWork(pc[c], task[c])
  BY <1>1 DEF AtWork
<1>4. Goes(c)
  BY <1>1, <1>2, <1>3, AnsweredOnward
<1>5. QED
  BY <1>1, <1>2, <1>4 DEF StepKeeps, KeysMove, CandidatesGrow, HistoryTyped, TypeInv, TypeOK

LEMMA FailKeeps ==
  ASSUME TypeInv, NEW c \in Composer, Fail(c)
  PROVE  StepKeeps(c)
<1>1. /\ UNCHANGED <<mission, candidates, approved, others>>
      /\ Throw(c)
      /\ idem' = [idem EXCEPT ![CallOf(c)].status = "FAILED"]
  BY DEF Fail
<1>2. StoreKeeps
  BY <1>1, StutterKeeps
<1>3. QED
  BY <1>1, <1>2, RestGoes
     DEF StepKeeps, KeysMove, CandidatesGrow, HistoryTyped, TypeInv, TypeOK

\* Verify, Reconcile, Gates and ReadBack write nothing: they throw, or go on
\* with a snapshot that was read.
LEMMA ReadingKeeps ==
  ASSUME TypeInv, NEW c \in Composer,
         UNCHANGED <<mission, idem, candidates, approved, others>>,
         AtWork(pc[c], task[c]),
         Throw(c) \/ \E p \in Place \ {"claim"}, t \in Task :
                       /\ Goto(c, p, t) /\ t.mission = Mine(c)
                       /\ p \in Reading => t.base.status \in Status
  PROVE  StepKeeps(c)
<1>1. StoreKeeps
  BY StutterKeeps
<1>2. pc[c] \notin {"idle", "dead"}
  BY DEF AtWork
<1>3. Goes(c)
  BY <1>1, <1>2, RestGoes, OnwardGoes
<1>4. QED
  BY <1>1, <1>3, Quiet

LEMMA VerifyKeeps == ASSUME TypeInv, NEW c \in Composer, Verify(c) PROVE StepKeeps(c)
<1>1. /\ UNCHANGED <<mission, idem, candidates, approved, others>>
      /\ pc[c] = "verify"
  BY DEF Verify
<1>2. AtWork(pc[c], task[c])
  BY <1>1 DEF AtWork
<1>3. \A t : t = [task[c] EXCEPT !.base = mission[Mine(c)]]
             => t \in Task /\ t.mission = Mine(c) /\ t.base.status \in Status
  BY <1>1, TaskFacts DEF Task
<1>4. {"reconcile", "gates"} \subseteq Place \ {"claim"} /\ "reconcile" \notin Reading
  BY DEF Place, Reading
<1>5. Throw(c) \/ \E p \in Place \ {"claim"}, t \in Task :
                   /\ Goto(c, p, t) /\ t.mission = Mine(c)
                   /\ p \in Reading => t.base.status \in Status
  <2>1. \/ Throw(c) \/ Goto(c, "reconcile", task[c])
        \/ \E t : t = [task[c] EXCEPT !.base = mission[Mine(c)]] /\ Goto(c, "gates", t)
    BY DEF Verify
  <2>2. CASE Goto(c, "reconcile", task[c])
    BY <1>4, <2>2, TaskFacts
  <2>3. QED
    BY <1>3, <1>4, <2>1, <2>2
<1>6. QED
  BY <1>1, <1>2, <1>5, ReadingKeeps

LEMMA ReconcileKeeps == ASSUME TypeInv, NEW c \in Composer, Reconcile(c) PROVE StepKeeps(c)
<1>1. /\ UNCHANGED <<mission, idem, candidates, approved, others>>
      /\ pc[c] = "reconcile"
  BY DEF Reconcile
<1>2. AtWork(pc[c], task[c])
  BY <1>1 DEF AtWork
<1>3. \A t : t = [task[c] EXCEPT !.base = mission[Mine(c)]]
             => t \in Task /\ t.mission = Mine(c) /\ t.base.status \in Status
  BY <1>1, TaskFacts DEF Task
<1>4. "resolver" \in Place \ {"claim"}
  BY DEF Place
<1>5. \/ Throw(c)
      \/ \E t : t = [task[c] EXCEPT !.base = mission[Mine(c)]] /\ Goto(c, "resolver", t)
  BY DEF Reconcile
<1>6. QED
  BY <1>1, <1>2, <1>3, <1>4, <1>5, ReadingKeeps

LEMMA GatesKeeps ==
  ASSUME TypeInv, NEW c \in Composer, NEW allowed \in BOOLEAN, Gates(c, allowed)
  PROVE  StepKeeps(c)
<1>1. /\ UNCHANGED <<mission, idem, candidates, approved, others>>
      /\ pc[c] = "gates"
  BY DEF Gates
<1>2. AtWork(pc[c], task[c]) /\ pc[c] \in Reading
  BY <1>1 DEF AtWork, Reading
<1>3. PICK t : t = [task[c] EXCEPT !.gated = task[c].base]
  OBVIOUS
<1>4. t \in Task /\ t.mission = Mine(c) /\ t.base.status \in Status
  BY <1>2, <1>3, TaskFacts DEF Task
<1>5. {"lookup", "materialize"} \subseteq Place \ {"claim"} /\ "lookup" \notin Reading
  BY DEF Place, Reading
<1>6. \/ Throw(c) \/ Goto(c, "materialize", t)
      \/ \E r \in {Drive, Approve} : Goto(c, "lookup", [t EXCEPT !.role = r])
  BY <1>3 DEF Gates
<1>7. CASE \E r \in {Drive, Approve} : Goto(c, "lookup", [t EXCEPT !.role = r])
  <2>1. PICK r \in {Drive, Approve} : Goto(c, "lookup", [t EXCEPT !.role = r])
    BY <1>7
  <2>2. PICK u : u = [t EXCEPT !.role = r]
    OBVIOUS
  <2>3. u \in Task /\ u.mission = Mine(c)
    BY <1>4, <2>2, RoleFacts DEF Task
  <2>4. QED
    BY <1>1, <1>2, <1>5, <2>1, <2>2, <2>3, ReadingKeeps
<1>8. CASE Throw(c) \/ Goto(c, "materialize", t)
  BY <1>1, <1>2, <1>4, <1>5, <1>8, ReadingKeeps
<1>9. QED
  BY <1>6, <1>7, <1>8

LEMMA ReadBackKeeps == ASSUME TypeInv, NEW c \in Composer, ReadBack(c) PROVE StepKeeps(c)
<1>1. /\ UNCHANGED <<mission, idem, candidates, approved, others>>
      /\ pc[c] = "readback"
  BY DEF ReadBack
<1>2. AtWork(pc[c], task[c])
  BY <1>1 DEF AtWork
<1>3. PICK t : t = [task[c] EXCEPT !.base = mission[Mine(c)]]
  OBVIOUS
<1>4. t \in Task /\ t.mission = Mine(c) /\ t.base.status \in Status
  BY <1>1, <1>3, TaskFacts DEF Task
<1>5. "materialize" \in Place \ {"claim"} /\ Goto(c, "materialize", t)
  BY <1>3 DEF Place, ReadBack
<1>6. QED
  BY <1>1, <1>2, <1>4, <1>5, ReadingKeeps

LEMMA ResolverKeeps ==
  ASSUME TypeInv, NEW c \in Composer, NEW outcome \in Outcome, ResolverAnswers(c, outcome)
  PROVE  StepKeeps(c)
<1>1. UNCHANGED <<idem, candidates, approved, others>> /\ pc[c] = "resolver"
  BY DEF ResolverAnswers
<1>2. AtWork(pc[c], task[c])
  BY <1>1 DEF AtWork
<1>3. PICK m \in Mission, s \in {Moved(task[c].base, "RUNNING")} :
        /\ m = Mine(c)
        /\ mission' = mission \/ mission' = [mission EXCEPT ![m] = s]
  BY <1>1, TaskFacts DEF ResolverAnswers
<1>4. s \in State /\ s.status \in Status
  <2>1. s = Moved(task[c].base, "RUNNING")
    OBVIOUS
  <2>2. task[c].base \in State /\ "RUNNING" \in Status
    BY TaskFacts, StatusFacts
  <2>3. QED
    BY <2>1, <2>2, MovedType
<1>5. StoreKeeps
  BY <1>3, <1>4, WriteKeeps, StutterKeeps
<1>6. Goes(c)
  <2>1. PICK t : t = [task[c] EXCEPT !.base = s]
    OBVIOUS
  <2>2. Throw(c) \/ Goto(c, "gates", t)
    BY <1>3, <2>1 DEF ResolverAnswers
  <2>3. t \in Task /\ t.mission = Mine(c) /\ t.base.status \in Status
    BY <1>4, <2>1, TaskFacts DEF Task
  <2>4. "gates" \in Place \ {"claim"} /\ pc[c] \notin {"idle", "dead"}
    BY <1>1 DEF Place
  <2>5. QED
    BY <1>2, <1>5, <2>2, <2>3, <2>4, RestGoes, OnwardGoes
<1>7. HistoryTyped'
  BY <1>1, <1>3 DEF HistoryTyped, TypeInv, TypeOK
<1>8. QED
  BY <1>1, <1>5, <1>6, <1>7 DEF StepKeeps, KeysMove, CandidatesGrow

LEMMA MaterializeKeeps ==
  ASSUME TypeInv, NEW c \in Composer, Materialize(c)
  PROVE  StepKeeps(c)
<1>1. /\ UNCHANGED <<mission, idem, approved, others>>
      /\ pc[c] = "materialize" /\ Throw(c)
      /\ candidates' = candidates \union {CandidateB(Mine(c), task[c].base)}
  BY DEF Materialize
<1>2. StoreKeeps
  BY <1>1, StutterKeeps
<1>3. AtWork(pc[c], task[c]) /\ pc[c] \in Reading
  BY <1>1 DEF AtWork, Reading
<1>4. /\ CandidateB(Mine(c), task[c].base) \in Candidate
      /\ CandidateB(Mine(c), task[c].base).mission = Mine(c)
  BY <1>1, <1>3, TaskFacts DEF CandidateB, Candidate, State
<1>5. CandidatesGrow(c)
  BY <1>1, <1>3, <1>4 DEF CandidatesGrow
<1>6. QED
  BY <1>1, <1>2, <1>5, RestGoes DEF StepKeeps, KeysMove, HistoryTyped, TypeInv, TypeOK

LEMMA CrashKeeps == ASSUME TypeInv, NEW c \in Composer, Crash(c) PROVE StepKeeps(c)
<1>1. /\ UNCHANGED <<mission, idem, candidates, approved, others>>
      /\ Goto(c, "dead", NoTask)
  BY DEF Crash
<1>2. QED
  BY <1>1, StutterKeeps, RestGoes, Quiet

LEMMA ComposerKeeps ==
  ASSUME TypeInv, NEW c \in Composer,
         \/ Compose(c) \/ Step(c) \/ Crash(c)
         \/ \E m \in Mission : Retry(c, m)
  PROVE  StepKeeps(c)
<1>1. CASE Compose(c) \/ \E m \in Mission : Retry(c, m)
  BY <1>1, StartGoes, Quiet
<1>2. CASE Step(c)
  BY <1>2, LookupKeeps, ClaimKeeps, CommitKeeps, CompleteKeeps, FailKeeps,
     VerifyKeeps, ReconcileKeeps, ResolverKeeps, GatesKeeps, ReadBackKeeps,
     MaterializeKeeps DEF Step
<1>3. CASE Crash(c)
  BY <1>3, CrashKeeps
<1>4. QED
  BY <1>1, <1>2, <1>3

-----------------------------------------------------------------------------
(* Everybody else, and the type invariant *)

OthersTyped == interference \in Nat /\ expired \in BOOLEAN

LEMMA InterfereTyped == ASSUME TypeInv, Interfere PROVE interference' \in Nat
<1>1. interference \in Nat
  BY DEF TypeInv, TypeOK
<1>2. QED
  BY <1>1 DEF Interfere

\* Somebody else moves a mission on.
LEMMA MovedByOthers ==
  ASSUME TypeInv, (\E m \in Mission : Recover(m) \/ Client(m))
  PROVE  /\ StoreKeeps /\ HistoryTyped' /\ interference' \in Nat
         /\ UNCHANGED <<idem, pc, task, candidates, expired>>
<1>1. PICK m \in Mission : Recover(m) \/ Client(m)
  OBVIOUS
<1>2. mission \in [Mission -> State] /\ mission[m] \in State
  BY DEF TypeInv, TypeOK
<1>3. CASE Recover(m)
  <2>1. PICK s : s = Moved(mission[m], "UNKNOWN") /\ mission' = [mission EXCEPT ![m] = s]
    BY <1>2, <1>3 DEF Recover
  <2>2. s \in State /\ s.status \in Status
    BY <1>2, <2>1, MovedType, StatusFacts
  <2>3. StoreKeeps
    BY <2>1, <2>2, WriteKeeps
  <2>4. QED
    BY <1>3, <2>3, InterfereTyped DEF Recover, HistoryTyped, TypeInv, TypeOK
<1>4. CASE Client(m)
  <2>1. mission[m].status \in Status
    BY <1>4 DEF Client, TypeInv, StoredOK
  <2>2. PICK status \in ValidTransitions[mission[m].status] :
           /\ mission' = [mission EXCEPT ![m] = Moved(mission[m], status)]
           /\ approved' \subseteq approved \union {m}
    BY <1>4 DEF Client
  <2>3. PICK s : s = Moved(mission[m], status)
    OBVIOUS
  <2>4. s \in State /\ s.status \in Status
    BY <1>2, <2>1, <2>2, <2>3, MovedType, StatusFacts
  <2>5. StoreKeeps
    BY <2>2, <2>3, <2>4, WriteKeeps
  <2>6. HistoryTyped'
    BY <1>4, <2>2 DEF Client, HistoryTyped, TypeInv, TypeOK
  <2>7. QED
    BY <1>4, <2>5, <2>6, InterfereTyped DEF Client
<1>5. QED
  BY <1>1, <1>3, <1>4

\* A composition that stays where it is, in a store that keeps.
LEMMA StayKeeps ==
  ASSUME TypeInv, StoreKeeps, UNCHANGED <<pc, task>>
  PROVE  \A c \in Composer : Bound(c)' /\ HasRead(c)'
BY DEF TypeInv, StoreKeeps, Bound, HasRead, Mine

\* A step leaves every key typed, and one its mission owns stays its own.
LEMMA KeysKeep ==
  ASSUME TypeInv, NEW c \in Composer, KeysMove(c)
  PROVE  /\ IdemTyped'
         /\ (pc[c] = "claim" => ~Visible(c)) =>
               \A m \in Mission : Owned(1, m) => Owned(1, m)'
<1>1. idem \in [Role -> KeyRecord] /\ CallOf(c) \in Role /\ 1 \in Role
  BY TaskFacts, RoleFacts DEF TypeInv, TypeOK
<1>2. CASE UNCHANGED idem
  BY <1>1, <1>2 DEF IdemTyped, Owned
<1>3. CASE /\ pc[c] = "claim"
           /\ idem' = [idem EXCEPT ![CallOf(c)] = [status |-> "EXECUTING", mission |-> Mine(c)]]
  <2>1. Mine(c) \in Mission
    BY <1>3, TaskFacts
  <2>2. [status |-> "EXECUTING", mission |-> Mine(c)] \in KeyRecord
    BY <2>1 DEF KeyRecord
  <2>3. IdemTyped'
    BY <1>1, <1>3, <2>2 DEF IdemTyped
  <2>4. ASSUME ~Visible(c), NEW m \in Mission, Owned(1, m)
        PROVE  Owned(1, m)'
    <3>1. CallOf(c) # 1
      BY <2>4 DEF Visible, Owned
    <3>2. QED
      BY <1>1, <1>3, <2>4, <3>1 DEF Owned
  <2>5. QED
    BY <1>3, <2>3, <2>4
<1>4. CASE \E status \in {"COMPLETED", "FAILED"} :
             idem' = [idem EXCEPT ![CallOf(c)].status = status]
  <2>1. PICK status \in {"COMPLETED", "FAILED"} :
             idem' = [idem EXCEPT ![CallOf(c)].status = status]
    BY <1>4
  <2>2. IdemTyped'
    BY <1>1, <2>1 DEF IdemTyped, KeyRecord
  <2>3. ASSUME NEW m \in Mission, Owned(1, m)
        PROVE  Owned(1, m)'
    BY <1>1, <2>1, <2>3 DEF Owned, KeyRecord
  <2>4. QED
    BY <2>2, <2>3
<1>5. QED
  BY <1>2, <1>3, <1>4 DEF KeysMove

LEMMA InitTyped == Init => TypeInv
<1> SUFFICES ASSUME Init PROVE TypeInv
  OBVIOUS
<1>1. TypeOK
  BY NoTaskType DEF Init, TypeOK, FreeKey, KeyRecord, Place
<1>2. (\A m \in Mission : StoredOK(m)) /\ \A c \in Composer : Bound(c) /\ HasRead(c)
  BY DEF Init, StoredOK, Bound, HasRead, Reading
<1>3. QED
  BY <1>1, <1>2 DEF TypeInv

LEMMA StepTyped == ASSUME TypeInv, [Next]_vars PROVE TypeInv'
<1>1. CASE UNCHANGED vars
  <2>1. UNCHANGED <<mission, idem, pc, task, candidates, approved, interference, expired>>
    BY <1>1 DEF vars
  <2>2. StoreKeeps
    BY <2>1, StutterKeeps
  <2>3. QED
    BY <2>1, <2>2, StayKeeps DEF StoreKeeps, TypeInv, TypeOK
<1>2. ASSUME NEW c \in Composer, StepKeeps(c)
      PROVE  TypeInv'
  <2>1. PICK p \in Place, t \in Task :
          /\ Goto(c, p, t)
          /\ p \notin {"idle", "dead"} => t.mission \in Mission /\ mission'[t.mission] # NotStarted
          /\ p \in Reading => t.base.status \in Status
    BY <1>2 DEF StepKeeps, Goes
  <2>2. StoreKeeps
    BY <1>2 DEF StepKeeps
  <2>3. /\ pc' \in [Composer -> Place] /\ task' \in [Composer -> Task]
        /\ \A d \in Composer : Bound(d)' /\ HasRead(d)'
    BY <2>1, <2>2, GotoKeeps
  <2>4. idem' \in [Role -> KeyRecord]
    BY <1>2, KeysKeep DEF StepKeeps, IdemTyped
  <2>5. candidates' \subseteq Candidate
    BY <1>2 DEF StepKeeps, CandidatesGrow, TypeInv, TypeOK, Candidate
  <2>6. HistoryTyped' /\ interference' \in Nat /\ expired' \in BOOLEAN
    BY <1>2 DEF StepKeeps, others, TypeInv, TypeOK
  <2>7. QED
    BY <2>2, <2>3, <2>4, <2>5, <2>6 DEF TypeInv, TypeOK, StoreKeeps, Candidate, HistoryTyped
<1>3. CASE \E m \in Mission : Recover(m) \/ Client(m)
  BY <1>3, MovedByOthers, StayKeeps DEF TypeInv, TypeOK, StoreKeeps, HistoryTyped
<1>4. ASSUME NEW r \in Role, Expire(r)
      PROVE  TypeInv'
  <2>1. /\ UNCHANGED <<mission, pc, task, candidates, approved>>
        /\ idem' = [idem EXCEPT ![r] = FreeKey] /\ expired' = TRUE /\ Interfere
    BY <1>4 DEF Expire
  <2>2. idem' \in [Role -> KeyRecord]
    BY <2>1 DEF TypeInv, TypeOK, FreeKey, KeyRecord
  <2>3. StoreKeeps
    BY <2>1, StutterKeeps
  <2>4. QED
    BY <2>1, <2>2, <2>3, StayKeeps, InterfereTyped DEF TypeInv, TypeOK, StoreKeeps
<1>5. QED
  BY <1>1, <1>2, <1>3, <1>4, ComposerKeeps DEF Next

LEMMA TypeInvariant == Spec => []TypeInv
BY InitTyped, StepTyped, PTL DEF Spec

\* Stores, compositions and candidates stay in their domains, for every set of
\* missions and of composers in progress together, every number of execute
\* steps, every handler, and crashes anywhere.
THEOREM CdrTypeCorrect == Spec => []TypeOK
<1>1. TypeInv => TypeOK
  BY DEF TypeInv
<1>2. QED
  BY <1>1, TypeInvariant, PTL

-----------------------------------------------------------------------------
(* One operation ends in one mission *)

\* The composer is used by one composition at a time.
SingleComposer == \A c, d \in Composer : c = d

\* The first key of the operation belongs to the one mission that can get past
\* its first call. Finding the key and claiming it are two steps, so a claim
\* has to know that the key is still free: only one composition runs.
OneInv ==
  /\ \A c \in Composer : pc[c] = "claim" => ~Visible(c)
  /\ ~expired =>
       /\ \A c \in Composer : AtWork(pc[c], task[c]) => Owned(1, Mine(c))
       /\ \A b \in candidates : Owned(1, b.mission)

LEMMA OneInit == Init => OneInv
BY DEF Init, OneInv, AtWork

LEMMA ComposerOne ==
  ASSUME SingleComposer, TypeInv, OneInv, NEW c \in Composer, StepKeeps(c)
  PROVE  OneInv'
<1>1. PICK p \in Place, t \in Task :
        /\ Goto(c, p, t)
        /\ p \notin {"idle", "dead"} => t.mission \in Mission
        /\ p = "claim" => ~Visible(c) /\ t.role = CallOf(c) /\ UNCHANGED idem
        /\ AtWork(p, t) =>
             /\ t.mission = Mine(c)
             /\ AtWork(pc[c], task[c]) \/ Owned(1, t.mission)'
  BY DEF StepKeeps, Goes
<1>2. pc'[c] = p /\ task'[c] = t /\ \A d \in Composer : d = c
  BY <1>1 DEF SingleComposer, Goto, TypeInv, TypeOK
<1>3. ASSUME p = "claim" PROVE ~Visible(c)'
  BY <1>1, <1>2, <1>3 DEF Visible, CallOf
<1>4. expired' = expired /\ KeysMove(c) /\ CandidatesGrow(c)
  BY DEF StepKeeps, others
<1>5. \A m \in Mission : Owned(1, m) => Owned(1, m)'
  BY <1>4, KeysKeep DEF OneInv
<1>6. ASSUME ~expired, AtWork(p, t)
      PROVE  Owned(1, t.mission)'
  <2>1. t.mission \in Mission /\ t.mission = Mine(c)
    BY <1>1, <1>6 DEF AtWork
  <2>2. CASE AtWork(pc[c], task[c])
    <3>1. Owned(1, t.mission)
      BY <1>6, <2>1, <2>2 DEF OneInv
    <3>2. QED
      BY <1>5, <2>1, <3>1
  <2>3. QED
    BY <1>1, <1>6, <2>2
<1>7. ASSUME ~expired, NEW b \in candidates'
      PROVE  Owned(1, b.mission)'
  <2>1. b.mission \in Mission /\ Owned(1, b.mission)
    <3>1. CASE b \in candidates
      BY <1>7, <3>1 DEF OneInv, TypeInv, TypeOK
    <3>2. CASE b \notin candidates
      <4>1. AtWork(pc[c], task[c]) /\ b \in Candidate /\ b.mission = Mine(c)
        BY <1>4, <1>7, <3>2 DEF CandidatesGrow
      <4>2. QED
        BY <1>7, <4>1 DEF OneInv, Candidate
    <3>3. QED
      BY <3>1, <3>2
  <2>2. QED
    BY <1>5, <2>1
<1>8. ASSUME NEW d \in Composer PROVE pc'[d] = "claim" => ~Visible(d)'
  BY <1>2, <1>3
<1>9. ASSUME ~expired', NEW d \in Composer, AtWork(pc[d], task[d])'
      PROVE  Owned(1, Mine(d))'
  <2>1. d = c /\ AtWork(p, t)
    BY <1>2, <1>9
  <2>2. Owned(1, t.mission)'
    BY <1>4, <1>6, <1>9, <2>1
  <2>3. QED
    BY <1>2, <2>1, <2>2 DEF Mine, Owned
<1>10. QED
  BY <1>4, <1>7, <1>8, <1>9 DEF OneInv

LEMMA OneStep ==
  ASSUME SingleComposer, TypeInv, OneInv, [Next]_vars
  PROVE  OneInv'
<1>1. CASE UNCHANGED <<idem, pc, task, candidates, expired>>
  BY <1>1 DEF OneInv, Visible, CallOf, Mine, Owned, AtWork
<1>2. CASE UNCHANGED vars
  BY <1>1, <1>2 DEF vars
<1>3. CASE \E m \in Mission : Recover(m) \/ Client(m)
  BY <1>1, <1>3, MovedByOthers
<1>4. ASSUME NEW r \in Role, Expire(r)
      PROVE  OneInv'
  <2>1. UNCHANGED <<pc, task>> /\ idem' = [idem EXCEPT ![r] = FreeKey] /\ expired'
    BY <1>4 DEF Expire
  <2>2. ASSUME NEW c \in Composer, pc'[c] = "claim"
        PROVE  ~Visible(c)'
    <3>1. idem[CallOf(c)].status = "FREE" /\ CallOf(c) \in Role
      BY <2>1, <2>2, TaskFacts DEF OneInv, Visible
    <3>2. idem'[CallOf(c)].status = "FREE"
      BY <2>1, <3>1 DEF FreeKey, TypeInv, TypeOK
    <3>3. QED
      BY <2>1, <3>2 DEF Visible, CallOf
  <2>3. QED
    BY <2>1, <2>2 DEF OneInv
<1>5. QED
  BY <1>2, <1>3, <1>4, ComposerKeeps, ComposerOne DEF Next

\* With one composition at a time all candidate Bs of an operation belong to
\* one mission until a key expires, however often it is retried, with its
\* mission or by starting another, and wherever its process dies, in the
\* middle of apply too: the attempts that lost the first key never get on.
THEOREM OneMission ==
  ASSUME SingleComposer
  PROVE  Spec => [](~expired => \A a, b \in candidates : a.mission = b.mission)
<1>1. TypeInv /\ OneInv /\ [Next]_vars => OneInv'
  BY OneStep
<1>2. OneInv => (~expired => \A a, b \in candidates : a.mission = b.mission)
  BY DEF OneInv, Owned
<1>3. QED
  BY <1>1, <1>2, OneInit, TypeInvariant, PTL DEF Spec

-----------------------------------------------------------------------------
(* The mission is approved first, and has one candidate B *)

\* No composition dies between the claim of a key and the write it was claimed
\* for, or the failure it ends in; anywhere else it may.
CrashesBetweenCalls == CrashPlaces \intersect {"commit", "fail"} = {}

\* The input does not ask for a mission that is over.
TargetOpen == ExpectedStatus \notin Terminal

\* A mission that has been approved stays one of these.
Settled == Terminal \union {"APPROVED"}

\* A composition at place p with task t has claimed the approval's key and not
\* written; the key stands for an approval once nobody has.
Writing(p, t) == p \in {"commit", "fail"} /\ t.role = Approve
Granted ==
  /\ idem[Approve].status \in {"EXECUTING", "COMPLETED"}
  /\ \A c \in Composer : ~Writing(pc[c], task[c])

\* It may take mission m back to where it was before it was approved.
Unsealing(p, t, m) ==
  /\ t.mission = m
  /\ p = "resolver" \/ (p = "commit" /\ t.base.status \notin Settled)

\* m has been approved, and nothing under way can undo it.
Sealed(m) ==
  /\ m \in approved /\ mission[m].status \in Settled
  /\ \A c \in Composer : ~Unsealing(pc[c], task[c], m)

\* s is what is stored of m, or m has ended since.
Tracks(s, m) == mission[m] = s \/ mission[m].status \in Terminal

Kept(b) == [status |-> b.status, version |-> b.version]
BsOf(m) == {b \in candidates : b.mission = m}
NoneYet(m) == TargetOpen => BsOf(m) = {}

\* s may be materialized for m: it is what earlier attempts materialized.
Ready(m, s) ==
  /\ Sealed(m) /\ Tracks(s, m)
  /\ TargetOpen => BsOf(m) \subseteq {CandidateB(m, s)}

\* What a composition at place p with task t may rely on.
Keyed(p, t) ==
  (p \in {"commit", "complete", "fail"} /\ t.role = Approve) =>
    idem[Approve].mission = t.mission

Backed(p, t) ==
  /\ (p = "readback" \/ (p = "complete" /\ t.role = Approve)) => Sealed(t.mission)
  /\ (p = "materialize" \/ (p = "gates" /\ t.base.status = "APPROVED")) =>
       Ready(t.mission, t.base)
  /\ (\/ p = "readback"
      \/ p = "gates" /\ t.base.status # "APPROVED"
      \/ p \in {"lookup", "claim", "commit", "complete"} /\ t.role \in {Drive, Approve})
     => NoneYet(t.mission)

KnownApproved == \A m \in Mission : mission[m].status = "APPROVED" => m \in approved
GrantStands == Granted => Sealed(idem[Approve].mission)
BsStand == \A b \in candidates : Sealed(b.mission) /\ Tracks(Kept(b), b.mission)
OneB == TargetOpen => \A a, b \in candidates : a.mission = b.mission => a = b

ApprovalInv ==
  /\ KnownApproved /\ GrantStands /\ BsStand /\ OneB
  /\ \A c \in Composer : Keyed(pc[c], task[c]) /\ Backed(pc[c], task[c])

\* What no step undoes.
SealsStand ==
  \A m \in Mission :
    Sealed(m) => Sealed(m)' /\ \A s : Tracks(s, m) => Tracks(s, m)'

LEMMA SettledFacts ==
  /\ Terminal = {"COMPLETED", "FAILED"} /\ Settled = {"COMPLETED", "FAILED", "APPROVED"}
  /\ Settled \subseteq Status
  /\ \A s \in Settled : ValidTransitions[s] \subseteq Terminal
<1>1. Settled \subseteq Status
  BY DEF Settled, Terminal, Status
<1>2. ASSUME NEW s \in Settled PROVE ValidTransitions[s] \subseteq Terminal
  BY <1>1 DEF ValidTransitions, Settled, Terminal
<1>3. QED
  BY <1>1, <1>2 DEF Settled, Terminal

\* A sealed mission is left alone or ended.
LEMMA SealStands ==
  ASSUME NEW m \in Mission, Sealed(m), approved \subseteq approved',
         mission'[m] = mission[m] \/ mission'[m].status \in Terminal,
         \A c \in Composer : ~Unsealing(pc'[c], task'[c], m)
  PROVE  Sealed(m)' /\ \A s : Tracks(s, m) => Tracks(s, m)'
BY DEF Sealed, Tracks, Settled

LEMMA BackedStands ==
  ASSUME TypeInv, SealsStand, UNCHANGED candidates, NEW p, NEW t, Backed(p, t)
  PROVE  Backed(p, t)'
<1>1. ASSUME Sealed(t.mission)
      PROVE  Sealed(t.mission)' /\ \A s : Tracks(s, t.mission) => Tracks(s, t.mission)'
  <2>1. t.mission \in Mission
    BY <1>1 DEF Sealed, TypeInv, TypeOK
  <2>2. QED
    BY <1>1, <2>1 DEF SealsStand
<1>2. NoneYet(t.mission) => NoneYet(t.mission)'
  BY DEF NoneYet, BsOf
<1>3. Ready(t.mission, t.base) => Ready(t.mission, t.base)'
  BY <1>1 DEF Ready, BsOf
<1>4. QED
  BY <1>1, <1>2, <1>3 DEF Backed

LEMMA BsKeep ==
  ASSUME TypeInv, BsStand, OneB, SealsStand, UNCHANGED candidates
  PROVE  BsStand' /\ OneB'
<1>1. ASSUME NEW b \in candidates
      PROVE  Sealed(b.mission)' /\ Tracks(Kept(b), b.mission)'
  <2>1. b.mission \in Mission
    BY DEF TypeInv, TypeOK
  <2>2. Sealed(b.mission) /\ Tracks(Kept(b), b.mission)
    BY DEF BsStand
  <2>3. QED
    BY <2>1, <2>2 DEF SealsStand
<1>2. QED
  BY <1>1 DEF BsStand, OneB

\* A composition moves on; nobody else is suspended.
LEMMA Alone ==
  ASSUME SingleComposer, TypeInv, NEW c \in Composer, NEW p, NEW t, Goto(c, p, t)
  PROVE  /\ pc'[c] = p /\ task'[c] = t
         /\ \A d \in Composer : d = c
BY DEF SingleComposer, Goto, TypeInv, TypeOK

\* A composition moves on and no mission is written: what has to be shown of it.
LEMMA MovesOn ==
  ASSUME SingleComposer, TypeInv, ApprovalInv, NEW c \in Composer, NEW p, NEW t,
         Goto(c, p, t), UNCHANGED <<mission, candidates, approved>>,
         p = "resolver" => mission[t.mission].status = "UNKNOWN",
         p = "commit" => t.base = mission[t.mission],
         Granted' => Sealed(idem'[Approve].mission),
         Keyed(p, t)', Backed(p, t)
  PROVE  ApprovalInv'
<1>1. pc'[c] = p /\ task'[c] = t /\ \A d \in Composer : d = c
  BY Alone
<1>2. ASSUME NEW m \in Mission, Sealed(m)
      PROVE  Sealed(m)' /\ \A s : Tracks(s, m) => Tracks(s, m)'
  <2>1. mission[m].status \in Settled /\ "UNKNOWN" \notin Settled
    BY <1>2, SettledFacts DEF Sealed
  <2>2. ~Unsealing(p, t, m)
    BY <2>1 DEF Unsealing
  <2>3. \A d \in Composer : ~Unsealing(pc'[d], task'[d], m)
    BY <1>1, <2>2
  <2>4. QED
    BY <1>2, <2>3, SealStands
<1>3. SealsStand
  BY <1>2 DEF SealsStand
<1>4. BsStand' /\ OneB'
  BY <1>3, BsKeep DEF ApprovalInv
<1>5. Backed(p, t)'
  BY <1>3, BackedStands
<1>6. KnownApproved'
  BY DEF KnownApproved, ApprovalInv
<1>7. GrantStands'
  <2>1. PICK m : m = idem'[Approve].mission
    OBVIOUS
  <2>2. ASSUME Granted' PROVE Sealed(m)'
    <3>1. Sealed(m)
      BY <2>1, <2>2
    <3>2. m \in Mission
      BY <3>1 DEF Sealed, TypeInv, TypeOK
    <3>3. QED
      BY <1>2, <3>1, <3>2
  <2>3. QED
    BY <2>1, <2>2 DEF GrantStands, Sealed
<1>8. \A d \in Composer : Keyed(pc[d], task[d])' /\ Backed(pc[d], task[d])'
  BY <1>1, <1>5 DEF Keyed, Backed
<1>9. QED
  BY <1>4, <1>6, <1>7, <1>8 DEF ApprovalInv

\* Nor is a key: one that stands for an approval already did.
LEMMA ReadsOn ==
  ASSUME SingleComposer, TypeInv, ApprovalInv, NEW c \in Composer, NEW p, NEW t,
         Goto(c, p, t), UNCHANGED <<mission, idem, candidates, approved>>,
         p \notin {"commit", "complete", "fail"},
         p = "resolver" => mission[t.mission].status = "UNKNOWN",
         ~Writing(pc[c], task[c]), Backed(p, t)
  PROVE  ApprovalInv'
<1>1. \A d \in Composer : d = c
  BY Alone
<1>2. Granted' => Granted
  BY <1>1 DEF Granted
<1>3. Granted' => Sealed(idem'[Approve].mission)
  BY <1>2 DEF ApprovalInv, GrantStands
<1>4. Keyed(p, t)'
  BY DEF Keyed
<1>5. QED
  BY <1>3, <1>4, MovesOn

LEMMA RestIsBacked ==
  /\ Backed("idle", NoTask) /\ Backed("dead", NoTask)
  /\ Keyed("idle", NoTask)' /\ Keyed("dead", NoTask)'
BY DEF Backed, Keyed

LEMMA ThrowsOn ==
  ASSUME SingleComposer, TypeInv, ApprovalInv, NEW c \in Composer,
         Throw(c), UNCHANGED <<mission, idem, candidates, approved>>,
         ~Writing(pc[c], task[c])
  PROVE  ApprovalInv'
<1>1. Goto(c, "idle", NoTask)
  BY DEF Throw, Goto
<1>2. QED
  BY <1>1, RestIsBacked, ReadsOn

\* Where a composition goes when apply has returned, given what it may rely on.
LEMMA AnsweredBacked ==
  ASSUME TypeInv, NEW c \in Composer, Answered(c),
         CallOf(c) \in {Drive, Approve} => NoneYet(Mine(c)),
         CallOf(c) = Approve => Sealed(Mine(c))
  PROVE  \E p \in {"lookup", "verify", "readback"}, t \in Task : Goto(c, p, t) /\ Backed(p, t)
<1>1. task[c] \in Task /\ CallOf(c) = task[c].role /\ CallOf(c) \in Role /\ Mine(c) = task[c].mission
  BY TaskFacts
<1>2. \A r \in Role : \A t : t = [task[c] EXCEPT !.role = r] =>
                       t \in Task /\ t.mission = Mine(c) /\ t.role = r
  BY <1>1 DEF Task
<1>3. CASE CallOf(c) < Steps
  <2>1. PICK r : r = CallOf(c) + 1
    OBVIOUS
  <2>2. r \in Role /\ r \notin {Drive, Approve}
    <3>1. PICK n \in Nat : n = CallOf(c)
      BY <1>1, RoleFacts
    <3>2. n + 1 \in Role
      BY <1>1, <1>3, <3>1, RoleFacts
    <3>3. n < Steps /\ Steps \in Nat
      BY <1>3, <3>1, RoleFacts
    <3>4. r = n + 1 /\ r < Drive /\ r < Approve
      BY <2>1, <3>1, <3>3, RoleFacts
    <3>5. QED
      BY <3>2, <3>4
  <2>3. PICK t : t = [task[c] EXCEPT !.role = r]
    OBVIOUS
  <2>4. Goto(c, "lookup", t)
    BY <1>1, <1>3, <2>1, <2>3, RoleFacts DEF Answered
  <2>5. QED
    BY <1>2, <2>2, <2>3, <2>4 DEF Backed
<1>4. CASE CallOf(c) = Steps
  <2>1. Goto(c, "verify", task[c])
    BY <1>1, <1>4, RoleFacts DEF Answered
  <2>2. QED
    BY <1>1, <2>1 DEF Backed
<1>5. CASE CallOf(c) = Drive
  <2>1. PICK t : t = [task[c] EXCEPT !.role = Approve]
    OBVIOUS
  <2>2. Goto(c, "lookup", t)
    BY <1>1, <1>5, <2>1, RoleFacts DEF Answered
  <2>3. QED
    BY <1>2, <1>5, <2>1, <2>2, RoleFacts DEF Backed
<1>6. CASE CallOf(c) = Approve
  <2>1. Goto(c, "readback", task[c])
    BY <1>1, <1>6, RoleFacts DEF Answered
  <2>2. QED
    BY <1>1, <1>6, <2>1 DEF Backed
<1>7. CallOf(c) < Steps \/ CallOf(c) = Steps \/ CallOf(c) = Drive \/ CallOf(c) = Approve
  BY <1>1, CdrAssumption DEF Role, Drive, Approve
<1>8. QED
  BY <1>3, <1>4, <1>5, <1>6, <1>7

-----------------------------------------------------------------------------
(* One lemma per action *)

LEMMA LookupSeals ==
  ASSUME SingleComposer, TypeInv, ApprovalInv, NEW c \in Composer, Lookup(c)
  PROVE  ApprovalInv'
<1>1. /\ UNCHANGED <<mission, idem, candidates, approved>>
      /\ pc[c] = "lookup" /\ ~Writing(pc[c], task[c])
  BY DEF Lookup, Writing
<1>2. Backed("lookup", task[c])
  BY <1>1 DEF ApprovalInv
<1>3. CASE ~Visible(c) /\ Goto(c, "claim", task[c])
  <2>1. Backed("claim", task[c])
    BY <1>2 DEF Backed
  <2>2. QED
    BY <1>1, <1>3, <2>1, ReadsOn
<1>4. CASE Visible(c) /\ SamePayload(c) /\ Replayed(c) /\ Answered(c)
  <2>1. CallOf(c) \in {Drive, Approve} => NoneYet(Mine(c))
    BY <1>2, TaskFacts DEF Backed
  <2>2. ASSUME CallOf(c) = Approve PROVE Sealed(Mine(c))
    <3>1. \A d \in Composer : d = c
      BY DEF SingleComposer
    <3>2. Granted
      BY <1>1, <1>4, <2>2, <3>1 DEF Granted, Replayed
    <3>3. idem[Approve].mission = Mine(c)
      BY <1>4, <2>2 DEF SamePayload
    <3>4. QED
      BY <3>2, <3>3 DEF ApprovalInv, GrantStands
  <2>3. PICK p \in {"lookup", "verify", "readback"}, t \in Task : Goto(c, p, t) /\ Backed(p, t)
    BY <1>4, <2>1, <2>2, AnsweredBacked
  <2>4. QED
    BY <1>1, <2>3, ReadsOn
<1>5. CASE Throw(c)
  BY <1>1, <1>5, ThrowsOn
<1>6. QED
  BY <1>3, <1>4, <1>5 DEF Lookup

LEMMA ClaimSeals ==
  ASSUME SingleComposer, TypeInv, ApprovalInv, NEW c \in Composer, Claim(c)
  PROVE  ApprovalInv'
<1>1. /\ UNCHANGED <<mission, candidates, approved>> /\ pc[c] = "claim"
      /\ idem' = [idem EXCEPT ![CallOf(c)] = [status |-> "EXECUTING", mission |-> Mine(c)]]
  BY DEF Claim
<1>2. PICK p \in {"commit", "fail"}, t \in {[task[c] EXCEPT !.base = mission[Mine(c)]]} :
        Goto(c, p, t)
  BY DEF Claim
<1>3. /\ t.mission = Mine(c) /\ t.base = mission[Mine(c)] /\ t.role = CallOf(c)
      /\ CallOf(c) \in Role
  BY <1>2, TaskFacts DEF Task
<1>4. idem \in [Role -> KeyRecord] /\ Approve \in Role
  BY RoleFacts DEF TypeInv, TypeOK
<1>5. Keyed(p, t)'
  BY <1>1, <1>3, <1>4 DEF Keyed
<1>6. Backed(p, t)
  <2>1. Backed("claim", task[c]) /\ Mine(c) = task[c].mission /\ CallOf(c) = task[c].role
    BY <1>1, TaskFacts DEF ApprovalInv
  <2>2. QED
    BY <1>3, <2>1 DEF Backed
<1>7. Granted' => Sealed(idem'[Approve].mission)
  <2>1. pc'[c] = p /\ task'[c] = t /\ \A d \in Composer : d = c
    BY <1>2, Alone
  <2>2. CASE CallOf(c) = Approve
    BY <1>3, <2>1, <2>2 DEF Granted, Writing
  <2>3. CASE CallOf(c) # Approve
    <3>1. idem'[Approve] = idem[Approve]
      BY <1>1, <1>4, <2>3
    <3>2. Granted' => Granted
      BY <1>1, <2>1, <3>1 DEF Granted, Writing
    <3>3. QED
      BY <3>1, <3>2 DEF ApprovalInv, GrantStands
  <2>4. QED
    BY <2>2, <2>3
<1>8. QED
  BY <1>1, <1>2, <1>3, <1>5, <1>6, <1>7, MovesOn

\* A call finishes its key; one that finishes the approval's has approved.
LEMMA CompleteSeals ==
  ASSUME SingleComposer, TypeInv, ApprovalInv, NEW c \in Composer, Complete(c)
  PROVE  ApprovalInv'
<1>1. /\ UNCHANGED <<mission, candidates, approved>>
      /\ pc[c] = "complete" /\ Answered(c)
      /\ idem' = [idem EXCEPT ![CallOf(c)].status = "COMPLETED"]
  BY DEF Complete
<1>2. /\ Keyed("complete", task[c]) /\ Backed("complete", task[c])
      /\ CallOf(c) = task[c].role /\ CallOf(c) \in Role /\ Mine(c) = task[c].mission
      /\ idem \in [Role -> KeyRecord] /\ Approve \in Role
  BY <1>1, TaskFacts, RoleFacts DEF ApprovalInv, TypeInv, TypeOK
<1>3. /\ CallOf(c) \in {Drive, Approve} => NoneYet(Mine(c))
      /\ CallOf(c) = Approve => Sealed(Mine(c))
  BY <1>2 DEF Backed
<1>4. PICK p \in {"lookup", "verify", "readback"}, t \in Task : Goto(c, p, t) /\ Backed(p, t)
  BY <1>1, <1>3, AnsweredBacked
<1>5. Keyed(p, t)'
  BY DEF Keyed
<1>6. Granted' => Sealed(idem'[Approve].mission)
  <2>1. \A d \in Composer : d = c
    BY DEF SingleComposer
  <2>2. CASE CallOf(c) = Approve
    <3>1. idem'[Approve].mission = idem[Approve].mission
      BY <1>1, <1>2, <2>2 DEF KeyRecord
    <3>2. idem[Approve].mission = Mine(c)
      BY <1>2, <2>2 DEF Keyed
    <3>3. QED
      BY <1>3, <2>2, <3>1, <3>2
  <2>3. CASE CallOf(c) # Approve
    <3>1. idem'[Approve] = idem[Approve]
      BY <1>1, <1>2, <2>3
    <3>2. Granted' => Granted
      BY <1>1, <2>1, <3>1 DEF Granted, Writing
    <3>3. QED
      BY <3>1, <3>2 DEF ApprovalInv, GrantStands
  <2>4. QED
    BY <2>2, <2>3
<1>7. QED
  BY <1>1, <1>4, <1>5, <1>6, MovesOn

LEMMA FailSeals ==
  ASSUME SingleComposer, TypeInv, ApprovalInv, NEW c \in Composer, Fail(c)
  PROVE  ApprovalInv'
<1>1. /\ UNCHANGED <<mission, candidates, approved>>
      /\ pc[c] = "fail" /\ Goto(c, "idle", NoTask)
      /\ idem' = [idem EXCEPT ![CallOf(c)].status = "FAILED"]
  BY DEF Fail, Throw, Goto
<1>2. /\ CallOf(c) \in Role /\ CallOf(c) = task[c].role
      /\ idem \in [Role -> KeyRecord] /\ Approve \in Role
  BY TaskFacts, RoleFacts DEF TypeInv, TypeOK
<1>3. Granted' => Sealed(idem'[Approve].mission)
  <2>1. \A d \in Composer : d = c
    BY DEF SingleComposer
  <2>2. CASE CallOf(c) = Approve
    <3>1. idem'[Approve].status = "FAILED"
      BY <1>1, <1>2, <2>2 DEF KeyRecord
    <3>2. QED
      BY <3>1 DEF Granted
  <2>3. CASE CallOf(c) # Approve
    <3>1. idem'[Approve] = idem[Approve]
      BY <1>1, <1>2, <2>3
    <3>2. Granted' => Granted
      BY <1>2, <2>1, <2>3, <3>1 DEF Granted, Writing
    <3>3. QED
      BY <3>1, <3>2 DEF ApprovalInv, GrantStands
  <2>4. QED
    BY <2>2, <2>3
<1>4. QED
  BY <1>1, <1>3, RestIsBacked, MovesOn

\* A mission read while nothing can undo it: approved, it is sealed and every
\* candidate B of it is what is stored; not settled, it has none.
LEMMA ReadIsSafe ==
  ASSUME SingleComposer, TypeInv, ApprovalInv, NEW c \in Composer,
         pc[c] \notin {"commit", "resolver", "idle", "dead"}
  PROVE  /\ mission[Mine(c)].status = "APPROVED" => Ready(Mine(c), mission[Mine(c)])
         /\ mission[Mine(c)].status \notin Settled => BsOf(Mine(c)) = {}
<1>1. PICK m \in Mission : m = Mine(c)
  BY TaskFacts
<1>2. ASSUME mission[m].status = "APPROVED" PROVE Ready(m, mission[m])
  <2>1. \A d \in Composer : ~Unsealing(pc[d], task[d], m)
    BY DEF SingleComposer, Unsealing
  <2>2. m \in approved /\ mission[m].status \in Settled \ Terminal
    BY <1>2, SettledFacts DEF ApprovalInv, KnownApproved
  <2>3. Sealed(m)
    BY <2>1, <2>2 DEF Sealed
  <2>4. ASSUME NEW b \in BsOf(m) PROVE b = CandidateB(m, mission[m])
    <3>1. b \in candidates /\ b.mission = m
      BY DEF BsOf
    <3>2. Kept(b) = mission[m]
      BY <2>2, <3>1 DEF ApprovalInv, BsStand, Tracks
    <3>3. b = [mission |-> b.mission, status |-> b.status, version |-> b.version]
      BY <3>1 DEF TypeInv, TypeOK
    <3>4. mission[m].status = b.status /\ mission[m].version = b.version
      BY <3>2 DEF Kept
    <3>5. QED
      BY <3>1, <3>3, <3>4 DEF CandidateB
  <2>5. QED
    BY <2>3, <2>4 DEF Ready, Tracks
<1>3. ASSUME mission[m].status \notin Settled PROVE BsOf(m) = {}
  BY <1>3 DEF BsOf, ApprovalInv, BsStand, Sealed
<1>4. QED
  BY <1>1, <1>2, <1>3

LEMMA VerifySeals ==
  ASSUME SingleComposer, TypeInv, ApprovalInv, NEW c \in Composer, Verify(c)
  PROVE  ApprovalInv'
<1>1. /\ UNCHANGED <<mission, idem, candidates, approved>>
      /\ pc[c] = "verify" /\ ~Writing(pc[c], task[c])
  BY DEF Verify, Writing
<1>2. CASE Goto(c, "reconcile", task[c])
  <2>1. Backed("reconcile", task[c])
    BY DEF Backed
  <2>2. QED
    BY <1>1, <1>2, <2>1, ReadsOn
<1>3. CASE /\ mission[Mine(c)].status \in PastExpected \ {"UNKNOWN"}
           /\ Goto(c, "gates", [task[c] EXCEPT !.base = mission[Mine(c)]])
  <2>1. PICK t : t = [task[c] EXCEPT !.base = mission[Mine(c)]]
    OBVIOUS
  <2>2. t.mission = Mine(c) /\ t.base = mission[Mine(c)]
    BY <2>1, TaskFacts DEF Task
  <2>3. ASSUME TargetOpen, t.base.status # "APPROVED" PROVE BsOf(t.mission) = {}
    <3>1. t.base.status \notin Settled
      BY <1>3, <2>2, <2>3, SettledFacts DEF PastExpected, TargetOpen
    <3>2. QED
      BY <1>1, <2>2, <3>1, ReadIsSafe
  <2>4. t.base.status = "APPROVED" => Ready(t.mission, t.base)
    BY <1>1, <2>2, ReadIsSafe
  <2>5. Backed("gates", t)
    BY <2>3, <2>4 DEF Backed, NoneYet
  <2>6. QED
    BY <1>1, <1>3, <2>1, <2>5, ReadsOn
<1>4. CASE Throw(c)
  BY <1>1, <1>4, ThrowsOn
<1>5. QED
  BY <1>2, <1>3, <1>4 DEF Verify

LEMMA ReconcileSeals ==
  ASSUME SingleComposer, TypeInv, ApprovalInv, NEW c \in Composer, Reconcile(c)
  PROVE  ApprovalInv'
<1>1. /\ UNCHANGED <<mission, idem, candidates, approved>>
      /\ pc[c] = "reconcile" /\ ~Writing(pc[c], task[c])
  BY DEF Reconcile, Writing
<1>2. CASE /\ mission[Mine(c)].status = "UNKNOWN"
           /\ Goto(c, "resolver", [task[c] EXCEPT !.base = mission[Mine(c)]])
  <2>1. PICK t : t = [task[c] EXCEPT !.base = mission[Mine(c)]]
    OBVIOUS
  <2>2. mission[t.mission].status = "UNKNOWN"
    BY <1>2, <2>1, TaskFacts DEF Task
  <2>3. Backed("resolver", t)
    BY DEF Backed
  <2>4. Goto(c, "resolver", t)
    BY <1>2, <2>1
  <2>5. QED
    BY <1>1, <2>2, <2>3, <2>4, ReadsOn
<1>3. CASE Throw(c)
  BY <1>1, <1>3, ThrowsOn
<1>4. QED
  BY <1>2, <1>3 DEF Reconcile

LEMMA GatesSeals ==
  ASSUME SingleComposer, TypeInv, ApprovalInv, NEW c \in Composer,
         NEW allowed \in BOOLEAN, Gates(c, allowed)
  PROVE  ApprovalInv'
<1>1. /\ UNCHANGED <<mission, idem, candidates, approved>>
      /\ pc[c] = "gates" /\ ~Writing(pc[c], task[c])
  BY DEF Gates, Writing
<1>2. PICK t : t = [task[c] EXCEPT !.gated = task[c].base]
  OBVIOUS
<1>3. t \in Task /\ t.mission = task[c].mission /\ t.base = task[c].base
  BY <1>2, TaskFacts DEF Task
<1>4. Backed("gates", task[c])
  BY <1>1 DEF ApprovalInv
<1>5. CASE task[c].base.status = "APPROVED" /\ Goto(c, "materialize", t)
  <2>1. Backed("materialize", t)
    BY <1>3, <1>4, <1>5 DEF Backed
  <2>2. QED
    BY <1>1, <1>5, <2>1, ReadsOn
<1>6. CASE /\ task[c].base.status # "APPROVED"
           /\ \E r \in {Drive, Approve} : Goto(c, "lookup", [t EXCEPT !.role = r])
  <2>1. PICK r \in {Drive, Approve} : Goto(c, "lookup", [t EXCEPT !.role = r])
    BY <1>6
  <2>2. PICK u : u = [t EXCEPT !.role = r]
    OBVIOUS
  <2>3. u.mission = task[c].mission
    BY <1>3, <2>2 DEF Task
  <2>4. Backed("lookup", u)
    BY <1>4, <1>6, <2>3 DEF Backed
  <2>5. QED
    BY <1>1, <2>1, <2>2, <2>4, ReadsOn
<1>7. CASE Throw(c)
  BY <1>1, <1>7, ThrowsOn
<1>8. QED
  BY <1>2, <1>5, <1>6, <1>7 DEF Gates

LEMMA ReadBackSeals ==
  ASSUME SingleComposer, TypeInv, ApprovalInv, NEW c \in Composer, ReadBack(c)
  PROVE  ApprovalInv'
<1>1. /\ UNCHANGED <<mission, idem, candidates, approved>>
      /\ pc[c] = "readback" /\ ~Writing(pc[c], task[c])
  BY DEF ReadBack, Writing
<1>2. PICK t : t = [task[c] EXCEPT !.base = mission[Mine(c)]]
  OBVIOUS
<1>3. t.mission = task[c].mission /\ t.base = mission[t.mission]
  BY <1>2, TaskFacts DEF Task
<1>4. Backed("readback", task[c])
  BY <1>1 DEF ApprovalInv
<1>5. Ready(t.mission, t.base)
  BY <1>3, <1>4 DEF Backed, Ready, Tracks, NoneYet
<1>6. Backed("materialize", t)
  BY <1>5 DEF Backed
<1>7. Goto(c, "materialize", t)
  BY <1>2 DEF ReadBack
<1>8. QED
  BY <1>1, <1>6, <1>7, ReadsOn

LEMMA RetrySeals ==
  ASSUME SingleComposer, TypeInv, ApprovalInv, NEW c \in Composer,
         NEW m \in Mission, Retry(c, m)
  PROVE  ApprovalInv'
<1>1. /\ UNCHANGED <<mission, idem, candidates, approved>>
      /\ pc[c] \in {"idle", "dead"} /\ ~Writing(pc[c], task[c])
  BY DEF Retry, Writing, Resting
<1>2. PICK t : t = [NoTask EXCEPT !.mission = m, !.retry = TRUE]
  OBVIOUS
<1>3. t.role = 1
  BY <1>2 DEF NoTask
<1>4. Backed("lookup", t)
  BY <1>3, RoleFacts DEF Backed
<1>5. Goto(c, "lookup", t)
  BY <1>2 DEF Retry
<1>6. QED
  BY <1>1, <1>4, <1>5, ReadsOn

\* A composition that dies with nothing claimed leaves only what it wrote.
LEMMA CrashSeals ==
  ASSUME CrashesBetweenCalls, SingleComposer, TypeInv, ApprovalInv,
         NEW c \in Composer, Crash(c)
  PROVE  ApprovalInv'
<1>1. /\ UNCHANGED <<mission, idem, candidates, approved>>
      /\ ~Writing(pc[c], task[c]) /\ Goto(c, "dead", NoTask)
  BY DEF Crash, CrashesBetweenCalls, Writing
<1>2. QED
  BY <1>1, RestIsBacked, ReadsOn

\* An apply that approves seals its mission, and no apply unseals one.
LEMMA CommitSeals ==
  ASSUME SingleComposer, TypeInv, ApprovalInv, NEW c \in Composer, Commit(c)
  PROVE  ApprovalInv'
<1>1. UNCHANGED <<idem, candidates>> /\ pc[c] = "commit" /\ Goto(c, "complete", task[c])
  BY DEF Commit
<1>2. /\ Mine(c) \in Mission /\ Mine(c) = task[c].mission /\ CallOf(c) = task[c].role
      /\ task[c].base \in State /\ task[c].base.status \in Status
      /\ mission \in [Mission -> State]
  BY <1>1, TaskFacts DEF Reading, TypeInv, TypeOK
<1>3. PICK m \in Mission, status \in Targets(CallOf(c), task[c].base) :
        /\ m = Mine(c)
        /\ mission' = [mission EXCEPT ![m] = Moved(task[c].base, status)]
        /\ approved' = approved \union {n \in {m} : status = "APPROVED"}
  BY <1>2 DEF Commit
<1>4. mission'[m].status = status /\ \A n \in Mission \ {m} : mission'[n] = mission[n]
  BY <1>2, <1>3 DEF Moved
<1>5. pc'[c] = "complete" /\ task'[c] = task[c] /\ \A d \in Composer : d = c
  BY <1>1, Alone
<1>6. \A n \in Mission : \A d \in Composer : ~Unsealing(pc'[d], task'[d], n)
  BY <1>5 DEF Unsealing
<1>7. SealsStand
  <2>1. ASSUME NEW n \in Mission, Sealed(n)
        PROVE  mission'[n] = mission[n] \/ mission'[n].status \in Terminal
    <3>1. CASE n = m
      <4>1. task[c].base.status \in Settled
        BY <1>1, <1>2, <1>3, <2>1, <3>1 DEF Sealed, Unsealing
      <4>2. status \in Terminal
        BY <1>3, <4>1, SettledFacts DEF Targets
      <4>3. QED
        BY <1>4, <3>1, <4>2
    <3>2. QED
      BY <1>4, <3>1
  <2>2. ASSUME NEW n \in Mission, Sealed(n)
        PROVE  Sealed(n)' /\ \A s : Tracks(s, n) => Tracks(s, n)'
    BY <1>3, <1>6, <2>1, <2>2, SealStands
  <2>3. QED
    BY <2>2 DEF SealsStand
<1>8. KnownApproved'
  BY <1>3, <1>4 DEF ApprovalInv, KnownApproved
<1>9. ASSUME task[c].role = Approve PROVE Sealed(m)'
  <2>1. status = "APPROVED"
    BY <1>2, <1>3, <1>9 DEF Targets
  <2>2. m \in approved' /\ mission'[m].status \in Settled
    BY <1>3, <1>4, <2>1, SettledFacts
  <2>3. QED
    BY <1>6, <2>2 DEF Sealed
<1>10. GrantStands'
  <2>1. PICK n : n = idem[Approve].mission
    OBVIOUS
  <2>2. ASSUME Granted' PROVE Sealed(n)'
    <3>1. CASE task[c].role = Approve
      <4>1. n = m
        BY <1>1, <1>2, <1>3, <2>1, <3>1 DEF ApprovalInv, Keyed
      <4>2. QED
        BY <1>9, <3>1, <4>1
    <3>2. CASE task[c].role # Approve
      <4>1. Granted
        BY <1>1, <1>5, <2>2, <3>2 DEF Granted, Writing
      <4>2. Sealed(n)
        BY <2>1, <4>1 DEF ApprovalInv, GrantStands
      <4>3. n \in Mission
        BY <4>2 DEF Sealed, TypeInv, TypeOK
      <4>4. QED
        BY <1>7, <4>2, <4>3 DEF SealsStand
    <3>3. QED
      BY <3>1, <3>2
  <2>3. QED
    BY <1>1, <2>1, <2>2 DEF GrantStands, Sealed
<1>11. \A d \in Composer : Keyed(pc[d], task[d])' /\ Backed(pc[d], task[d])'
  <2>1. PICK t : t = task[c]
    OBVIOUS
  <2>2. Keyed("commit", t) /\ Backed("commit", t) /\ t.mission = m
    BY <1>1, <1>2, <1>3, <2>1 DEF ApprovalInv
  <2>3. Keyed("complete", t)'
    BY <1>1, <2>2 DEF Keyed
  <2>4. t.role = Approve => Sealed(t.mission)'
    BY <1>9, <2>1, <2>2 DEF Sealed
  <2>5. t.role \in {Drive, Approve} => NoneYet(t.mission)'
    BY <1>1, <2>2 DEF Backed, NoneYet, BsOf
  <2>6. Backed("complete", t)'
    BY <2>4, <2>5 DEF Backed
  <2>7. pc'[c] = "complete" /\ task'[c] = t
    BY <1>5, <2>1
  <2>8. Keyed(pc[c], task[c])' /\ Backed(pc[c], task[c])'
    BY <2>3, <2>6, <2>7 DEF Keyed, Backed
  <2>9. QED
    BY <1>5, <2>8
<1>12. BsStand' /\ OneB'
  BY <1>1, <1>7, BsKeep DEF ApprovalInv
<1>13. QED
  BY <1>8, <1>10, <1>11, <1>12 DEF ApprovalInv

\* A mission that is not sealed is started, or taken back to RUNNING.
LEMMA WritesOn ==
  ASSUME SingleComposer, TypeInv, ApprovalInv, NEW c \in Composer, NEW p, NEW t,
         Goto(c, p, t), UNCHANGED <<idem, candidates, approved>>,
         NEW m \in Mission, ~Sealed(m), NEW s, s.status # "APPROVED",
         mission' = [mission EXCEPT ![m] = s],
         p \notin {"commit", "complete", "fail", "resolver"},
         ~Writing(pc[c], task[c]), Backed(p, t)
  PROVE  ApprovalInv'
<1>1. pc'[c] = p /\ task'[c] = t /\ \A d \in Composer : d = c
  BY Alone
<1>2. mission'[m] = s /\ \A n \in Mission \ {m} : mission'[n] = mission[n]
  BY DEF TypeInv, TypeOK
<1>3. ASSUME NEW n \in Mission, Sealed(n)
      PROVE  Sealed(n)' /\ \A v : Tracks(v, n) => Tracks(v, n)'
  <2>1. n # m
    BY <1>3
  <2>2. mission'[n] = mission[n]
    BY <1>2, <2>1
  <2>3. \A d \in Composer : ~Unsealing(pc'[d], task'[d], n)
    BY <1>1 DEF Unsealing
  <2>4. QED
    BY <1>3, <2>2, <2>3, SealStands
<1>4. SealsStand
  BY <1>3 DEF SealsStand
<1>5. KnownApproved'
  BY <1>2 DEF ApprovalInv, KnownApproved
<1>6. GrantStands'
  <2>1. PICK n : n = idem[Approve].mission
    OBVIOUS
  <2>2. ASSUME Granted' PROVE Sealed(n)'
    <3>1. Granted
      BY <1>1, <2>2 DEF Granted
    <3>2. Sealed(n)
      BY <2>1, <3>1 DEF ApprovalInv, GrantStands
    <3>3. n \in Mission
      BY <3>2 DEF Sealed, TypeInv, TypeOK
    <3>4. QED
      BY <1>3, <3>2, <3>3
  <2>3. QED
    BY <2>1, <2>2 DEF GrantStands, Sealed
<1>7. BsStand' /\ OneB'
  BY <1>4, BsKeep DEF ApprovalInv
<1>8. Backed(p, t)' /\ Keyed(p, t)'
  BY <1>4, BackedStands DEF Keyed
<1>9. \A d \in Composer : Keyed(pc[d], task[d])' /\ Backed(pc[d], task[d])'
  BY <1>1, <1>8 DEF Keyed, Backed
<1>10. QED
  BY <1>5, <1>6, <1>7, <1>9 DEF ApprovalInv

LEMMA ComposeSeals ==
  ASSUME SingleComposer, TypeInv, ApprovalInv, NEW c \in Composer, Compose(c)
  PROVE  ApprovalInv'
<1>1. PICK m \in Mission, s \in {[status |-> "DRAFT", version |-> 1]} :
         /\ mission[m] = NotStarted /\ mission' = [mission EXCEPT ![m] = s]
         /\ Goto(c, "lookup", [NoTask EXCEPT !.mission = m])
  BY DEF Compose
<1>2. /\ UNCHANGED <<idem, candidates, approved>>
      /\ pc[c] \in {"idle", "dead"} /\ ~Writing(pc[c], task[c])
  BY DEF Compose, Writing, Resting
<1>3. PICK t : t = [NoTask EXCEPT !.mission = m]
  OBVIOUS
<1>4. t.role = 1
  BY <1>3 DEF NoTask
<1>5. Backed("lookup", t)
  BY <1>4, RoleFacts DEF Backed
<1>6. ~Sealed(m) /\ s.status # "APPROVED"
  BY <1>1, SettledFacts DEF Sealed, NotStarted
<1>7. Goto(c, "lookup", t)
  BY <1>1, <1>3
<1>8. QED
  BY <1>1, <1>2, <1>5, <1>6, <1>7, WritesOn

LEMMA ResolverSeals ==
  ASSUME SingleComposer, TypeInv, ApprovalInv, NEW c \in Composer,
         NEW outcome \in Outcome, ResolverAnswers(c, outcome)
  PROVE  ApprovalInv'
<1>1. /\ UNCHANGED <<idem, candidates, approved>>
      /\ pc[c] = "resolver" /\ ~Writing(pc[c], task[c])
  BY DEF ResolverAnswers, Writing
<1>2. PICK m \in Mission, s \in {Moved(task[c].base, "RUNNING")} : m = Mine(c)
  BY <1>1, TaskFacts
<1>3. s.status = "RUNNING" /\ m = task[c].mission
  BY <1>2, TaskFacts DEF Moved
<1>4. ~Sealed(m)
  BY <1>1, <1>3 DEF Sealed, Unsealing
<1>5. NoneYet(m)
  BY <1>4 DEF NoneYet, BsOf, ApprovalInv, BsStand
<1>6. PICK t : t = [task[c] EXCEPT !.base = s]
  OBVIOUS
<1>7. t.mission = m /\ t.base = s
  BY <1>3, <1>6, TaskFacts DEF Task
<1>8. Backed("gates", t)
  BY <1>3, <1>5, <1>7 DEF Backed
<1>9. \/ Throw(c) /\ UNCHANGED mission
      \/ /\ mission' = [mission EXCEPT ![m] = s]
         /\ Goto(c, "idle", NoTask) \/ Goto(c, "gates", t)
  BY <1>2, <1>6 DEF ResolverAnswers, Throw, Goto
<1>10. CASE Throw(c) /\ UNCHANGED mission
  BY <1>1, <1>10, ThrowsOn
<1>11. CASE mission' = [mission EXCEPT ![m] = s] /\ Goto(c, "idle", NoTask)
  BY <1>1, <1>3, <1>4, <1>11, RestIsBacked, WritesOn
<1>12. CASE mission' = [mission EXCEPT ![m] = s] /\ Goto(c, "gates", t)
  BY <1>1, <1>3, <1>4, <1>8, <1>12, WritesOn
<1>13. QED
  BY <1>9, <1>10, <1>11, <1>12

\* The candidate B materialized is the one every earlier attempt materialized.
LEMMA MaterializeSeals ==
  ASSUME SingleComposer, TypeInv, ApprovalInv, NEW c \in Composer, Materialize(c)
  PROVE  ApprovalInv'
<1>1. /\ UNCHANGED <<mission, idem, approved>>
      /\ pc[c] = "materialize" /\ Goto(c, "idle", NoTask)
      /\ candidates' = candidates \union {CandidateB(Mine(c), task[c].base)}
  BY DEF Materialize, Throw, Goto
<1>2. PICK m \in Mission, s \in State : m = Mine(c) /\ s = task[c].base
  BY <1>1, TaskFacts
<1>3. Ready(m, s)
  BY <1>1, <1>2, TaskFacts DEF ApprovalInv, Backed
<1>4. PICK b : b = CandidateB(m, s)
  OBVIOUS
<1>5. b.mission = m /\ Kept(b) = s /\ candidates' = candidates \union {b}
  BY <1>1, <1>2, <1>4 DEF CandidateB, Kept, State
<1>6. pc'[c] = "idle" /\ task'[c] = NoTask /\ \A d \in Composer : d = c
  BY <1>1, Alone
<1>7. ASSUME NEW n, Sealed(n)
      PROVE  Sealed(n)'
  BY <1>1, <1>6, <1>7 DEF Sealed, Unsealing
<1>8. ASSUME NEW a \in candidates'
      PROVE  Sealed(a.mission)' /\ Tracks(Kept(a), a.mission)'
  <2>1. Sealed(a.mission) /\ Tracks(Kept(a), a.mission)
    BY <1>3, <1>5, <1>8 DEF Ready, ApprovalInv, BsStand
  <2>2. QED
    BY <1>1, <1>7, <2>1 DEF Tracks
<1>9. OneB'
  <2>1. ASSUME TargetOpen, NEW a \in candidates, a.mission = m PROVE a = b
    BY <1>3, <1>4, <2>1 DEF Ready, BsOf
  <2>2. QED
    BY <1>5, <2>1 DEF ApprovalInv, OneB
<1>10. KnownApproved'
  BY <1>1 DEF ApprovalInv, KnownApproved
<1>11. GrantStands'
  <2>1. Granted' => Granted
    BY <1>1, <1>6 DEF Granted, Writing
  <2>2. PICK n : n = idem[Approve].mission
    OBVIOUS
  <2>3. Granted' => Sealed(n)'
    BY <1>7, <2>1, <2>2 DEF ApprovalInv, GrantStands
  <2>4. QED
    BY <1>1, <2>2, <2>3 DEF GrantStands, Sealed
<1>12. \A d \in Composer : Keyed(pc[d], task[d])' /\ Backed(pc[d], task[d])'
  BY <1>6 DEF Keyed, Backed
<1>13. QED
  BY <1>8, <1>9, <1>10, <1>11, <1>12 DEF ApprovalInv, BsStand

LEMMA ComposerSeals ==
  ASSUME CrashesBetweenCalls, SingleComposer, TypeInv, ApprovalInv, NEW c \in Composer,
         \/ Compose(c) \/ Step(c) \/ Crash(c)
         \/ \E m \in Mission : Retry(c, m)
  PROVE  ApprovalInv'
<1>1. CASE Step(c)
  BY <1>1, LookupSeals, ClaimSeals, CommitSeals, CompleteSeals, FailSeals,
     VerifySeals, ReconcileSeals, ResolverSeals, GatesSeals, ReadBackSeals,
     MaterializeSeals DEF Step
<1>2. QED
  BY <1>1, ComposeSeals, CrashSeals, RetrySeals

-----------------------------------------------------------------------------
(* Everybody else *)

\* Nobody else comes or goes: what they write seals no less.
LEMMA OthersSeal ==
  ASSUME TypeInv, ApprovalInv, UNCHANGED <<pc, task, candidates>>,
         approved \subseteq approved', KnownApproved',
         \A m \in Mission : mission[m].status \in Settled =>
            mission'[m] = mission[m] \/ mission'[m].status \in Terminal,
         \/ idem'[Approve] = idem[Approve]
         \/ /\ idem'[Approve].status = "FREE"
            /\ \A c \in Composer : pc[c] \in {"commit", "complete", "fail"} => CallOf(c) # Approve
  PROVE  ApprovalInv'
<1>1. ASSUME NEW m \in Mission, Sealed(m)
      PROVE  Sealed(m)' /\ \A s : Tracks(s, m) => Tracks(s, m)'
  <2>1. mission'[m] = mission[m] \/ mission'[m].status \in Terminal
    BY <1>1 DEF Sealed
  <2>2. \A c \in Composer : ~Unsealing(pc'[c], task'[c], m)
    BY <1>1 DEF Sealed
  <2>3. QED
    BY <1>1, <2>1, <2>2, SealStands
<1>2. SealsStand
  BY <1>1 DEF SealsStand
<1>3. GrantStands'
  <2>1. PICK n : n = idem'[Approve].mission
    OBVIOUS
  <2>2. ASSUME Granted' PROVE Sealed(n)'
    <3>1. idem'[Approve] = idem[Approve]
      BY <2>2 DEF Granted
    <3>2. Granted
      BY <2>2, <3>1 DEF Granted
    <3>3. Sealed(n)
      BY <2>1, <3>1, <3>2 DEF ApprovalInv, GrantStands
    <3>4. n \in Mission
      BY <3>3 DEF Sealed, TypeInv, TypeOK
    <3>5. QED
      BY <1>1, <3>3, <3>4
  <2>3. QED
    BY <2>1, <2>2 DEF GrantStands, Sealed
<1>4. BsStand' /\ OneB'
  BY <1>2, BsKeep DEF ApprovalInv
<1>5. ASSUME NEW c \in Composer
      PROVE  Keyed(pc[c], task[c])' /\ Backed(pc[c], task[c])'
  <2>1. PICK p, t : p = pc[c] /\ t = task[c]
    OBVIOUS
  <2>2. Keyed(p, t) /\ Backed(p, t)
    BY <2>1 DEF ApprovalInv
  <2>3. Backed(p, t)'
    BY <1>2, <2>2, BackedStands
  <2>4. Keyed(p, t)'
    BY <2>1, <2>2 DEF Keyed, CallOf
  <2>5. pc'[c] = p /\ task'[c] = t
    BY <2>1
  <2>6. QED
    BY <2>3, <2>4, <2>5 DEF Keyed, Backed
<1>6. QED
  BY <1>3, <1>4, <1>5 DEF ApprovalInv

LEMMA RecoverSeals ==
  ASSUME TypeInv, ApprovalInv, NEW m \in Mission, Recover(m)
  PROVE  ApprovalInv'
<1>1. /\ UNCHANGED <<idem, pc, task, candidates, approved>>
      /\ mission[m].status = "RUNNING"
      /\ mission' = [mission EXCEPT ![m] = Moved(mission[m], "UNKNOWN")]
  BY DEF Recover
<1>2. /\ mission'[m].status = "UNKNOWN"
      /\ \A n \in Mission \ {m} : mission'[n] = mission[n]
  BY <1>1 DEF TypeInv, TypeOK, Moved
<1>3. KnownApproved'
  BY <1>1, <1>2 DEF ApprovalInv, KnownApproved
<1>4. \A n \in Mission : mission[n].status \in Settled => mission'[n] = mission[n]
  BY <1>1, <1>2, SettledFacts
<1>5. QED
  BY <1>1, <1>3, <1>4, OthersSeal

LEMMA ClientSeals ==
  ASSUME TypeInv, ApprovalInv, NEW m \in Mission, Client(m)
  PROVE  ApprovalInv'
<1>1. UNCHANGED <<idem, pc, task, candidates>>
  BY DEF Client
<1>2. PICK status \in ValidTransitions[mission[m].status] :
         /\ mission' = [mission EXCEPT ![m] = Moved(mission[m], status)]
         /\ approved' = approved \union {n \in {m} : status = "APPROVED"}
  BY DEF Client
<1>3. /\ mission'[m].status = status
      /\ \A n \in Mission \ {m} : mission'[n] = mission[n]
  BY <1>2 DEF TypeInv, TypeOK, Moved
<1>4. KnownApproved' /\ approved \subseteq approved'
  BY <1>2, <1>3 DEF ApprovalInv, KnownApproved
<1>5. mission[m].status \in Settled => mission'[m].status \in Terminal
  BY <1>2, <1>3, SettledFacts
<1>6. \A n \in Mission : mission[n].status \in Settled =>
        mission'[n] = mission[n] \/ mission'[n].status \in Terminal
  BY <1>3, <1>5
<1>7. QED
  BY <1>1, <1>4, <1>6, OthersSeal

\* A key expires while nobody is about to write under it.
LEMMA ExpireSeals ==
  ASSUME TypeInv, ApprovalInv, NEW r \in Role, Expire(r)
  PROVE  ApprovalInv'
<1>1. /\ UNCHANGED <<mission, pc, task, candidates, approved>>
      /\ \A c \in Composer : ~(pc[c] \in {"commit", "complete", "fail"} /\ CallOf(c) = r)
      /\ idem' = [idem EXCEPT ![r] = FreeKey]
  BY DEF Expire
<1>2. idem \in [Role -> KeyRecord] /\ Approve \in Role
  BY RoleFacts DEF TypeInv, TypeOK
<1>3. CASE r = Approve
  <2>1. idem'[Approve].status = "FREE"
    BY <1>1, <1>2, <1>3 DEF FreeKey
  <2>2. KnownApproved'
    BY <1>1 DEF ApprovalInv, KnownApproved
  <2>3. QED
    BY <1>1, <1>3, <2>1, <2>2, OthersSeal
<1>4. CASE r # Approve
  <2>1. idem'[Approve] = idem[Approve]
    BY <1>1, <1>2, <1>4
  <2>2. KnownApproved'
    BY <1>1 DEF ApprovalInv, KnownApproved
  <2>3. QED
    BY <1>1, <2>1, <2>2, OthersSeal
<1>5. QED
  BY <1>3, <1>4

LEMMA ApprovalInit == Init => ApprovalInv
<1> SUFFICES ASSUME Init PROVE ApprovalInv
  OBVIOUS
<1>1. ~Granted
  BY RoleFacts DEF Init, Granted, FreeKey
<1>2. QED
  BY <1>1 DEF Init, ApprovalInv, KnownApproved, GrantStands, BsStand, OneB, Keyed,
     Backed, NotStarted

LEMMA ApprovalStep ==
  ASSUME CrashesBetweenCalls, SingleComposer, TypeInv, ApprovalInv, [Next]_vars
  PROVE  ApprovalInv'
<1>1. CASE UNCHANGED vars
  <2>1. KnownApproved'
    BY <1>1 DEF vars, ApprovalInv, KnownApproved
  <2>2. QED
    BY <1>1, <2>1, OthersSeal DEF vars
<1>2. QED
  BY <1>1, ComposerSeals, RecoverSeals, ClientSeals, ExpireSeals DEF Next

LEMMA ApprovalInvariant ==
  ASSUME CrashesBetweenCalls, SingleComposer
  PROVE  Spec => []ApprovalInv
<1>1. TypeInv /\ ApprovalInv /\ [Next]_vars => ApprovalInv'
  BY ApprovalStep
<1>2. QED
  BY <1>1, ApprovalInit, TypeInvariant, PTL DEF Spec

\* With one composition at a time every candidate B belongs to a mission that
\* was approved, for every handler, input and number of steps, through clients,
\* restarts, expiring keys and crashes between calls: what the composer takes
\* for its own approval is one. A crash between the claim of the approval's key
\* and its write leaves a key that is not, and the run cdr_unapproved a
\* candidate B without an approval.
THEOREM ApprovalComesFirst ==
  ASSUME CrashesBetweenCalls, SingleComposer
  PROVE  Spec => []MissionApprovedFirst
<1>1. ApprovalInv => MissionApprovedFirst
  BY DEF ApprovalInv, BsStand, Sealed, MissionApprovedFirst
<1>2. QED
  BY <1>1, ApprovalInvariant, PTL

\* And an operation has at most one candidate B until a key expires, for every
\* handler and every input that does not ask for a mission that is over: what
\* was approved stays approved until the mission ends, and the snapshot a later
\* attempt reads of it is the one an earlier attempt materialized.
THEOREM OneSuccessor ==
  ASSUME CrashesBetweenCalls, SingleComposer, TargetOpen
  PROVE  Spec => []SuccessorIsUnique
<1>1. OneInv /\ ApprovalInv => SuccessorIsUnique
  BY DEF OneInv, ApprovalInv, OneB, Owned, SuccessorIsUnique
<1>2. TypeInv /\ OneInv /\ [Next]_vars => OneInv'
  BY OneStep
<1>3. Spec => []OneInv
  BY <1>2, OneInit, TypeInvariant, PTL DEF Spec
<1>4. QED
  BY <1>1, <1>3, ApprovalInvariant, PTL

-----------------------------------------------------------------------------
(* What is approved is what the gates saw *)

\* Mission m has reached version k, and with that very version a status of the path.
Reached(path, m, k) ==
  /\ k <= mission[m].version
  /\ mission[m].version = k => mission[m].status \in path[k]

\* The key of call r says that it has taken effect on m: nobody holds it unwritten.
Done(r, m) ==
  /\ idem[r].mission = m /\ idem[r].status \in {"EXECUTING", "COMPLETED"}
  /\ \A c \in Composer : ~(pc[c] \in {"commit", "fail"} /\ CallOf(c) = r)

\* What a composition at place p with task t holds or has been told.
Held(p, t) ==
  p \in {"commit", "complete", "fail"} =>
    idem[t.role].mission = t.mission /\ idem[t.role].status = "EXECUTING"

\* An execute step starts where the ones before it have led, and none after it is done.
Executes(path, p, t) ==
  /\ p \in {"lookup", "claim"} /\ t.role <= Steps => Reached(path, t.mission, t.role)
  /\ p = "commit" /\ t.role <= Steps =>
       /\ t.base.version = t.role /\ t.base.status \in path[t.role]
       /\ \A r \in t.role..Steps : ~Done(r, t.mission)
  /\ p \in {"verify", "reconcile"} => Reached(path, t.mission, Steps + 1)
  /\ p = "resolver" => Steps + 1 <= t.base.version

\* What the gates see is past the reconciliation, and the mission does not go back.
Gated(p, t) ==
  /\ p = "gates" =>
       Steps + 2 <= t.base.version /\ t.base.version <= mission[t.mission].version
  /\ p \in {"lookup", "claim", "commit", "complete"} /\ t.role > Steps =>
       Steps + 2 <= t.gated.version /\ t.gated.version <= mission[t.mission].version
  /\ p = "commit" /\ t.role > Steps =>
       t.base.version = t.role + 1 /\ t.gated.version <= t.base.version

PathInv(path) ==
  /\ \A m \in Mission : mission[m] # NotStarted => Reached(path, m, 1)
  /\ \A m \in Mission, r \in 1..Steps : Done(r, m) => Reached(path, m, r + 1)
  /\ \A c \in Composer :
       /\ Held(pc[c], task[c]) /\ Executes(path, pc[c], task[c]) /\ Gated(pc[c], task[c])

LEMMA PathFacts ==
  ASSUME NEW path, StepsLead(path)
  PROVE  /\ "DRAFT" \in path[1]
         /\ \A i \in 1..Steps, s \in State :
              s.version = i /\ s.status \in path[i] => Targets(i, s) \subseteq path[i + 1]
         /\ path[Steps + 1] \intersect PastExpected \subseteq {"UNKNOWN"}
<1>1. ASSUME NEW i \in 1..Steps, NEW s \in State, s.version = i, s.status \in path[i]
      PROVE  Targets(i, s) \subseteq path[i + 1]
  <2>1. s \in [status : path[i], version : {i}]
    BY <1>1 DEF State
  <2>2. QED
    BY <2>1 DEF StepsLead
<1>2. QED
  BY <1>1 DEF StepsLead

\* A call expects the version of its step, or the second and third after them.
LEMMA Expects ==
  ASSUME NEW r \in Role
  PROVE  /\ r \in Nat /\ Steps \in Nat \ {0}
         /\ r <= Steps => r \in 1..Steps /\ ExpectedVersion(r) = r
         /\ r > Steps => r \in {Drive, Approve} /\ ExpectedVersion(r) = r + 1
BY CdrAssumption DEF Role, Drive, Approve, ExpectedVersion

\* A mission left alone or moved on has reached what it had reached.
Onward(m) == mission'[m] = mission[m] \/ mission[m].version < mission'[m].version

LEMMA ReachedStands ==
  ASSUME TypeInv, StoreKeeps, NEW path, NEW m \in Mission, Onward(m),
         NEW k \in Nat, Reached(path, m, k)
  PROVE  Reached(path, m, k)'
<1>1. mission[m].version \in Nat /\ mission'[m].version \in Nat
  BY DEF TypeInv, TypeOK, StoreKeeps, State
<1>2. QED
  BY <1>1 DEF Reached, Onward

\* What a composition relies on stands while missions move on and calls are not done.
LEMMA RelyStands ==
  ASSUME TypeInv, StoreKeeps, NEW path, \A m \in Mission : Onward(m),
         \A m \in Mission, r \in 1..Steps : Done(r, m)' => Done(r, m),
         NEW p, NEW t \in Task, p \notin Resting => t.mission \in Mission,
         Executes(path, p, t), Gated(p, t)
  PROVE  Executes(path, p, t)' /\ Gated(p, t)'
<1>1. /\ t.role \in Role /\ t.role \in Nat /\ Steps \in Nat
      /\ t.base.version \in Nat /\ t.gated.version \in Nat
  BY Expects, CdrAssumption DEF Task, State
<1>2. CASE p \in Resting
  BY <1>2 DEF Resting, Executes, Gated
<1>3. CASE p \notin Resting
  <2>1. /\ t.mission \in Mission
        /\ mission[t.mission].version \in Nat /\ mission'[t.mission].version \in Nat
    BY <1>3 DEF TypeInv, TypeOK, StoreKeeps, State
  <2>2. \A k \in Nat : Reached(path, t.mission, k) => Reached(path, t.mission, k)'
    BY <2>1, ReachedStands
  <2>3. mission[t.mission].version <= mission'[t.mission].version
    BY <2>1 DEF Onward
  <2>4. t.role <= Steps => t.role..Steps \subseteq 1..Steps
    BY <1>1 DEF Role
  <2>5. Executes(path, p, t)'
    BY <1>1, <2>1, <2>2, <2>4 DEF Executes
  <2>6. Gated(p, t)'
    BY <1>1, <2>1, <2>3 DEF Gated
  <2>7. QED
    BY <2>5, <2>6
<1>4. QED
  BY <1>2, <1>3

\* A step of one composition, by what it leaves of its mission, of the keys and of itself.
LEMMA PathStep ==
  ASSUME SingleComposer, TypeInv, NEW path, NEW c \in Composer, NEW p, NEW t, Goto(c, p, t),
         \A m \in Mission : mission'[m] # NotStarted => Reached(path, m, 1)',
         \A m \in Mission, r \in 1..Steps : Done(r, m)' => Reached(path, m, r + 1)',
         Held(p, t)', Executes(path, p, t)', Gated(p, t)'
  PROVE  PathInv(path)'
<1>1. pc'[c] = p /\ task'[c] = t /\ \A d \in Composer : d = c
  BY Alone
<1>2. ASSUME NEW d \in Composer
      PROVE  (Held(pc[d], task[d]) /\ Executes(path, pc[d], task[d]) /\ Gated(pc[d], task[d]))'
  BY <1>1 DEF Held, Executes, Gated, Reached, Done
<1>3. QED
  BY <1>2 DEF PathInv

\* One that writes no mission and takes no effect.
LEMMA PathStepQuiet ==
  ASSUME SingleComposer, TypeInv, NEW path, PathInv(path), NEW c \in Composer,
         NEW p, NEW t \in Task, p \notin Resting => t.mission \in Mission,
         Goto(c, p, t), UNCHANGED mission,
         \A m \in Mission, r \in 1..Steps : Done(r, m)' => Done(r, m),
         Held(p, t)', Executes(path, p, t), Gated(p, t)
  PROVE  PathInv(path)'
<1>1. StoreKeeps /\ \A m \in Mission : Onward(m)
  BY StutterKeeps DEF Onward
<1>2. Executes(path, p, t)' /\ Gated(p, t)'
  BY <1>1, RelyStands
<1>3. 1 \in Nat /\ \A r \in 1..Steps : r + 1 \in Nat
  BY CdrAssumption
<1>4. \A m \in Mission : mission'[m] # NotStarted => Reached(path, m, 1)'
  BY DEF PathInv, Reached
<1>5. \A m \in Mission, r \in 1..Steps : Done(r, m)' => Reached(path, m, r + 1)'
  BY DEF PathInv, Reached
<1>6. QED
  BY <1>2, <1>4, <1>5, PathStep

\* And that reads the keys, from a place where it holds none.
LEMMA PathStepReads ==
  ASSUME SingleComposer, TypeInv, NEW path, PathInv(path), NEW c \in Composer,
         NEW p, NEW t \in Task, p \notin Resting => t.mission \in Mission,
         Goto(c, p, t), UNCHANGED <<mission, idem>>, pc[c] \notin {"commit", "fail"},
         p \notin {"commit", "complete", "fail"}, Executes(path, p, t), Gated(p, t)
  PROVE  PathInv(path)'
<1>1. \A d \in Composer : d = c
  BY DEF SingleComposer
<1>2. \A m \in Mission, r \in 1..Steps : Done(r, m)' => Done(r, m)
  BY <1>1 DEF Done
<1>3. Held(p, t)'
  BY DEF Held
<1>4. QED
  BY <1>2, <1>3, PathStepQuiet

LEMMA RestRelies ==
  ASSUME NEW path, NEW p \in {"idle", "dead", "materialize", "readback"}, NEW t
  PROVE  Held(p, t) /\ Held(p, t)' /\ Executes(path, p, t) /\ Gated(p, t)
BY DEF Held, Executes, Gated

\* When apply has returned, the call taken for done leads to where the next starts.
LEMMA AnsweredRelies ==
  ASSUME TypeInv, NEW path, NEW c \in Composer, Answered(c),
         CallOf(c) <= Steps => Reached(path, Mine(c), CallOf(c) + 1),
         CallOf(c) > Steps => /\ Steps + 2 <= task[c].gated.version
                              /\ task[c].gated.version <= mission[Mine(c)].version
  PROVE  \E p \in {"lookup", "verify", "readback"}, t \in Task :
           /\ Goto(c, p, t) /\ t.mission = Mine(c)
           /\ Executes(path, p, t) /\ Gated(p, t)
<1>1. /\ task[c] \in Task /\ CallOf(c) = task[c].role /\ CallOf(c) \in Role
      /\ Mine(c) = task[c].mission
  BY TaskFacts
<1>2. /\ CallOf(c) \in Nat /\ Steps \in Nat /\ Steps # 0
      /\ Drive = Steps + 1 /\ Approve = Steps + 2
      /\ Drive \in Role /\ Approve \in Role
  BY <1>1, RoleFacts
<1>3. ASSUME NEW r \in Role, NEW t, t = [task[c] EXCEPT !.role = r]
      PROVE  t \in Task /\ t.role = r /\ t.mission = Mine(c) /\ t.gated = task[c].gated
  BY <1>1, <1>3 DEF Task
<1>4. CASE CallOf(c) < Steps
  <2>1. PICK t : t = [task[c] EXCEPT !.role = CallOf(c) + 1]
    OBVIOUS
  <2>2. Goto(c, "lookup", t)
    <3>1. [task[c] EXCEPT !.role = @ + 1] = t
      BY <1>1, <2>1
    <3>2. QED
      BY <1>2, <1>4, <3>1 DEF Answered
  <2>3. t \in Task /\ t.role = CallOf(c) + 1 /\ t.mission = Mine(c)
    BY <1>1, <1>3, <1>4, <2>1, RoleFacts
  <2>4. t.role <= Steps /\ ~(t.role > Steps)
    BY <1>2, <1>4, <2>3
  <2>5. Executes(path, "lookup", t) /\ Gated("lookup", t)
    BY <1>2, <1>4, <2>3, <2>4 DEF Executes, Gated
  <2>6. QED
    BY <2>2, <2>3, <2>5
<1>5. CASE CallOf(c) = Steps
  <2>1. Goto(c, "verify", task[c])
    BY <1>2, <1>5 DEF Answered
  <2>2. Executes(path, "verify", task[c]) /\ Gated("verify", task[c])
    BY <1>1, <1>2, <1>5 DEF Executes, Gated
  <2>3. QED
    BY <1>1, <2>1, <2>2
<1>6. CASE CallOf(c) = Drive
  <2>1. PICK t : t = [task[c] EXCEPT !.role = Approve]
    OBVIOUS
  <2>2. Goto(c, "lookup", t)
    BY <1>2, <1>6, <2>1 DEF Answered
  <2>3. t \in Task /\ t.role = Approve /\ t.mission = Mine(c) /\ t.gated = task[c].gated
    BY <1>2, <1>3, <2>1
  <2>4. CallOf(c) > Steps /\ t.role > Steps /\ ~(t.role <= Steps)
    BY <1>2, <1>6, <2>3
  <2>5. Executes(path, "lookup", t) /\ Gated("lookup", t)
    BY <2>3, <2>4 DEF Executes, Gated
  <2>6. QED
    BY <2>2, <2>3, <2>5
<1>7. CASE CallOf(c) = Approve
  <2>1. Goto(c, "readback", task[c])
    BY <1>2, <1>7 DEF Answered
  <2>2. QED
    BY <1>1, <2>1, RestRelies
<1>8. CallOf(c) < Steps \/ CallOf(c) = Steps \/ CallOf(c) = Drive \/ CallOf(c) = Approve
  BY <1>1, CdrAssumption DEF Role, Drive, Approve
<1>9. QED
  BY <1>4, <1>5, <1>6, <1>7, <1>8

LEMMA ThrowsPath ==
  ASSUME SingleComposer, TypeInv, NEW path, PathInv(path), NEW c \in Composer,
         Throw(c) \/ Goto(c, "dead", NoTask), UNCHANGED <<mission, idem>>,
         pc[c] \notin {"commit", "fail"}
  PROVE  PathInv(path)'
<1>1. PICK p \in {"idle", "dead"} : Goto(c, p, NoTask)
  BY DEF Throw, Goto
<1>2. p \in Resting /\ p \notin {"commit", "complete", "fail"}
  BY DEF Resting
<1>3. QED
  BY <1>1, <1>2, NoTaskType, RestRelies, PathStepReads

\* One lemma per action: each keeps the invariant.
LEMMA LookupPath ==
  ASSUME SingleComposer, TypeInv, NEW path, PathInv(path), NEW c \in Composer, Lookup(c)
  PROVE  PathInv(path)'
<1>1. /\ UNCHANGED <<mission, idem>> /\ pc[c] = "lookup"
      /\ pc[c] \notin {"commit", "fail"}
  BY DEF Lookup
<1>2. /\ task[c] \in Task /\ CallOf(c) = task[c].role /\ CallOf(c) \in Role
      /\ Mine(c) = task[c].mission /\ Mine(c) \in Mission
  BY <1>1, TaskFacts
<1>3. Executes(path, "lookup", task[c]) /\ Gated("lookup", task[c])
  BY <1>1 DEF PathInv
<1>4. CASE ~Visible(c) /\ Goto(c, "claim", task[c])
  <2>1. Executes(path, "claim", task[c]) /\ Gated("claim", task[c])
    BY <1>3 DEF Executes, Gated
  <2>2. QED
    BY <1>1, <1>2, <1>4, <2>1, PathStepReads
<1>5. CASE Visible(c) /\ SamePayload(c) /\ Replayed(c) /\ Answered(c)
  <2>1. ASSUME CallOf(c) <= Steps PROVE Reached(path, Mine(c), CallOf(c) + 1)
    <3>1. \A d \in Composer : d = c
      BY DEF SingleComposer
    <3>2. Done(CallOf(c), Mine(c))
      BY <1>1, <1>5, <3>1 DEF Done, SamePayload, Replayed
    <3>3. CallOf(c) \in 1..Steps
      BY <1>2, <2>1, Expects
    <3>4. QED
      BY <1>2, <3>2, <3>3 DEF PathInv
  <2>2. CallOf(c) > Steps => /\ Steps + 2 <= task[c].gated.version
                             /\ task[c].gated.version <= mission[Mine(c)].version
    BY <1>2, <1>3 DEF Gated
  <2>3. PICK p \in {"lookup", "verify", "readback"}, t \in Task :
          /\ Goto(c, p, t) /\ t.mission = Mine(c)
          /\ Executes(path, p, t) /\ Gated(p, t)
    BY <1>5, <2>1, <2>2, AnsweredRelies
  <2>4. QED
    BY <1>1, <1>2, <2>3, PathStepReads
<1>6. CASE Throw(c)
  BY <1>1, <1>6, ThrowsPath
<1>7. QED
  BY <1>4, <1>5, <1>6 DEF Lookup

\* The version compared and the status read at the claim are the step's own, and
\* a step that had been done would have left the mission further on.
LEMMA ClaimPath ==
  ASSUME SingleComposer, TypeInv, NEW path, PathInv(path), NEW c \in Composer, Claim(c)
  PROVE  PathInv(path)'
<1>1. /\ UNCHANGED mission /\ pc[c] = "claim"
      /\ idem' = [idem EXCEPT ![CallOf(c)] = [status |-> "EXECUTING", mission |-> Mine(c)]]
  BY DEF Claim
<1>2. PICK p \in {"commit", "fail"}, t \in {[task[c] EXCEPT !.base = mission[Mine(c)]]} :
        /\ Goto(c, p, t)
        /\ p = "commit" => VersionMatches(CallOf(c), mission[Mine(c)])
  BY DEF Claim
<1>3. /\ task[c] \in Task /\ CallOf(c) = task[c].role /\ CallOf(c) \in Role
      /\ Mine(c) = task[c].mission /\ Mine(c) \in Mission
      /\ mission[Mine(c)] \in State
  BY <1>1, TaskFacts
<1>4. /\ t \in Task /\ t.mission = Mine(c) /\ t.base = mission[Mine(c)]
      /\ t.role = CallOf(c) /\ t.gated = task[c].gated
  BY <1>2, <1>3 DEF Task
<1>5. idem \in [Role -> KeyRecord]
  BY DEF TypeInv, TypeOK
<1>6. Held(p, t)'
  BY <1>1, <1>3, <1>4, <1>5 DEF Held
<1>7. pc'[c] = p /\ task'[c] = t /\ \A d \in Composer : d = c
  BY <1>2, Alone
<1>8. ASSUME NEW m \in Mission, NEW r \in 1..Steps, Done(r, m)'
      PROVE  Done(r, m)
  <2>1. r # CallOf(c)
    BY <1>4, <1>7, <1>8 DEF Done, CallOf
  <2>2. idem'[r] = idem[r]
    <3>1. r \in Role
      BY CdrAssumption DEF Role, Approve
    <3>2. QED
      BY <1>1, <1>5, <2>1, <3>1
  <2>3. QED
    BY <1>1, <1>7, <1>8, <2>2 DEF Done
<1>9. Executes(path, "claim", task[c]) /\ Gated("claim", task[c])
  BY <1>1 DEF PathInv
<1>10. /\ t.role \in Nat /\ Steps \in Nat /\ mission[Mine(c)].version \in Nat
       /\ t.role <= Steps => t.role \in 1..Steps /\ ExpectedVersion(t.role) = t.role
       /\ t.role > Steps => ExpectedVersion(t.role) = t.role + 1
  BY <1>3, <1>4, Expects DEF State
<1>11. p = "commit" => t.base.version = ExpectedVersion(t.role)
  BY <1>2, <1>4 DEF VersionMatches
<1>12. Executes(path, p, t)
  <2>1. ASSUME p = "commit", t.role <= Steps
        PROVE  /\ t.base.version = t.role /\ t.base.status \in path[t.role]
               /\ \A r \in t.role..Steps : ~Done(r, t.mission)
    <3>1. t.base.version = t.role
      BY <1>10, <1>11, <2>1
    <3>2. Reached(path, t.mission, t.role)
      BY <1>3, <1>4, <1>9, <2>1 DEF Executes
    <3>3. t.base.status \in path[t.role]
      BY <1>4, <3>1, <3>2 DEF Reached
    <3>4. ASSUME NEW r \in t.role..Steps, Done(r, t.mission)
          PROVE  FALSE
      <4>1. r \in 1..Steps /\ r \in Nat /\ t.role <= r
        BY <1>10, <2>1
      <4>2. Reached(path, t.mission, r + 1)
        BY <1>3, <1>4, <3>4, <4>1 DEF PathInv
      <4>3. r + 1 <= mission[t.mission].version
        BY <4>2 DEF Reached
      <4>4. QED
        BY <1>4, <1>10, <3>1, <4>1, <4>3
    <3>5. QED
      BY <3>1, <3>3, <3>4
  <2>2. QED
    BY <1>2, <2>1 DEF Executes
<1>13. Gated(p, t)
  BY <1>2, <1>3, <1>4, <1>9, <1>10, <1>11 DEF Gated
<1>14. QED
  BY <1>1, <1>2, <1>3, <1>4, <1>6, <1>8, <1>12, <1>13, PathStepQuiet

LEMMA FinishedKey ==
  ASSUME SingleComposer, TypeInv, NEW path, PathInv(path), NEW c \in Composer,
         NEW status \in {"COMPLETED", "FAILED"}, NEW p \in Place, NEW t, Goto(c, p, t),
         idem' = [idem EXCEPT ![CallOf(c)].status = status],
         pc[c] = "complete" \/ (pc[c] = "fail" /\ status = "FAILED")
  PROVE  \A m \in Mission, r \in 1..Steps : Done(r, m)' => Done(r, m)
<1>1. pc'[c] = p /\ task'[c] = t /\ \A d \in Composer : d = c
  BY Alone
<1>2. idem \in [Role -> KeyRecord] /\ CallOf(c) \in Role /\ CallOf(c) = task[c].role
  BY TaskFacts DEF TypeInv, TypeOK
<1>3. Held(pc[c], task[c])
  BY DEF PathInv
<1>4. ASSUME NEW m \in Mission, NEW r \in 1..Steps, Done(r, m)'
      PROVE  Done(r, m)
  <2>1. r \in Role
    BY CdrAssumption DEF Role, Approve
  <2>2. CASE r = CallOf(c)
    <3>1. idem'[r].status = status /\ idem'[r].mission = idem[r].mission
      BY <1>2, <2>1, <2>2 DEF KeyRecord
    <3>2. pc[c] = "complete"
      BY <1>4, <3>1 DEF Done
    <3>3. idem[r].status = "EXECUTING"
      BY <1>2, <1>3, <2>2, <3>2 DEF Held
    <3>4. QED
      BY <1>1, <1>4, <3>1, <3>2, <3>3 DEF Done
  <2>3. CASE r # CallOf(c)
    <3>1. idem'[r] = idem[r]
      BY <1>2, <2>1, <2>3
    <3>2. QED
      BY <1>1, <1>4, <2>3, <3>1 DEF Done
  <2>4. QED
    BY <2>2, <2>3
<1>5. QED
  BY <1>4

LEMMA CompletePath ==
  ASSUME SingleComposer, TypeInv, NEW path, PathInv(path), NEW c \in Composer, Complete(c)
  PROVE  PathInv(path)'
<1>1. /\ UNCHANGED mission /\ pc[c] = "complete" /\ Answered(c)
      /\ idem' = [idem EXCEPT ![CallOf(c)].status = "COMPLETED"]
  BY DEF Complete
<1>2. /\ task[c] \in Task /\ CallOf(c) = task[c].role /\ CallOf(c) \in Role
      /\ Mine(c) = task[c].mission /\ Mine(c) \in Mission
  BY <1>1, TaskFacts
<1>3. Held("complete", task[c]) /\ Gated("complete", task[c])
  BY <1>1 DEF PathInv
<1>4. ASSUME CallOf(c) <= Steps PROVE Reached(path, Mine(c), CallOf(c) + 1)
  <2>1. \A d \in Composer : d = c
    BY DEF SingleComposer
  <2>2. Done(CallOf(c), Mine(c))
    BY <1>1, <1>2, <1>3, <2>1 DEF Done, Held
  <2>3. CallOf(c) \in 1..Steps
    BY <1>2, <1>4, Expects
  <2>4. QED
    BY <1>2, <2>2, <2>3 DEF PathInv
<1>5. CallOf(c) > Steps => /\ Steps + 2 <= task[c].gated.version
                           /\ task[c].gated.version <= mission[Mine(c)].version
  BY <1>2, <1>3 DEF Gated
<1>6. PICK p \in {"lookup", "verify", "readback"}, t \in Task :
        /\ Goto(c, p, t) /\ t.mission = Mine(c)
        /\ Executes(path, p, t) /\ Gated(p, t)
  BY <1>1, <1>4, <1>5, AnsweredRelies
<1>7. p \in Place /\ Held(p, t)'
  BY DEF Place, Held
<1>8. \A m \in Mission, r \in 1..Steps : Done(r, m)' => Done(r, m)
  BY <1>1, <1>6, <1>7, FinishedKey
<1>9. QED
  BY <1>1, <1>2, <1>6, <1>7, <1>8, PathStepQuiet

LEMMA FailPath ==
  ASSUME SingleComposer, TypeInv, NEW path, PathInv(path), NEW c \in Composer, Fail(c)
  PROVE  PathInv(path)'
<1>1. /\ UNCHANGED mission /\ pc[c] = "fail" /\ Goto(c, "idle", NoTask)
      /\ idem' = [idem EXCEPT ![CallOf(c)].status = "FAILED"]
  BY DEF Fail, Throw, Goto
<1>2. "idle" \in Place /\ "idle" \in Resting
  BY DEF Place, Resting
<1>3. \A m \in Mission, r \in 1..Steps : Done(r, m)' => Done(r, m)
  BY <1>1, <1>2, FinishedKey
<1>4. QED
  BY <1>1, <1>2, <1>3, NoTaskType, RestRelies, PathStepQuiet

\* A retry that passes over the reconciliation finds the mission past it.
LEMMA VerifyPath ==
  ASSUME SingleComposer, TypeInv, NEW path, StepsLead(path), PathInv(path),
         NEW c \in Composer, Verify(c)
  PROVE  PathInv(path)'
<1>1. /\ UNCHANGED <<mission, idem>> /\ pc[c] = "verify"
      /\ pc[c] \notin {"commit", "fail"}
  BY DEF Verify
<1>2. /\ task[c] \in Task /\ Mine(c) = task[c].mission /\ Mine(c) \in Mission
      /\ mission[Mine(c)] \in State /\ Steps \in Nat
  BY <1>1, TaskFacts, CdrAssumption
<1>3. Reached(path, Mine(c), Steps + 1)
  BY <1>1, <1>2 DEF PathInv, Executes
<1>4. CASE Goto(c, "reconcile", task[c])
  <2>1. Executes(path, "reconcile", task[c]) /\ Gated("reconcile", task[c])
    BY <1>2, <1>3 DEF Executes, Gated
  <2>2. QED
    BY <1>1, <1>2, <1>4, <2>1, PathStepReads
<1>5. ASSUME NEW t, t = [task[c] EXCEPT !.base = mission[Mine(c)]], Goto(c, "gates", t),
             mission[Mine(c)].status \in PastExpected \ {"UNKNOWN"}
      PROVE  PathInv(path)'
  <2>1. t \in Task /\ t.mission = Mine(c) /\ t.base = mission[Mine(c)]
    BY <1>2, <1>5 DEF Task
  <2>2. mission[Mine(c)].version # Steps + 1
    BY <1>3, <1>5, PathFacts DEF Reached
  <2>3. Steps + 2 <= mission[Mine(c)].version /\ mission[Mine(c)].version \in Nat
    BY <1>2, <1>3, <2>2 DEF Reached, State
  <2>4. Executes(path, "gates", t) /\ Gated("gates", t)
    BY <2>1, <2>3 DEF Executes, Gated
  <2>5. QED
    <3>1. Goto(c, "gates", t)
      BY <1>5
    <3>2. QED
      BY <1>1, <1>2, <2>1, <2>4, <3>1, PathStepReads
<1>6. CASE Throw(c)
  BY <1>1, <1>6, ThrowsPath
<1>7. QED
  BY <1>4, <1>5, <1>6 DEF Verify

LEMMA ReconcilePath ==
  ASSUME SingleComposer, TypeInv, NEW path, PathInv(path), NEW c \in Composer, Reconcile(c)
  PROVE  PathInv(path)'
<1>1. /\ UNCHANGED <<mission, idem>> /\ pc[c] = "reconcile"
      /\ pc[c] \notin {"commit", "fail"}
  BY DEF Reconcile
<1>2. /\ task[c] \in Task /\ Mine(c) = task[c].mission /\ Mine(c) \in Mission
      /\ mission[Mine(c)] \in State
  BY <1>1, TaskFacts
<1>3. Steps + 1 <= mission[Mine(c)].version
  BY <1>1, <1>2 DEF PathInv, Executes, Reached
<1>4. ASSUME NEW t, t = [task[c] EXCEPT !.base = mission[Mine(c)]], Goto(c, "resolver", t)
      PROVE  PathInv(path)'
  <2>1. t \in Task /\ t.mission = Mine(c) /\ t.base = mission[Mine(c)]
    BY <1>2, <1>4 DEF Task
  <2>2. Executes(path, "resolver", t) /\ Gated("resolver", t)
    BY <1>3, <2>1 DEF Executes, Gated
  <2>3. QED
    <3>1. Goto(c, "resolver", t)
      BY <1>4
    <3>2. QED
      BY <1>1, <1>2, <2>1, <2>2, <3>1, PathStepReads
<1>5. CASE Throw(c)
  BY <1>1, <1>5, ThrowsPath
<1>6. QED
  BY <1>4, <1>5 DEF Reconcile

LEMMA GatesPath ==
  ASSUME SingleComposer, TypeInv, NEW path, PathInv(path), NEW c \in Composer,
         NEW allowed \in BOOLEAN, Gates(c, allowed)
  PROVE  PathInv(path)'
<1>1. /\ UNCHANGED <<mission, idem>> /\ pc[c] = "gates"
      /\ pc[c] \notin {"commit", "fail"}
  BY DEF Gates
<1>2. task[c] \in Task /\ Mine(c) = task[c].mission /\ Mine(c) \in Mission
  BY <1>1, TaskFacts
<1>3. /\ Steps + 2 <= task[c].base.version
      /\ task[c].base.version <= mission[Mine(c)].version
  BY <1>1, <1>2 DEF PathInv, Gated
<1>4. PICK t : t = [task[c] EXCEPT !.gated = task[c].base]
  OBVIOUS
<1>5. t \in Task /\ t.mission = Mine(c) /\ t.gated = task[c].base
  BY <1>2, <1>4 DEF Task
<1>6. CASE Throw(c)
  BY <1>1, <1>6, ThrowsPath
<1>7. CASE Goto(c, "materialize", t)
  BY <1>1, <1>2, <1>5, <1>7, RestRelies, PathStepReads
<1>8. ASSUME NEW r \in {Drive, Approve}, Goto(c, "lookup", [t EXCEPT !.role = r])
      PROVE  PathInv(path)'
  <2>1. PICK u : u = [t EXCEPT !.role = r]
    OBVIOUS
  <2>2. u \in Task /\ u.role = r /\ u.mission = Mine(c) /\ u.gated = task[c].base
    BY <1>5, <2>1, RoleFacts DEF Task
  <2>3. ~(u.role <= Steps)
    BY <2>2, RoleFacts
  <2>4. Executes(path, "lookup", u) /\ Gated("lookup", u)
    BY <1>3, <2>2, <2>3 DEF Executes, Gated
  <2>5. QED
    BY <1>1, <1>2, <1>8, <2>1, <2>2, <2>4, PathStepReads
<1>9. \/ Throw(c) \/ Goto(c, "materialize", t)
      \/ \E r \in {Drive, Approve} : Goto(c, "lookup", [t EXCEPT !.role = r])
  BY <1>4 DEF Gates
<1>10. QED
  BY <1>6, <1>7, <1>8, <1>9

\* Reading back, ending, dying and starting again.
LEMMA ReadBackPath ==
  ASSUME SingleComposer, TypeInv, NEW path, PathInv(path), NEW c \in Composer,
         ReadBack(c) \/ Materialize(c)
  PROVE  PathInv(path)'
<1>1. UNCHANGED <<mission, idem>> /\ pc[c] \notin {"commit", "fail"}
  BY DEF ReadBack, Materialize
<1>2. CASE ReadBack(c)
  <2>1. /\ task[c] \in Task /\ Mine(c) = task[c].mission /\ Mine(c) \in Mission
        /\ mission[Mine(c)] \in State
    BY <1>2, TaskFacts DEF ReadBack
  <2>2. PICK t : t = [task[c] EXCEPT !.base = mission[Mine(c)]]
    OBVIOUS
  <2>3. t \in Task /\ t.mission = Mine(c) /\ Goto(c, "materialize", t)
    BY <1>2, <2>1, <2>2 DEF Task, ReadBack
  <2>4. QED
    BY <1>1, <2>1, <2>3, RestRelies, PathStepReads
<1>3. CASE Materialize(c)
  BY <1>1, <1>3, ThrowsPath DEF Materialize
<1>4. QED
  BY <1>2, <1>3

LEMMA CrashPath ==
  ASSUME CrashesBetweenCalls, SingleComposer, TypeInv, NEW path, PathInv(path),
         NEW c \in Composer, Crash(c)
  PROVE  PathInv(path)'
<1>1. /\ UNCHANGED <<mission, idem>> /\ Goto(c, "dead", NoTask)
      /\ pc[c] \notin {"commit", "fail"}
  BY DEF Crash, CrashesBetweenCalls
<1>2. QED
  BY <1>1, ThrowsPath

LEMMA RetryPath ==
  ASSUME SingleComposer, TypeInv, NEW path, PathInv(path), NEW c \in Composer,
         NEW m \in Mission, Retry(c, m)
  PROVE  PathInv(path)'
<1>1. /\ UNCHANGED <<mission, idem>> /\ mission[m] # NotStarted
      /\ pc[c] \notin {"commit", "fail"}
  BY DEF Retry, Resting
<1>2. PICK t : t = [NoTask EXCEPT !.mission = m, !.retry = TRUE]
  OBVIOUS
<1>3. t \in Task /\ t.mission = m /\ t.role = 1 /\ Goto(c, "lookup", t)
  BY <1>2, NoTaskType DEF NoTask, Task, Retry
<1>4. Reached(path, m, 1) /\ ~(1 > Steps)
  BY <1>1, CdrAssumption DEF PathInv
<1>5. Executes(path, "lookup", t) /\ Gated("lookup", t)
  BY <1>3, <1>4 DEF Executes, Gated
<1>6. QED
  BY <1>1, <1>3, <1>5, PathStepReads

\* A step that writes s as mission m.
LEMMA PathStepWrites ==
  ASSUME SingleComposer, TypeInv, NEW path, PathInv(path), NEW c \in Composer,
         NEW p, NEW t, Goto(c, p, t), NEW m \in Mission, NEW s \in State,
         mission' = [mission EXCEPT ![m] = s],
         1 <= s.version, s.version = 1 => s.status \in path[1],
         \A r \in 1..Steps : Done(r, m)' =>
            r + 1 <= s.version /\ (s.version = r + 1 => s.status \in path[r + 1]),
         \A n \in Mission \ {m}, r \in 1..Steps : Done(r, n)' => Done(r, n),
         Held(p, t)', Executes(path, p, t)', Gated(p, t)'
  PROVE  PathInv(path)'
<1>1. mission'[m] = s /\ \A n \in Mission \ {m} : mission'[n] = mission[n]
  BY DEF TypeInv, TypeOK
<1>2. ASSUME NEW n \in Mission, mission'[n] # NotStarted PROVE Reached(path, n, 1)'
  BY <1>1, <1>2 DEF PathInv, Reached
<1>3. ASSUME NEW n \in Mission, NEW r \in 1..Steps, Done(r, n)'
      PROVE  Reached(path, n, r + 1)'
  BY <1>1, <1>3 DEF PathInv, Reached
<1>4. QED
  BY <1>2, <1>3, PathStep

\* A commit writes the version after the one it expected, which is beyond every
\* step that is done, and what it leaves may be overwritten but not taken back.
LEMMA CommitPath ==
  ASSUME SingleComposer, TypeInv, NEW path, StepsLead(path), PathInv(path),
         NEW c \in Composer, Commit(c)
  PROVE  PathInv(path)'
<1>1. UNCHANGED idem /\ pc[c] = "commit" /\ Goto(c, "complete", task[c])
  BY DEF Commit
<1>2. PICK t : t = task[c]
  OBVIOUS
<1>3. /\ t \in Task /\ CallOf(c) = t.role /\ t.role \in Role
      /\ Mine(c) = t.mission /\ Mine(c) \in Mission
      /\ t.base \in State /\ t.base.status \in Status
  BY <1>1, <1>2, TaskFacts DEF Reading
<1>4. Held("commit", t) /\ Executes(path, "commit", t) /\ Gated("commit", t)
  BY <1>1, <1>2 DEF PathInv
<1>5. PICK status \in Targets(t.role, t.base) :
        mission' = [mission EXCEPT ![t.mission] = Moved(t.base, status)]
  BY <1>2, <1>3 DEF Commit
<1>6. PICK s : s = Moved(t.base, status)
  OBVIOUS
<1>7. s \in State /\ s.status = status /\ s.version = t.base.version + 1
  <2>1. status \in Status
    BY <1>3, <1>5, StatusFacts DEF Targets
  <2>2. QED
    BY <1>3, <1>6, <2>1, MovedType DEF Moved
<1>8. /\ t.role \in Nat /\ Steps \in Nat \ {0} /\ t.role # 0
      /\ t.base.version \in Nat /\ t.gated.version \in Nat
      /\ t.role <= Steps => t.role \in 1..Steps /\ t.base.version = t.role
      /\ t.role > Steps => t.base.version = t.role + 1 /\ t.gated.version <= t.base.version
                           /\ Steps + 2 <= t.gated.version
  BY <1>3, <1>4, Expects DEF Executes, Gated, Task, State, Role
<1>9. pc'[c] = "complete" /\ task'[c] = t /\ \A d \in Composer : d = c
  BY <1>1, <1>2, Alone
<1>10. ASSUME NEW n \in Mission, NEW r \in 1..Steps, Done(r, n)'
       PROVE  Done(r, n) \/ (r = t.role /\ n = t.mission)
  <2>1. CASE r = t.role
    BY <1>1, <1>4, <1>10, <2>1 DEF Done, Held
  <2>2. CASE r # t.role
    <3>1. \A d \in Composer : CallOf(d) = t.role
      BY <1>3, <1>9
    <3>2. QED
      BY <1>1, <1>10, <2>2, <3>1 DEF Done
  <2>3. QED
    BY <2>1, <2>2
<1>11. ASSUME NEW r \in 1..Steps, Done(r, t.mission)'
       PROVE  r + 1 <= s.version /\ (s.version = r + 1 => s.status \in path[r + 1])
  <2>1. CASE t.role > Steps
    BY <1>7, <1>8, <2>1
  <2>2. CASE t.role <= Steps /\ r = t.role
    <3>1. Targets(t.role, t.base) \subseteq path[t.role + 1]
      BY <1>3, <1>4, <1>8, <2>2, PathFacts DEF Executes
    <3>2. QED
      BY <1>5, <1>7, <1>8, <2>2, <3>1
  <2>3. CASE t.role <= Steps /\ r # t.role
    <3>1. Done(r, t.mission)
      BY <1>3, <1>10, <1>11, <2>3
    <3>2. r < t.role
      <4>1. r \notin t.role..Steps
        BY <1>4, <2>3, <3>1 DEF Executes
      <4>2. QED
        BY <1>8, <4>1
    <3>3. QED
      BY <1>7, <1>8, <2>3, <3>2
  <2>4. QED
    BY <1>8, <2>1, <2>2, <2>3
<1>12. Held("complete", t)'
  BY <1>1, <1>4 DEF Held
<1>13. Executes(path, "complete", t)'
  BY DEF Executes
<1>14. Gated("complete", t)'
  <2>1. mission'[t.mission] = s
    BY <1>3, <1>5, <1>6 DEF TypeInv, TypeOK
  <2>2. QED
    BY <1>7, <1>8, <2>1 DEF Gated
<1>15. 1 <= s.version /\ s.version # 1
  BY <1>7, <1>8
<1>16. mission' = [mission EXCEPT ![t.mission] = s] /\ Goto(c, "complete", t)
  BY <1>1, <1>2, <1>5, <1>6
<1>17. t.mission \in Mission
  BY <1>3
<1>18. \A n \in Mission \ {t.mission}, r \in 1..Steps : Done(r, n)' => Done(r, n)
  BY <1>10
<1>19. QED
  BY <1>7, <1>11, <1>12, <1>13, <1>14, <1>15, <1>16, <1>17, <1>18, PathStepWrites

LEMMA ResolverPath ==
  ASSUME SingleComposer, TypeInv, NEW path, PathInv(path), NEW c \in Composer,
         NEW outcome \in Outcome, ResolverAnswers(c, outcome)
  PROVE  PathInv(path)'
<1>1. /\ UNCHANGED idem /\ pc[c] = "resolver" /\ pc[c] \notin {"commit", "fail"}
  BY DEF ResolverAnswers
<1>2. /\ task[c] \in Task /\ Mine(c) = task[c].mission /\ Mine(c) \in Mission
      /\ task[c].base \in State /\ Steps \in Nat \ {0}
  BY <1>1, TaskFacts, CdrAssumption
<1>3. Steps + 1 <= task[c].base.version
  BY <1>1 DEF PathInv, Executes
<1>4. PICK s : s = Moved(task[c].base, "RUNNING")
  OBVIOUS
<1>5. s \in State /\ s.version = task[c].base.version + 1 /\ task[c].base.version \in Nat
  BY <1>2, <1>4, MovedType, StatusFacts DEF Moved, State
<1>6. PICK t : t = [task[c] EXCEPT !.base = s]
  OBVIOUS
<1>7. t \in Task /\ t.mission = Mine(c) /\ t.base = s
  BY <1>2, <1>5, <1>6 DEF Task
<1>8. PICK p \in {"idle", "gates"}, u \in {NoTask, t} :
        /\ Goto(c, p, u)
        /\ p = "gates" => u = t
        /\ \/ UNCHANGED mission /\ Throw(c)
           \/ mission' = [mission EXCEPT ![Mine(c)] = s]
  <2>1. \/ Throw(c) /\ UNCHANGED mission
        \/ (Throw(c) \/ Goto(c, "gates", t)) /\ mission' = [mission EXCEPT ![Mine(c)] = s]
    BY <1>4, <1>6 DEF ResolverAnswers
  <2>2. Throw(c) => Goto(c, "idle", NoTask)
    BY DEF Throw, Goto
  <2>3. QED
    BY <2>1, <2>2
<1>9. CASE UNCHANGED mission /\ Throw(c)
  BY <1>1, <1>9, ThrowsPath
<1>10. CASE mission' = [mission EXCEPT ![Mine(c)] = s]
  <2>1. \A d \in Composer : d = c
    BY DEF SingleComposer
  <2>2. \A n \in Mission, r \in 1..Steps : Done(r, n)' => Done(r, n)
    BY <1>1, <2>1 DEF Done
  <2>3. \A r \in 1..Steps : r + 1 <= s.version /\ s.version # r + 1
    BY <1>2, <1>3, <1>5
  <2>4. 1 <= s.version /\ s.version # 1
    BY <1>2, <1>3, <1>5
  <2>5. mission'[Mine(c)] = s
    BY <1>2, <1>10 DEF TypeInv, TypeOK
  <2>6. Held(p, u)' /\ Executes(path, p, u)'
    BY DEF Held, Executes
  <2>7. Gated(p, u)'
    BY <1>2, <1>3, <1>5, <1>7, <1>8, <2>5 DEF Gated
  <2>8. QED
    BY <1>2, <1>5, <1>8, <1>10, <2>2, <2>3, <2>4, <2>6, <2>7, PathStepWrites
<1>11. QED
  BY <1>8, <1>9, <1>10

\* A mission that was not started has no call done, and is started as a draft.
LEMMA ComposePath ==
  ASSUME SingleComposer, TypeInv, NEW path, StepsLead(path), PathInv(path),
         NEW c \in Composer, Compose(c)
  PROVE  PathInv(path)'
<1>1. UNCHANGED idem /\ pc[c] \notin {"commit", "fail"}
  BY DEF Compose, Resting
<1>2. PICK m \in Mission, s \in {[status |-> "DRAFT", version |-> 1]} :
        /\ mission[m] = NotStarted /\ mission' = [mission EXCEPT ![m] = s]
        /\ Goto(c, "lookup", [NoTask EXCEPT !.mission = m])
  BY DEF Compose
<1>3. s \in State /\ s.version = 1 /\ s.status = "DRAFT"
  BY StatusFacts DEF State
<1>4. PICK t \in Task : t.mission = m /\ t.role = 1 /\ Goto(c, "lookup", t)
  <2>1. PICK t : t = [NoTask EXCEPT !.mission = m]
    OBVIOUS
  <2>2. t \in Task /\ t.mission = m /\ t.role = 1
    BY <2>1, NoTaskType DEF NoTask, Task
  <2>3. QED
    BY <1>2, <2>1, <2>2
<1>5. \A d \in Composer : d = c
  BY DEF SingleComposer
<1>6. \A n \in Mission, r \in 1..Steps : Done(r, n)' => Done(r, n)
  BY <1>1, <1>5 DEF Done
<1>7. ASSUME NEW r \in 1..Steps, Done(r, m) PROVE FALSE
  <2>1. r \in Nat /\ r + 1 <= mission[m].version
    BY <1>7, CdrAssumption DEF PathInv, Reached
  <2>2. QED
    BY <1>2, <2>1 DEF NotStarted
<1>8. mission'[m] = s
  BY <1>2 DEF TypeInv, TypeOK
<1>9. ~(1 > Steps) /\ "DRAFT" \in path[1]
  BY CdrAssumption, PathFacts
<1>10. Held("lookup", t)' /\ Gated("lookup", t)'
  BY <1>4, <1>9 DEF Held, Gated
<1>11. Executes(path, "lookup", t)'
  BY <1>3, <1>4, <1>8, <1>9 DEF Executes, Reached
<1>12. 1 <= s.version /\ (s.version = 1 => s.status \in path[1])
  BY <1>3, <1>9
<1>13. mission' = [mission EXCEPT ![m] = s] /\ Goto(c, "lookup", t)
  BY <1>2, <1>4
<1>14. QED
  BY <1>3, <1>6, <1>7, <1>10, <1>11, <1>12, <1>13, PathStepWrites

LEMMA ComposerPath ==
  ASSUME CrashesBetweenCalls, SingleComposer, TypeInv, NEW path, StepsLead(path),
         PathInv(path), NEW c \in Composer,
         \/ Compose(c) \/ Step(c) \/ Crash(c)
         \/ \E m \in Mission : Retry(c, m)
  PROVE  PathInv(path)'
<1>1. CASE Compose(c) \/ Crash(c) \/ \E m \in Mission : Retry(c, m)
  BY <1>1, ComposePath, CrashPath, RetryPath
<1>2. CASE Step(c)
  BY <1>2, LookupPath, ClaimPath, CommitPath, CompletePath, FailPath, VerifyPath,
     ReconcilePath, ResolverPath, GatesPath, ReadBackPath DEF Step
<1>3. QED
  BY <1>1, <1>2

\* Whoever else moves a mission moves it on, and nobody takes a held key.
LEMMA OthersPath ==
  ASSUME TypeInv, StoreKeeps, NEW path, PathInv(path), UNCHANGED <<pc, task>>,
         \A m \in Mission : mission'[m] = mission[m]
           \/ (mission[m] # NotStarted /\ mission[m].version < mission'[m].version),
         \A r \in Role :
           \/ idem'[r] = idem[r]
           \/ /\ idem'[r].status = "FREE"
              /\ \A c \in Composer : ~(pc[c] \in {"commit", "complete", "fail"} /\ CallOf(c) = r)
  PROVE  PathInv(path)'
<1>1. \A m \in Mission : Onward(m)
  BY DEF Onward
<1>2. ASSUME NEW m \in Mission, NEW r \in 1..Steps, Done(r, m)' PROVE Done(r, m)
  <2>1. r \in Role
    BY CdrAssumption DEF Role, Approve
  <2>2. idem'[r] = idem[r]
    BY <1>2, <2>1 DEF Done
  <2>3. QED
    BY <1>2, <2>2 DEF Done, CallOf
<1>3. ASSUME NEW m \in Mission, mission'[m] # NotStarted
      PROVE  Reached(path, m, 1)'
  <2>1. Reached(path, m, 1)
    BY <1>3 DEF PathInv
  <2>2. QED
    BY <1>1, <2>1, ReachedStands
<1>4. ASSUME NEW m \in Mission, NEW r \in 1..Steps, Done(r, m)'
      PROVE  Reached(path, m, r + 1)'
  <2>1. Reached(path, m, r + 1) /\ r + 1 \in Nat
    BY <1>2, <1>4, CdrAssumption DEF PathInv
  <2>2. QED
    BY <1>1, <2>1, ReachedStands
<1>5. ASSUME NEW c \in Composer
      PROVE  (Held(pc[c], task[c]) /\ Executes(path, pc[c], task[c]) /\ Gated(pc[c], task[c]))'
  <2>1. PICK p, t : p = pc[c] /\ t = task[c]
    OBVIOUS
  <2>2. /\ Held(p, t) /\ Executes(path, p, t) /\ Gated(p, t)
        /\ t \in Task /\ t.role \in Role /\ t.role = CallOf(c)
        /\ p \notin Resting => t.mission \in Mission
    BY <2>1, TaskFacts DEF PathInv, Resting
  <2>3. Executes(path, p, t)' /\ Gated(p, t)'
    BY <1>1, <1>2, <2>2, RelyStands
  <2>4. Held(p, t)'
    BY <2>1, <2>2 DEF Held
  <2>5. pc'[c] = p /\ task'[c] = t
    BY <2>1
  <2>6. QED
    BY <2>3, <2>4, <2>5 DEF Held, Executes, Gated, Reached, Done
<1>6. QED
  BY <1>3, <1>4, <1>5 DEF PathInv

LEMMA PathInit == ASSUME NEW path, Init PROVE PathInv(path)
<1>1. \A r \in 1..Steps : r \in Role
  BY CdrAssumption DEF Role, Approve
<1>2. \A r \in 1..Steps : idem[r].status = "FREE"
  BY <1>1 DEF Init, FreeKey
<1>3. \A c \in Composer : pc[c] = "idle"
  BY DEF Init
<1>4. \A c \in Composer : Held(pc[c], task[c]) /\ Executes(path, pc[c], task[c]) /\ Gated(pc[c], task[c])
  BY <1>3 DEF Held, Executes, Gated
<1>5. QED
  BY <1>2, <1>4 DEF Init, PathInv, Done

LEMMA MovedOn ==
  ASSUME TypeInv, NEW m \in Mission, NEW status \in Status,
         mission' = [mission EXCEPT ![m] = Moved(mission[m], status)],
         mission[m] # NotStarted
  PROVE  /\ StoreKeeps
         /\ \A n \in Mission : mission'[n] = mission[n]
              \/ (mission[n] # NotStarted /\ mission[n].version < mission'[n].version)
<1>1. mission \in [Mission -> State] /\ mission[m] \in State
  BY DEF TypeInv, TypeOK
<1>2. PICK s : s = Moved(mission[m], status)
  OBVIOUS
<1>3. s \in State /\ s.status \in Status /\ mission[m].version < s.version
  BY <1>1, <1>2, MovedType DEF Moved, State
<1>4. mission' = [mission EXCEPT ![m] = s]
  BY <1>2
<1>5. StoreKeeps
  BY <1>3, <1>4, WriteKeeps
<1>6. QED
  BY <1>1, <1>3, <1>4, <1>5

LEMMA PathInductive ==
  ASSUME CrashesBetweenCalls, SingleComposer, TypeInv, NEW path, StepsLead(path),
         PathInv(path), [Next]_vars
  PROVE  PathInv(path)'
<1>1. CASE UNCHANGED vars
  <2>1. UNCHANGED <<mission, idem, pc, task>>
    BY <1>1 DEF vars
  <2>2. QED
    BY <2>1, StutterKeeps, OthersPath
<1>2. ASSUME NEW m \in Mission, Recover(m) \/ Client(m)
      PROVE  PathInv(path)'
  <2>1. UNCHANGED <<pc, task>> /\ UNCHANGED idem
    BY <1>2 DEF Recover, Client
  <2>2. PICK status \in Status : mission' = [mission EXCEPT ![m] = Moved(mission[m], status)]
    <3>1. CASE Recover(m)
      BY <3>1, StatusFacts DEF Recover
    <3>2. CASE Client(m)
      <4>1. mission[m].status \in Status
        BY <3>2 DEF Client, TypeInv, StoredOK
      <4>2. QED
        BY <3>2, <4>1, StatusFacts DEF Client
    <3>3. QED
      BY <1>2, <3>1, <3>2
  <2>3. mission[m] # NotStarted
    BY <1>2 DEF Recover, Client, NotStarted
  <2>4. QED
    BY <2>1, <2>2, <2>3, MovedOn, OthersPath
<1>3. ASSUME NEW r \in Role, Expire(r)
      PROVE  PathInv(path)'
  <2>1. /\ UNCHANGED <<mission, pc, task>> /\ idem' = [idem EXCEPT ![r] = FreeKey]
        /\ \A c \in Composer : ~(pc[c] \in {"commit", "complete", "fail"} /\ CallOf(c) = r)
    BY <1>3 DEF Expire
  <2>2. \A q \in Role : IF q = r THEN idem'[q].status = "FREE" ELSE idem'[q] = idem[q]
    BY <2>1 DEF TypeInv, TypeOK, FreeKey
  <2>3. StoreKeeps
    BY <2>1, StutterKeeps
  <2>4. QED
    BY <2>1, <2>2, <2>3, OthersPath
<1>4. QED
  BY <1>1, <1>2, <1>3, ComposerPath DEF Next

\* What the composer approves is what its gates saw, or that moved by its own
\* approval-drive, for every handler its input fits, number of steps and set of
\* missions, through clients, restarts, expiring keys and crashes between calls.
\* A mission that is past its reconciliation is two versions past its steps or
\* more, the approval expects three, and no write of the composer takes the
\* mission back behind its gates.
THEOREM ApprovesWhatWasGated ==
  ASSUME CrashesBetweenCalls, SingleComposer, NEW path, StepsLead(path)
  PROVE  Spec => GatedVersionApproved
<1>1. ASSUME TypeInv, PathInv(path), NEW c \in Composer, pc[c] = "commit",
             CallOf(c) = Approve
      PROVE  task[c].base.version \in {task[c].gated.version, task[c].gated.version + 1}
  <2>1. /\ task[c].role = Approve /\ Approve = Steps + 2 /\ Steps \in Nat
        /\ task[c].gated.version \in Nat /\ task[c].base.version \in Nat
    BY <1>1, TaskFacts, RoleFacts DEF Task, State
  <2>2. Gated("commit", task[c])
    BY <1>1 DEF PathInv
  <2>3. /\ Steps + 2 <= task[c].gated.version
        /\ task[c].base.version = Steps + 3
        /\ task[c].gated.version <= task[c].base.version
    BY <2>1, <2>2 DEF Gated
  <2>4. QED
    BY <2>1, <2>3
<1>2. TypeInv /\ PathInv(path) /\ [Next]_vars => PathInv(path)'
  BY PathInductive
<1>3. Init => PathInv(path)
  BY PathInit
<1>4. TypeInv /\ PathInv(path) /\ [Next]_vars =>
        [\A c \in Composer :
           pc[c] = "commit" /\ pc'[c] = "complete" /\ CallOf(c) = Approve =>
             task[c].base.version \in {task[c].gated.version, task[c].gated.version + 1}]_vars
  BY <1>1
<1>5. QED
  BY <1>2, <1>3, <1>4, TypeInvariant, PTL DEF Spec, GatedVersionApproved
=============================================================================
