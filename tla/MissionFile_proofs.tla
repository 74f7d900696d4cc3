-------------------------- MODULE MissionFile_proofs --------------------------
(***************************************************************************)
(* Theorems about MissionFile for every set of missions, keys and          *)
(* processes, every plan length and logs of any length: the file is always *)
(* one consistent whole, only overlapping processes lose events, and what  *)
(* the recovery policy, the recovery pass and the projection read out of   *)
(* it agrees.                                                              *)
(***************************************************************************)
EXTENDS MissionFile, TLAPS

-----------------------------------------------------------------------------
(* What commands write *)

\* The statuses a mission of the file may have: nothing leads to RETRYING.
Reached == Status \ {"RETRYING"}

LEMMA HandlerReaches ==
  ASSUME NEW s \in Snapshot
  PROVE  HandlerExecute(s) \in Snapshot /\ HandlerExecute(s).status \in Reached
<1>1. {"QUEUED", "WAITING_FOR_EVIDENCE", "COMPLETED", "RUNNING", "AWAITING_APPROVAL"} \subseteq Reached
  BY DEF Reached, Status
<1>2. Advanced(s) \in 0..PlanSteps /\ PlanSteps \in 0..PlanSteps /\ 0 \in 0..PlanSteps
  BY PlanStepsAssumption DEF Advanced, Snapshot
<1> QED
  BY <1>1, <1>2 DEF HandlerExecute, Staged, Resumed, Snapshot, Reached

LEMMA NextSnapshotIs ==
  ASSUME NEW s \in Snapshot, NEW b \in Snapshot, NEW status \in Reached
  PROVE  /\ NextSnapshot(s, status, b) \in Snapshot
         /\ NextSnapshot(s, status, b).status = status
         /\ NextSnapshot(s, status, b).version = s.version + 1
<1>1. s.version + 1 \in Nat
  BY DEF Snapshot
<1>2. \A v \in Nat : [b EXCEPT !.status = status, !.version = v] \in Snapshot
  BY DEF Snapshot, Reached
<1> QED
  BY <1>1, <1>2 DEF NextSnapshot, Snapshot

LEMMA SuccessorIs ==
  ASSUME NEW s \in Snapshot, NEW m \in Mission, NEW c \in CommandOf(m)
  PROVE  /\ c \in Command(Mission) /\ c.mission = m
         /\ EventType(c) \in {"STATE_TRANSITION", "APPROVAL_DECIDED", "RECONCILED"}
         /\ Successor(s, c) \in Snapshot
         /\ Successor(s, c).status \in Reached
         /\ Successor(s, c).version = s.version + 1
<1>1. {"RUNNING", "FAILED", "COMPLETED", "APPROVED", "REJECTED"} \subseteq Reached
  BY DEF Reached, Status
<1>2. /\ c.mission = m /\ c.resolution \in {"RUNNING", "FAILED", "COMPLETED"}
      /\ c.type \in {"execute", "approve", "reject", "reconcile"}
      /\ c \in Command(Mission)
  BY <1>1 DEF CommandOf, RecoveryTargets, NoVersion, Command, Reached
<1>3. Resolved(s, c) \in Snapshot /\ Resolved(s, c).status \in Reached
  <2>1. CASE c.type = "execute"
    BY <2>1, HandlerReaches DEF Resolved
  <2>2. CASE c.type # "execute"
    BY <1>1, <1>2, <2>2 DEF Resolved, Snapshot, Reached
  <2> QED
    BY <2>1, <2>2
<1> QED
  BY <1>2, <1>3, NextSnapshotIs DEF Successor, EventType

-----------------------------------------------------------------------------
(* Logs *)

\* Versions rise, and only the last event of a mission ends it.
LogOK(l) ==
  /\ \A i \in 1..Len(l) : l[i].snapshot.status \in Reached
  /\ \A i \in 1..Len(l) - 1 :
       /\ l[i].snapshot.version < l[i + 1].snapshot.version
       /\ l[i].snapshot.status \notin Terminal

LEMMA LogGrows ==
  ASSUME NEW l \in Seq(Event), NEW e \in Event, LogOK(l),
         e.snapshot.status \in Reached,
         l # <<>> => /\ Replayed(l).status \notin Terminal
                     /\ Replayed(l).version < e.snapshot.version
  PROVE  LET new == l \o <<e>>
         IN  /\ new \in Seq(Event) /\ new # <<>> /\ LogOK(new)
             /\ Len(new) = Len(l) + 1 /\ new[Len(l) + 1] = e
             /\ \A i \in 1..Len(l) : new[i] = l[i]
             /\ Replayed(new) = e.snapshot
<1>1. PICK new : new = l \o <<e>>
  OBVIOUS
<1> DEFINE n == Len(l)
<1>2. /\ n \in Nat /\ Len(new) = n + 1 /\ new[n + 1] = e /\ new \in Seq(Event)
      /\ \A i \in 1..n : new[i] = l[i]
  BY <1>1
<1>3. new # <<>> /\ Replayed(new) = e.snapshot
  BY <1>2 DEF Replayed
<1>4. \A i \in 1..Len(new) : new[i].snapshot.status \in Reached
  BY <1>2 DEF LogOK
<1>5. ASSUME NEW i \in 1..Len(new) - 1
      PROVE  /\ new[i].snapshot.version < new[i + 1].snapshot.version
             /\ new[i].snapshot.status \notin Terminal
  <2>1. CASE i \in 1..n - 1
    <3>1. new[i] = l[i] /\ new[i + 1] = l[i + 1]
      BY <1>2, <2>1
    <3> QED
      BY <2>1, <3>1 DEF LogOK
  <2>2. CASE i = n /\ n > 0
    <3>1. new[i] = l[n] /\ new[i + 1] = e /\ l # <<>>
      BY <1>2, <2>2
    <3> QED
      BY <3>1 DEF Replayed
  <2> QED
    BY <1>2, <2>1, <2>2
<1>6. LogOK(new)
  BY <1>4, <1>5 DEF LogOK
<1> QED
  BY <1>1, <1>2, <1>3, <1>6

-----------------------------------------------------------------------------
(* Stores *)

KeyRecord == [command : Command(Mission) \union {NoRequest}, version : Nat]

Stores == [missions : [Mission -> Snapshot], log : [Mission -> Seq(Event)],
           record : [Key -> KeyRecord]]

\* A mission is what its log replays to.
MissionOK(st, m) ==
  /\ LogOK(st.log[m])
  /\ st.log[m] = <<>> => st.missions[m] = Absent
  /\ st.log[m] # <<>> => st.missions[m] = Replayed(st.log[m])

\* The event of log l that command c caused, at the recorded version.
CausedBy(l, c, version) ==
  \E i \in 2..Len(l) : /\ l[i].snapshot.version = version
                       /\ l[i].type = EventType(c)
                       /\ l[i].snapshot = Successor(l[i - 1].snapshot, c)

RecordOK(st, k) ==
  ~ Free(st.record[k]) =>
    /\ st.record[k].command \in Command(Mission)
    /\ CausedBy(st.log[st.record[k].command.mission], st.record[k].command,
                st.record[k].version)

StoresOK(st) ==
  /\ st \in Stores
  /\ \A m \in Mission : MissionOK(st, m)
  /\ \A k \in Key : RecordOK(st, k)

\* l is an initial part of new.
Grows(l, new) == Len(l) <= Len(new) /\ \A i \in 1..Len(l) : new[i] = l[i]

\* An event that may be written next.
MayFollow(st, e) ==
  /\ e \in Event /\ e.snapshot.status \in Reached
  /\ st.log[e.mission] # <<>> =>
       /\ st.missions[e.mission].status \notin Terminal
       /\ st.missions[e.mission].version < e.snapshot.version

LEMMA WrittenFields ==
  ASSUME NEW st \in Stores, NEW new
  PROVE  /\ Written(st, new).record = st.record
         /\ \A m \in Mission : (\A e \in new : e.mission # m) =>
              /\ Written(st, new).missions[m] = st.missions[m]
              /\ Written(st, new).log[m] = st.log[m]
         /\ \A m \in Mission, e \in new :
              e.mission = m /\ (\A f \in new : f.mission = m => f = e) =>
                /\ Written(st, new).missions[m] = e.snapshot
                /\ Written(st, new).log[m] = st.log[m] \o <<e>>
         /\ (\A m \in Mission : /\ Written(st, new).missions[m] \in Snapshot
                                /\ Written(st, new).log[m] \in Seq(Event)) =>
              Written(st, new) \in Stores
<1> DEFINE Has(n) == \E e \in new : e.mission = n
           One(n) == CHOOSE e \in new : e.mission = n
<1>1. PICK a \in [Mission -> Snapshot], b \in [Mission -> Seq(Event)], c \in [Key -> KeyRecord] :
        st = [missions |-> a, log |-> b, record |-> c]
  BY DEF Stores
<1>2. Written(st, new) =
        [missions |-> [n \in Mission |-> IF Has(n) THEN One(n).snapshot ELSE a[n]],
         log |-> [n \in Mission |-> b[n] \o (IF Has(n) THEN <<One(n)>> ELSE <<>>)],
         record |-> c]
  <2>1. PICK A, B :
          /\ A = [n \in Mission |-> IF \E e \in new : e.mission = n
                                  THEN (CHOOSE e \in new : e.mission = n).snapshot
                                  ELSE st.missions[n]]
          /\ B = [n \in Mission |-> st.log[n] \o
                                  (IF \E e \in new : e.mission = n
                                   THEN <<CHOOSE e \in new : e.mission = n>> ELSE <<>>)]
    OBVIOUS
  <2>2. Written(st, new) = [st EXCEPT !.missions = A, !.log = B]
    BY <2>1 DEF Written
  <2>3. Written(st, new) = [missions |-> A, log |-> B, record |-> c]
    BY <1>1, <2>2
  <2>4. st.missions = a /\ st.log = b
    BY <1>1
  <2> QED
    BY <2>1, <2>3, <2>4
<1>3. ASSUME NEW m \in Mission, \A e \in new : e.mission # m
      PROVE  /\ Written(st, new).missions[m] = st.missions[m]
             /\ Written(st, new).log[m] = st.log[m]
  <2>1. ~ Has(m) /\ b[m] \in Seq(Event)
    BY <1>3
  <2>2. b[m] \o <<>> = b[m]
    BY <2>1
  <2> QED
    <3>1. /\ Written(st, new).missions[m] = a[m]
          /\ Written(st, new).log[m] = b[m] \o <<>>
      BY <1>2, <2>1
    <3> QED
      BY <1>1, <2>2, <3>1
<1>4. ASSUME NEW m \in Mission, NEW e \in new, e.mission = m, \A f \in new : f.mission = m => f = e
      PROVE  /\ Written(st, new).missions[m] = e.snapshot
             /\ Written(st, new).log[m] = st.log[m] \o <<e>>
  <2>1. Has(m) /\ One(m) = e
    BY <1>4
  <2> HIDE DEF Has, One
  <2> QED
    BY <1>1, <1>2, <2>1
<1>5. ASSUME \A m \in Mission : /\ Written(st, new).missions[m] \in Snapshot
                                 /\ Written(st, new).log[m] \in Seq(Event)
      PROVE  Written(st, new) \in Stores
  <2>1. PICK A, B :
          /\ A = [n \in Mission |-> IF Has(n) THEN One(n).snapshot ELSE a[n]]
          /\ B = [n \in Mission |-> b[n] \o (IF Has(n) THEN <<One(n)>> ELSE <<>>)]
          /\ Written(st, new) = [missions |-> A, log |-> B, record |-> c]
    BY <1>2
  <2> HIDE DEF Has, One
  <2>2. A \in [Mission -> Snapshot] /\ B \in [Mission -> Seq(Event)]
    BY <1>5, <2>1
  <2> QED
    BY <2>1, <2>2 DEF Stores
<1>6. Written(st, new).record = st.record
  BY <1>1, <1>2
<1> QED
  BY <1>3, <1>4, <1>5, <1>6

\* What follows the stores keeps them consistent, and every log grows by it.
LEMMA WrittenKeeps ==
  ASSUME NEW st, StoresOK(st), NEW new, \A e \in new : MayFollow(st, e),
         \A e, f \in new : e.mission = f.mission => e = f
  PROVE  /\ StoresOK(Written(st, new))
         /\ \A m \in Mission : Grows(st.log[m], Written(st, new).log[m])
         /\ \A e \in new : /\ e.mission \in Mission
                           /\ Written(st, new).log[e.mission] = st.log[e.mission] \o <<e>>
         /\ \A m \in Mission : (\A e \in new : e.mission # m) =>
              Written(st, new).log[m] = st.log[m]
<1> DEFINE w == Written(st, new)
<1>1. st \in Stores
  BY DEF StoresOK
<1>2. /\ w.record = st.record
      /\ \A m \in Mission : (\A e \in new : e.mission # m) =>
           w.missions[m] = st.missions[m] /\ w.log[m] = st.log[m]
      /\ \A e \in new : /\ e.mission \in Mission
                        /\ w.missions[e.mission] = e.snapshot
                        /\ w.log[e.mission] = st.log[e.mission] \o <<e>>
  BY <1>1, WrittenFields DEF MayFollow, Event
<1>3. ASSUME NEW m \in Mission
      PROVE  /\ MissionOK(w, m) /\ Grows(st.log[m], w.log[m])
             /\ w.missions[m] \in Snapshot /\ w.log[m] \in Seq(Event)
  <2>1. /\ st.missions[m] \in Snapshot /\ st.log[m] \in Seq(Event) /\ MissionOK(st, m)
        /\ Len(st.log[m]) \in Nat
    BY DEF StoresOK, Stores
  <2>2. CASE \A e \in new : e.mission # m
    <3>1. w.missions[m] = st.missions[m] /\ w.log[m] = st.log[m]
      BY <1>2, <2>2
    <3> HIDE DEF w
    <3> QED
      BY <2>1, <3>1 DEF MissionOK, Grows
  <2>3. ASSUME NEW e \in new, e.mission = m
        PROVE  /\ MissionOK(w, m) /\ Grows(st.log[m], w.log[m])
               /\ w.missions[m] \in Snapshot /\ w.log[m] \in Seq(Event)
    <3>1. w.missions[m] = e.snapshot /\ w.log[m] = st.log[m] \o <<e>>
      BY <1>2, <2>3
    <3>2. /\ e \in Event /\ e.snapshot.status \in Reached
          /\ st.log[m] # <<>> => /\ Replayed(st.log[m]).status \notin Terminal
                                 /\ Replayed(st.log[m]).version < e.snapshot.version
      BY <2>1, <2>3 DEF MayFollow, MissionOK
    <3>3. PICK l \in Seq(Event) : l = st.log[m]
      BY <2>1
    <3>4. PICK next : next = l \o <<e>>
      OBVIOUS
    <3>5. LogOK(l)
      BY <2>1, <3>3 DEF MissionOK
    <3>6. /\ next \in Seq(Event) /\ next # <<>> /\ LogOK(next)
          /\ Len(next) = Len(l) + 1 /\ Replayed(next) = e.snapshot
          /\ \A i \in 1..Len(l) : next[i] = l[i]
      BY <3>2, <3>3, <3>4, <3>5, LogGrows
    <3>7. w.missions[m] = Replayed(next) /\ w.log[m] = next /\ e.snapshot \in Snapshot
      BY <3>1, <3>2, <3>3, <3>4, <3>6 DEF Event
    <3> HIDE DEF w
    <3> QED
      BY <2>1, <3>3, <3>6, <3>7 DEF MissionOK, Grows
  <2> QED
    BY <2>2, <2>3
<1>4. w \in Stores
  BY <1>1, <1>3, WrittenFields
<1>5. ASSUME NEW k \in Key PROVE RecordOK(w, k)
  <2>1. RecordOK(st, k) /\ w.record[k] = st.record[k]
    BY <1>2 DEF StoresOK
  <2>2. SUFFICES ASSUME ~ Free(st.record[k])
                 PROVE  RecordOK(w, k)
    BY <2>1 DEF RecordOK
  <2>3. PICK c \in Command(Mission) : c = st.record[k].command
    BY <2>1, <2>2 DEF RecordOK
  <2>4. c.mission \in Mission
    BY DEF Command
  <2>5. PICK i \in 2..Len(st.log[c.mission]) :
          /\ st.log[c.mission][i].snapshot.version = st.record[k].version
          /\ st.log[c.mission][i].type = EventType(c)
          /\ st.log[c.mission][i].snapshot = Successor(st.log[c.mission][i - 1].snapshot, c)
    BY <2>1, <2>2, <2>3 DEF RecordOK, CausedBy
  <2>6. /\ st.log[c.mission] \in Seq(Event) /\ w.log[c.mission] \in Seq(Event)
        /\ Grows(st.log[c.mission], w.log[c.mission])
    BY <1>1, <1>3, <2>4 DEF Stores
  <2> HIDE DEF w
  <2>7. /\ i \in 2..Len(w.log[c.mission])
        /\ w.log[c.mission][i] = st.log[c.mission][i]
        /\ w.log[c.mission][i - 1] = st.log[c.mission][i - 1]
    BY <2>5, <2>6 DEF Grows
  <2> QED
    BY <2>1, <2>3, <2>5, <2>7 DEF RecordOK, CausedBy
<1> HIDE DEF w
<1>6. StoresOK(w)
  BY <1>3, <1>4, <1>5 DEF StoresOK
<1> QED
  BY <1>2, <1>3, <1>6 DEF w

Recorded(st, keys, c, version) ==
  [st EXCEPT !.record = [k \in Key |->
               IF k \in keys THEN [command |-> c, version |-> version] ELSE @[k]]]

\* A key recorded with an event its command caused.
LEMMA RecordedKeeps ==
  ASSUME NEW st, StoresOK(st), NEW keys, NEW c \in Command(Mission), NEW version \in Nat,
         CausedBy(st.log[c.mission], c, version)
  PROVE  /\ StoresOK(Recorded(st, keys, c, version))
         /\ Recorded(st, keys, c, version).log = st.log
<1>1. PICK a \in [Mission -> Snapshot], b \in [Mission -> Seq(Event)], r \in [Key -> KeyRecord] :
        st = [missions |-> a, log |-> b, record |-> r]
  BY DEF StoresOK, Stores
<1>2. PICK q : q = [k \in Key |-> IF k \in keys THEN [command |-> c, version |-> version] ELSE r[k]]
  OBVIOUS
<1>3. q \in [Key -> KeyRecord]
  BY <1>2 DEF KeyRecord
<1>4. PICK new : new = [missions |-> a, log |-> b, record |-> q]
  OBVIOUS
<1>5. new = Recorded(st, keys, c, version)
  <2>1. new = [st EXCEPT !.record = q]
    BY <1>1, <1>4
  <2>2. q = [k \in Key |-> IF k \in keys THEN [command |-> c, version |-> version]
                           ELSE st.record[k]]
    BY <1>1, <1>2
  <2> QED
    BY <2>1, <2>2 DEF Recorded
<1>6. /\ new.log = st.log /\ new.missions = st.missions /\ new.record = q /\ st.record = r
      /\ new \in Stores
  <2>1. new \in Stores
    BY <1>3, <1>4 DEF Stores
  <2>2. new.log = b /\ new.missions = a /\ new.record = q
    BY <1>4
  <2>3. st.log = b /\ st.missions = a /\ st.record = r
    BY <1>1
  <2> QED
    BY <2>1, <2>2, <2>3
<1>7. \A m \in Mission : MissionOK(new, m)
  BY <1>6 DEF StoresOK, MissionOK
<1>8. ASSUME NEW k \in Key PROVE RecordOK(new, k)
  <2>1. CASE k \in keys
    BY <1>2, <1>6, <2>1 DEF RecordOK
  <2>2. CASE k \notin keys
    <3>1. RecordOK(st, k) /\ q[k] = r[k]
      BY <1>2, <2>2 DEF StoresOK
    <3> QED
      BY <1>6, <3>1 DEF RecordOK
  <2> QED
    BY <2>1, <2>2
<1> QED
  BY <1>5, <1>6, <1>7, <1>8 DEF StoresOK

LEMMA EmptyOK == StoresOK(Empty)
<1>1. Absent \in Snapshot /\ FreeKey \in KeyRecord /\ Free(FreeKey)
  <2>1. 0 \in 0..PlanSteps
    BY PlanStepsAssumption
  <2> QED
    BY <2>1 DEF Absent, Snapshot, FreeKey, KeyRecord, Free
<1>0. <<>> \in Seq(Event)
  OBVIOUS
<1>2. LogOK(<<>>)
  <2>1. Len(<<>>) = 0
    OBVIOUS
  <2> QED
    BY <2>1 DEF LogOK
<1>3. Empty \in Stores
  BY <1>0, <1>1 DEF Empty, Stores
<1>4. \A m \in Mission : MissionOK(Empty, m)
  BY <1>2 DEF Empty, MissionOK
<1>5. \A k \in Key : RecordOK(Empty, k)
  BY <1>1 DEF Empty, RecordOK
<1> QED
  BY <1>3, <1>4, <1>5 DEF StoresOK

-----------------------------------------------------------------------------
(* The inductive invariant *)

Keeps(st, events) ==
  \A e \in events : e.mission \in Mission /\ \E i \in 1..Len(st.log[e.mission]) : st.log[e.mission][i] = e

\* A mission with a log has a drawn identifier.
Known(st) == \A m \in Mission : st.log[m] # <<>> => m \in used

Copies == [phase : {"outside", "hydrated", "answered"}, stores : Stores,
           added : SUBSET Event]

\* What process p holds: consistent stores, with everything that is kept, and
\* with what it is about to add.
Holds(p) ==
  /\ StoresOK(proc[p].stores) /\ Known(proc[p].stores)
  /\ proc[p].phase # "outside" =>
       Keeps(proc[p].stores, kept) /\ Keeps(proc[p].stores, proc[p].added)

FileInv ==
  /\ proc \in [Process -> Copies]
  /\ used \subseteq Mission
  /\ StoresOK(file) /\ Known(file) /\ Keeps(file, kept)
  /\ \A p \in Process : Holds(p)

LEMMA GrowsKeeps ==
  ASSUME NEW st \in Stores, NEW new, NEW events, Keeps(st, events),
         \A m \in Mission : Grows(st.log[m], new.log[m])
  PROVE  Keeps(new, events)
<1> SUFFICES ASSUME NEW e \in events
             PROVE  /\ e.mission \in Mission
                    /\ \E i \in 1..Len(new.log[e.mission]) : new.log[e.mission][i] = e
  BY DEF Keeps
<1>1. PICK i \in 1..Len(st.log[e.mission]) : st.log[e.mission][i] = e
  BY DEF Keeps
<1>2. e.mission \in Mission /\ Grows(st.log[e.mission], new.log[e.mission])
  BY DEF Keeps
<1>3. Len(st.log[e.mission]) \in Nat
  BY <1>2 DEF Stores
<1> QED
  BY <1>1, <1>2, <1>3 DEF Grows

\* Process p has answered from the stores it held, with the events of new.
LEMMA AnsweredKeeps ==
  ASSUME FileInv, NEW p \in Process, NEW st, NEW new,
         Answered(p, st, new), UNCHANGED <<file, kept>>,
         StoresOK(st), new \subseteq Event, Keeps(st, new),
         \A m \in Mission : Grows(proc[p].stores.log[m], st.log[m]),
         used \subseteq used', used' \subseteq Mission,
         \A m \in Mission : st.log[m] # <<>> => m \in used'
  PROVE  FileInv'
<1>1. PICK c : c = [phase |-> "answered", stores |-> st, added |-> new]
  OBVIOUS
<1>2. c \in Copies
  BY <1>1 DEF Copies, StoresOK
<1>3. proc' = [proc EXCEPT ![p] = c] /\ proc \in [Process -> Copies] /\ proc[p].phase = "hydrated"
  BY <1>1 DEF Answered, FileInv
<1>4. StoresOK(file') /\ Known(file)' /\ Keeps(file', kept')
  BY DEF FileInv, Known
<1>5. ASSUME NEW q \in Process PROVE Holds(q)'
  <2>1. CASE q = p
    <3>1. Keeps(st, kept)
      <4>1. proc[p].stores \in Stores /\ Keeps(proc[p].stores, kept)
        BY <1>3 DEF FileInv, Holds, StoresOK
      <4> QED
        BY <4>1, GrowsKeeps
    <3>2. proc'[q] = c /\ c.stores = st /\ c.added = new
      BY <1>1, <1>3, <2>1
    <3> QED
      BY <3>1, <3>2 DEF Holds, Known
  <2>2. CASE q # p
    <3>1. proc'[q] = proc[q]
      BY <1>3, <2>2
    <3> QED
      BY <3>1 DEF FileInv, Holds, Known
  <2> QED
    BY <2>1, <2>2
<1> QED
  BY <1>2, <1>3, <1>4, <1>5 DEF FileInv

LEMMA DraftType ==
  Draft \in Snapshot /\ Draft.status \in Reached /\ "UNKNOWN" \in Reached
<1>1. "DRAFT" \in Reached /\ "UNKNOWN" \in Reached
  BY DEF Reached, Status
<1>2. 0 \in 0..PlanSteps
  BY PlanStepsAssumption
<1> QED
  BY <1>1, <1>2 DEF Draft, Snapshot, Reached

\* A held mission that has a snapshot has a log and is not yet another one's.
LEMMA HeldMission ==
  ASSUME NEW st, StoresOK(st), NEW m \in Mission
  PROVE  /\ st.missions[m] \in Snapshot
         /\ st.log[m] \in Seq(Event)
         /\ st.missions[m] # Absent => st.log[m] # <<>>
BY DEF StoresOK, Stores, MissionOK

\* The last event of what was written is the event written.
LEMMA WrittenHas ==
  ASSUME NEW l \in Seq(Event), NEW e \in Event, NEW next, next = l \o <<e>>
  PROVE  /\ Len(next) = Len(l) + 1 /\ Len(l) \in Nat
         /\ Len(next) \in 1..Len(next)
         /\ next[Len(next)] = e
         /\ \A i \in 1..Len(l) : next[i] = l[i]
OBVIOUS

LEMMA WrittenKeepsNew ==
  ASSUME NEW st, StoresOK(st), NEW new, \A e \in new : MayFollow(st, e),
         \A e, f \in new : e.mission = f.mission => e = f
  PROVE  Keeps(Written(st, new), new)
<1> SUFFICES ASSUME NEW e \in new
             PROVE  /\ e.mission \in Mission
                    /\ \E i \in 1..Len(Written(st, new).log[e.mission]) :
                         Written(st, new).log[e.mission][i] = e
  BY DEF Keeps
<1>1. e \in Event /\ e.mission \in Mission
  BY DEF MayFollow, Event
<1>2. PICK l \in Seq(Event) : l = st.log[e.mission]
  BY <1>1, HeldMission
<1>3. PICK next : next = Written(st, new).log[e.mission]
  OBVIOUS
<1>4. next = l \o <<e>>
  BY <1>2, <1>3, WrittenKeeps
<1>5. Len(next) \in 1..Len(next) /\ next[Len(next)] = e
  BY <1>1, <1>4, WrittenHas
<1> QED
  BY <1>1, <1>3, <1>5

LEMMA StartKeeps ==
  ASSUME FileInv, NEW p \in Process, Start(p)
  PROVE  FileInv'
<1>1. PICK m \in Mission : m \notin used
        /\ LET e == [mission |-> m, type |-> "STATE_TRANSITION", snapshot |-> Draft]
           IN  Answered(p, Written(proc[p].stores, {e}), {e})
        /\ used' = used \union {m} /\ UNCHANGED <<file, kept>>
  BY DEF Start
<1>2. PICK e : e = [mission |-> m, type |-> "STATE_TRANSITION", snapshot |-> Draft]
  OBVIOUS
<1>3. e \in Event /\ e.mission = m /\ e.snapshot = Draft
  BY <1>2, DraftType DEF Event
<1>4. PICK st : st = proc[p].stores
  OBVIOUS
<1>5. StoresOK(st) /\ st.log[m] = <<>> /\ Known(st)
  BY <1>1, <1>4 DEF FileInv, Holds, Known
<1>6. MayFollow(st, e)
  BY <1>3, <1>5, DraftType DEF MayFollow
<1>7. PICK w : w = Written(st, {e})
  OBVIOUS
<1>8. /\ StoresOK(w) /\ Keeps(w, {e})
      /\ \A n \in Mission : Grows(st.log[n], w.log[n])
      /\ \A n \in Mission : n # m => w.log[n] = st.log[n]
  BY <1>3, <1>5, <1>6, <1>7, WrittenKeeps, WrittenKeepsNew
<1>9. \A n \in Mission : w.log[n] # <<>> => n \in used'
  BY <1>1, <1>5, <1>8 DEF Known
<1>10. Answered(p, w, {e}) /\ UNCHANGED <<file, kept>>
  BY <1>1, <1>2, <1>4, <1>7
<1>11. used \subseteq used' /\ used' \subseteq Mission
  BY <1>1 DEF FileInv
<1> QED
  BY <1>3, <1>4, <1>8, <1>9, <1>10, <1>11, AnsweredKeeps

LEMMA ApplyKeeps ==
  ASSUME FileInv, NEW p \in Process, NEW m \in Mission, NEW c \in CommandOf(m), NEW keys,
         Apply(p, c, keys)
  PROVE  FileInv'
<1>1. PICK st : st = proc[p].stores
  OBVIOUS
<1>2. PICK s : s = st.missions[m]
  OBVIOUS
<1>3. StoresOK(st) /\ Known(st) /\ c.mission = m /\ c \in Command(Mission)
  <2>1. CommandOf(m) = CommandOf(m) /\ Draft \in Snapshot
    BY DraftType
  <2> QED
    BY <1>1, <2>1, SuccessorIs DEF FileInv, Holds
<1>4. s \in Snapshot /\ st.log[m] \in Seq(Event)
  BY <1>2, <1>3, HeldMission
<1>5. PICK x : x = Successor(s, c)
  OBVIOUS
<1>6. /\ x \in Snapshot /\ x.status \in Reached /\ x.version = s.version + 1
      /\ EventType(c) \in {"STATE_TRANSITION", "APPROVAL_DECIDED", "RECONCILED"}
  BY <1>4, <1>5, SuccessorIs
<1>7. PICK e : e = [mission |-> m, type |-> EventType(c), snapshot |-> x]
  OBVIOUS
<1>8. e \in Event /\ e.mission = m /\ e.type = EventType(c) /\ e.snapshot = x
  BY <1>6, <1>7 DEF Event
<1>9. PICK w : w = Written(st, {e})
  OBVIOUS
<1>10. /\ s # Absent /\ Admissible(s, c) /\ UNCHANGED <<file, used, kept>>
       /\ Answered(p, [w EXCEPT !.record = [k \in Key |->
                         IF k \in keys THEN [command |-> c, version |-> x.version]
                         ELSE @[k]]], {e})
  <2>1. e = [mission |-> c.mission, type |-> EventType(c),
             snapshot |-> Successor(st.missions[c.mission], c)]
    BY <1>2, <1>3, <1>5, <1>7
  <2>2. e.snapshot.version = x.version
    BY <1>8
  <2>3. /\ s # Absent /\ Admissible(s, c) /\ UNCHANGED <<file, used, kept>>
        /\ Answered(p, [w EXCEPT !.record = [k \in Key |->
                          IF k \in keys THEN [command |-> c, version |-> e.snapshot.version]
                          ELSE @[k]]], {e})
    BY <1>1, <1>2, <1>3, <1>9, <2>1 DEF Apply
  <2> QED
    BY <2>2, <2>3
<1>11. MayFollow(st, e)
  <2>1. s.status \notin Terminal /\ s.version < x.version
    BY <1>4, <1>6, <1>10 DEF Admissible, Snapshot
  <2> QED
    BY <1>2, <1>6, <1>8, <2>1 DEF MayFollow
<1>12. /\ StoresOK(w) /\ Keeps(w, {e})
       /\ \A n \in Mission : Grows(st.log[n], w.log[n])
       /\ w.log[m] = st.log[m] \o <<e>>
       /\ \A n \in Mission : n # m => w.log[n] = st.log[n]
  <2>1. PICK new : new = {e}
    OBVIOUS
  <2>2. /\ \A f \in new : MayFollow(st, f) /\ f = e
        /\ \A f, g \in new : f.mission = g.mission => f = g
    BY <1>11, <2>1
  <2>3. StoresOK(Written(st, new)) /\ Keeps(Written(st, new), new)
    BY <1>3, <2>2, WrittenKeeps, WrittenKeepsNew
  <2>4. \A n \in Mission : Grows(st.log[n], Written(st, new).log[n])
    BY <1>3, <2>2, WrittenKeeps
  <2>5. \A f \in new : Written(st, new).log[f.mission] = st.log[f.mission] \o <<f>>
    BY <1>3, <2>2, WrittenKeeps
  <2>6. \A n \in Mission : n # m => Written(st, new).log[n] = st.log[n]
    BY <1>3, <1>8, <2>2, WrittenKeeps
  <2> QED
    BY <1>8, <1>9, <2>1, <2>3, <2>4, <2>5, <2>6
<1>13. PICK l \in Seq(Event), next \in Seq(Event) : l = st.log[m] /\ next = w.log[m]
  BY <1>4, <1>12, HeldMission
<1>14. l # <<>> /\ Replayed(l) = s
  BY <1>2, <1>3, <1>10, <1>13 DEF StoresOK, MissionOK
<1>15. CausedBy(next, c, x.version)
  <2>1. /\ Len(next) = Len(l) + 1 /\ next[Len(next)] = e /\ Len(l) \in Nat
        /\ \A i \in 1..Len(l) : next[i] = l[i]
    <3>1. next = l \o <<e>> /\ e \in Event
      BY <1>8, <1>12, <1>13
    <3> QED
      BY <3>1, WrittenHas
  <2>2. Len(l) > 0
    BY <1>14
  <2>3. Len(next) \in 2..Len(next) /\ next[Len(next) - 1] = l[Len(l)]
    BY <2>1, <2>2
  <2>4. next[Len(next) - 1].snapshot = s
    BY <1>14, <2>3 DEF Replayed
  <2> QED
    BY <1>5, <1>8, <2>1, <2>3, <2>4 DEF CausedBy
<1>16. PICK new : new = Recorded(w, keys, c, x.version)
  OBVIOUS
<1>17. StoresOK(new) /\ new.log = w.log
  <2>1. x.version \in Nat
    BY <1>6 DEF Snapshot
  <2> QED
    <3>1. CausedBy(w.log[c.mission], c, x.version)
      BY <1>3, <1>13, <1>15
    <3> QED
      BY <1>3, <1>12, <1>16, <2>1, <3>1, RecordedKeeps
<1>18. /\ Keeps(new, {e})
       /\ \A n \in Mission : Grows(st.log[n], new.log[n])
  BY <1>12, <1>17 DEF Keeps
<1>19. \A n \in Mission : new.log[n] # <<>> => n \in used
  <2>1. m \in used
    BY <1>3, <1>13, <1>14 DEF Known
  <2> QED
    BY <1>3, <1>12, <1>17, <2>1 DEF Known
<1>20. Answered(p, new, {e}) /\ UNCHANGED <<file, kept>>
  BY <1>10, <1>16 DEF Recorded
<1>21. used \subseteq used' /\ used' \subseteq Mission /\ used' = used
  BY <1>10 DEF FileInv
<1> QED
  BY <1>1, <1>8, <1>17, <1>18, <1>19, <1>20, <1>21, AnsweredKeeps

LEMMA RecoverKeeps ==
  ASSUME FileInv, NEW p \in Process, Recover(p)
  PROVE  FileInv'
<1>1. PICK st : st = proc[p].stores
  OBVIOUS
<1>2. StoresOK(st) /\ Known(st)
  BY <1>1 DEF FileInv, Holds
<1> DEFINE hit == {m \in Mission : st.missions[m].status \in DefaultRecoverable}
           Marked(m) == [mission |-> m, type |-> "STATE_TRANSITION",
                         snapshot |-> NextSnapshot(st.missions[m], "UNKNOWN", st.missions[m])]
<1>3. PICK new : new = {Marked(m) : m \in hit}
  OBVIOUS
<1>4. ASSUME NEW m \in hit
      PROVE  /\ Marked(m).mission = m /\ MayFollow(st, Marked(m)) /\ st.log[m] # <<>>
  <2>1. PICK s \in Snapshot : s = st.missions[m]
    BY <1>2, HeldMission
  <2>2. PICK x : x = NextSnapshot(s, "UNKNOWN", s)
    OBVIOUS
  <2>3. x \in Snapshot /\ x.status \in Reached /\ x.version = s.version + 1
    BY <2>2, DraftType, NextSnapshotIs
  <2>4. s.status \in DefaultRecoverable
    BY <2>1
  <2>5. s.status \in Status /\ "UNKNOWN" \in ValidTransitions[s.status]
    BY <2>4 DEF DefaultRecoverable
  <2>6. s.status \notin Terminal
    BY <2>5 DEF ValidTransitions
  <2>7. s # Absent
    BY <2>5 DEF Absent, Status
  <2>8. PICK e : e = Marked(m)
    OBVIOUS
  <2>9. e = [mission |-> m, type |-> "STATE_TRANSITION", snapshot |-> x]
    BY <2>1, <2>2, <2>8
  <2>10. e \in Event /\ e.mission = m /\ e.snapshot = x
    BY <2>3, <2>9 DEF Event
  <2>11. s.version < x.version
    BY <2>3 DEF Snapshot
  <2>12. MayFollow(st, e)
    BY <2>1, <2>3, <2>6, <2>10, <2>11 DEF MayFollow
  <2> QED
    BY <1>2, <2>1, <2>7, <2>8, <2>10, <2>12, HeldMission
<1>5. PICK w : w = Written(st, new)
  OBVIOUS
<1>6. Answered(p, w, new) /\ UNCHANGED <<file, used, kept>>
  BY <1>1, <1>3, <1>5 DEF Recover
<1> HIDE DEF Marked
<1>7. /\ \A e \in new : MayFollow(st, e)
      /\ \A e, f \in new : e.mission = f.mission => e = f
      /\ \A e \in new : st.log[e.mission] # <<>>
  BY <1>3, <1>4
<1>8. StoresOK(w) /\ Keeps(w, new)
  BY <1>2, <1>5, <1>7, WrittenKeeps, WrittenKeepsNew
<1>9. \A m \in Mission : Grows(st.log[m], w.log[m])
  BY <1>2, <1>5, <1>7, WrittenKeeps
<1>10. \A m \in Mission : (\A e \in new : e.mission # m) => w.log[m] = st.log[m]
  BY <1>2, <1>5, <1>7, WrittenKeeps
<1>11. \A m \in Mission : w.log[m] # <<>> => m \in used
  BY <1>2, <1>7, <1>10 DEF Known
<1>12. new \subseteq Event
  BY <1>7 DEF MayFollow
<1>13. used \subseteq used' /\ used' \subseteq Mission /\ used' = used
  BY <1>6 DEF FileInv
<1> QED
  BY <1>1, <1>6, <1>8, <1>9, <1>11, <1>12, <1>13, AnsweredKeeps

LEMMA ReplayKeeps ==
  ASSUME FileInv, NEW p \in Process, NEW k \in Key, Replay(p, k)
  PROVE  FileInv'
<1>1. PICK st : st = proc[p].stores
  OBVIOUS
<1>2. StoresOK(st) /\ Known(st)
  BY <1>1 DEF FileInv, Holds
<1>3. Answered(p, st, {}) /\ UNCHANGED <<file, used, kept>>
  BY <1>1 DEF Replay
<1>4. \A m \in Mission : Grows(st.log[m], st.log[m])
  <2>1. \A m \in Mission : Len(st.log[m]) \in Nat
    BY <1>2, HeldMission
  <2> QED
    BY <2>1 DEF Grows
<1>5. Keeps(st, {}) /\ {} \subseteq Event
  BY DEF Keeps
<1>6. used \subseteq used' /\ used' \subseteq Mission /\ used' = used
  BY <1>3 DEF FileInv
<1> QED
  BY <1>1, <1>2, <1>3, <1>4, <1>5, <1>6, AnsweredKeeps DEF Known

\* Process p takes a copy of the file or drops what it holds.
LEMMA CopyKeeps ==
  ASSUME FileInv, NEW p \in Process, Hydrate(p) \/ Leave(p)
  PROVE  FileInv'
<1>1. PICK c \in {[phase |-> "hydrated", stores |-> file, added |-> {}], Outside} :
        proc' = [proc EXCEPT ![p] = c]
  BY DEF Hydrate, Leave, Contents
<1>2. UNCHANGED <<file, used, kept>>
  BY DEF Hydrate, Leave
<1>3. StoresOK(Empty) /\ Known(Empty)
  BY EmptyOK DEF Known, Empty
<1>4. c \in Copies /\ StoresOK(c.stores) /\ Known(c.stores) /\ c.added = {}
      /\ (c.phase # "outside" => c.stores = file)
  BY <1>3 DEF FileInv, Outside, Copies, StoresOK
<1>5. proc \in [Process -> Copies] /\ StoresOK(file') /\ Known(file)' /\ Keeps(file', kept')
  BY <1>2 DEF FileInv, Known
<1>6. ASSUME NEW q \in Process PROVE Holds(q)'
  <2>1. CASE q = p
    <3>1. proc'[q] = c
      BY <1>1, <1>5, <2>1
    <3>2. Keeps(c.stores, {}) /\ (c.phase # "outside" => Keeps(c.stores, kept))
      BY <1>4 DEF Keeps, FileInv
    <3> QED
      BY <1>2, <1>4, <3>1, <3>2 DEF Holds, Known
  <2>2. CASE q # p
    <3>1. proc'[q] = proc[q]
      BY <1>1, <1>5, <2>2
    <3> QED
      BY <1>2, <3>1 DEF FileInv, Holds, Known
  <2> QED
    BY <2>1, <2>2
<1> QED
  BY <1>1, <1>2, <1>4, <1>5, <1>6 DEF FileInv

LEMMA PersistKeeps ==
  ASSUME FileInv, NEW p \in Process, Persist(p)
  PROVE  FileInv'
<1>1. /\ proc[p].phase = "answered" /\ file' = proc[p].stores /\ used' = used
      /\ proc' = [proc EXCEPT ![p] = Outside] /\ proc \in [Process -> Copies]
      /\ \/ (\A q \in Process \ {p} : proc[q].phase = "outside")
            /\ kept' = kept \union proc[p].added
         \/ kept' = kept
  BY DEF Persist, FileInv
<1>2. /\ StoresOK(file') /\ (\A m \in Mission : file'.log[m] # <<>> => m \in used)
      /\ Keeps(file', kept) /\ Keeps(file', proc[p].added)
  BY <1>1 DEF FileInv, Holds, Known
<1>3. Keeps(file', kept')
  BY <1>1, <1>2 DEF Keeps
<1>4. StoresOK(Empty) /\ Known(Empty) /\ Outside \in Copies /\ Outside.phase = "outside"
      /\ Outside.stores = Empty
  BY EmptyOK DEF Known, Empty, Outside, Copies, StoresOK
<1>5. ASSUME NEW q \in Process PROVE Holds(q)'
  <2>1. CASE q = p
    <3>1. proc'[q] = Outside
      BY <1>1, <2>1
    <3> QED
      BY <1>1, <1>4, <3>1 DEF Holds, Known
  <2>2. CASE q # p
    <3>1. proc'[q] = proc[q] /\ (proc[q].phase # "outside" => kept' = kept)
      BY <1>1, <2>2
    <3>2. Holds(q)
      BY DEF FileInv
    <3> QED
      BY <1>1, <3>1, <3>2 DEF Holds, Known
  <2> QED
    BY <2>1, <2>2
<1>6. proc' \in [Process -> Copies]
  BY <1>1, <1>4
<1> QED
  BY <1>1, <1>2, <1>3, <1>5, <1>6 DEF FileInv, Known

LEMMA FileInvHolds == Spec => []FileInv
<1>1. Init => FileInv
  <2>1. Known(Empty) /\ Outside \in Copies /\ Outside.stores = Empty
        /\ Outside.phase = "outside" /\ Keeps(Empty, {})
    BY EmptyOK DEF Known, Empty, Outside, Copies, StoresOK, Keeps
  <2> QED
    BY <2>1, EmptyOK DEF Init, FileInv, Holds
<1>2. FileInv /\ [Next]_vars => FileInv'
  <2> SUFFICES ASSUME FileInv, [Next]_vars PROVE FileInv'
    OBVIOUS
  <2>1. CASE UNCHANGED vars
    BY <2>1 DEF vars, FileInv, Holds, Known
  <2>2. ASSUME NEW p \in Process, NEW m \in Mission, NEW c \in CommandOf(m),
               Apply(p, c, {}) \/ \E k \in Key : Apply(p, c, {k})
        PROVE  FileInv'
    BY <2>2, ApplyKeeps
  <2> QED
    BY <2>1, <2>2, StartKeeps, RecoverKeeps, ReplayKeeps, CopyKeeps, PersistKeeps DEF Next
<1> QED
  BY <1>1, <1>2, PTL DEF Spec

-----------------------------------------------------------------------------
(* Theorems *)

\* The file is always one consistent whole, whatever processes overwrite each
\* other and die: a mission is what its log replays to, and a key is recorded
\* exactly with an event its command may cause (file-mission-store.ts).
THEOREM FileStaysConsistent == Spec => []FileIsConsistent
<1>1. ASSUME FileInv PROVE FileIsConsistent
  <2>1. StoresOK(file)
    BY <1>1 DEF FileInv
  <2>2. ASSUME NEW m \in Mission
        PROVE  IF file.log[m] = <<>> THEN file.missions[m] = Absent
               ELSE Replayable(file.log[m]) /\ Replayed(file.log[m]) = file.missions[m]
    BY <2>1 DEF StoresOK, MissionOK, LogOK, Replayable
  <2>3. ASSUME NEW k \in Key, ~ Free(file.record[k]), NEW c, c = file.record[k].command
        PROVE  \E i \in DOMAIN file.log[c.mission] \ {1} :
                 /\ file.log[c.mission][i].snapshot.version = file.record[k].version
                 /\ file.log[c.mission][i].type = EventType(c)
                 /\ file.log[c.mission][i].snapshot
                      = Successor(file.log[c.mission][i - 1].snapshot, c)
    <3>1. c \in Command(Mission) /\ CausedBy(file.log[c.mission], c, file.record[k].version)
      BY <2>1, <2>3 DEF StoresOK, RecordOK
    <3>2. PICK l \in Seq(Event) : l = file.log[c.mission]
      BY <2>1, <3>1, HeldMission DEF Command
    <3>3. \A i \in 2..Len(l) : i \in DOMAIN l \ {1}
      BY <3>2
    <3> QED
      BY <3>1, <3>2, <3>3 DEF CausedBy
  <2>4. \A k \in Key : ~ Free(file.record[k]) =>
          LET c == file.record[k].command IN
          \E i \in DOMAIN file.log[c.mission] \ {1} :
            /\ file.log[c.mission][i].snapshot.version = file.record[k].version
            /\ file.log[c.mission][i].type = EventType(c)
            /\ file.log[c.mission][i].snapshot
                 = Successor(file.log[c.mission][i - 1].snapshot, c)
    BY <2>3
  <2> QED
    BY <2>2, <2>4 DEF FileIsConsistent
<1> QED
  BY <1>1, FileInvHolds, PTL

\* Processes that overlap overwrite each other; an event persisted while no
\* other process held a copy of the file stays in it, whoever dies.
THEOREM LossNeedsOverlap == Spec => []OnlyOverlapLoses
<1>1. ASSUME FileInv, NEW e \in kept
      PROVE  \E i \in DOMAIN file.log[e.mission] : file.log[e.mission][i] = e
  <2>1. PICK i \in 1..Len(file.log[e.mission]) : file.log[e.mission][i] = e
    BY <1>1 DEF FileInv, Keeps
  <2>2. file.log[e.mission] \in Seq(Event)
    BY <1>1, HeldMission DEF FileInv, Keeps
  <2> QED
    BY <2>1, <2>2
<1>2. FileInv => OnlyOverlapLoses
  BY <1>1 DEF OnlyOverlapLoses
<1> QED
  BY <1>2, FileInvHolds, PTL

\* What the policy and the projection make of each status that is reached.
LEMMA ReadingsOfStatus ==
  ASSUME NEW status \in Reached
  PROVE  /\ status \in DefaultRecoverable <=> status = "RUNNING"
         /\ Projection(status).next = "none" <=> status \in Terminal
         /\ Projection(status).recovery # {} <=> status = "UNKNOWN"
<1>1. status \in Status /\ status # "RETRYING"
  BY DEF Reached
<1>2. "UNKNOWN" \in ValidTransitions[status] <=> status = "RUNNING"
  BY <1>1 DEF ValidTransitions, Status, Terminal, RecoveryTargets
<1>3. NextAction[status] = "none" <=> status \in Terminal
  BY <1>1 DEF NextAction, Status, Terminal
<1>4. status = "UNKNOWN" => ValidTransitions[status] = RecoveryTargets
  BY <1>1 DEF ValidTransitions, Status, Terminal
<1> QED
  BY <1>1, <1>2, <1>3, <1>4 DEF DefaultRecoverable, Projection, RecoveryTargets

\* The recovery policy, the runtime's recovery pass and the projection agree on
\* every mission of the file, and the evidence in its log says how a mission
\* that was UNKNOWN ended (recovery/, projection/).
THEOREM ReadersAgree == Spec => []RecoveryAgrees
<1>1. ASSUME FileInv, NEW m \in Mission, file.log[m] # <<>>,
             NEW s, s = file.missions[m],
             NEW action, action = RecoveryAction(s, file.log[m])
      PROVE  /\ (action = "recover-to-unknown") <=> (s.status \in DefaultRecoverable)
             /\ (action = "terminal") <=> (Projection(s.status).next = "none")
             /\ (action = "decide-by-evidence") <=> (Projection(s.status).recovery # {})
             /\ UnknownMarkers(file.log[m]) # {} =>
                  (s.status = "COMPLETED" <=> DecideUnknownRecovery(file.log[m]) = "completed")
  <2>1. PICK l \in Seq(Event) : l = file.log[m]
    BY <1>1, HeldMission DEF FileInv
  <2>2. LogOK(l) /\ s = Replayed(l) /\ l # <<>> /\ Len(l) \in Nat /\ Len(l) > 0
    BY <1>1, <2>1 DEF FileInv, StoresOK, MissionOK
  <2>3. s.status \in Reached /\ s = l[Len(l)].snapshot
    BY <2>2 DEF LogOK, Replayed
  <2>4. action = IF s.status = "RUNNING" THEN "recover-to-unknown"
                 ELSE IF s.status = "UNKNOWN" THEN "decide-by-evidence"
                 ELSE IF s.status \in Terminal THEN "terminal" ELSE "leave"
    BY <1>1, <2>1, <2>2, <2>3 DEF RecoveryAction, EffectiveStatus, Terminal, Reached
  <2>5. /\ (action = "recover-to-unknown") <=> (s.status \in DefaultRecoverable)
        /\ (action = "terminal") <=> (Projection(s.status).next = "none")
        /\ (action = "decide-by-evidence") <=> (Projection(s.status).recovery # {})
    BY <2>3, <2>4, ReadingsOfStatus DEF Terminal
  <2>6. ASSUME UnknownMarkers(l) # {}
        PROVE  s.status = "COMPLETED" <=> DecideUnknownRecovery(l) = "completed"
    <3>1. DOMAIN l = 1..Len(l)
      BY <2>1
    <3>2. EndsAfter(l) = IF s.status \in Terminal THEN {Len(l)} ELSE {}
      <4>1. \A i \in EndsAfter(l) : i = Len(l) /\ s.status \in Terminal
        BY <2>2, <2>3, <3>1 DEF EndsAfter, LogOK
      <4>2. ASSUME s.status \in Terminal PROVE Len(l) \in EndsAfter(l)
        <5>1. s.status # "UNKNOWN"
          BY <4>2 DEF Terminal
        <5>2. \A j \in UnknownMarkers(l) : j < Len(l)
          BY <2>2, <2>3, <3>1, <5>1 DEF UnknownMarkers
        <5> QED
          BY <2>2, <2>3, <2>6, <3>1, <4>2, <5>2 DEF EndsAfter
      <4> QED
        BY <4>1, <4>2
    <3>3. CASE s.status \in Terminal
      <4>1. (CHOOSE i \in EndsAfter(l) : \A j \in EndsAfter(l) : i <= j) = Len(l)
        BY <2>2, <3>2, <3>3
      <4>2. DecideUnknownRecovery(l) =
              IF l[Len(l)].snapshot.status = "COMPLETED" THEN "completed" ELSE "failed"
        BY <3>2, <3>3, <4>1 DEF DecideUnknownRecovery
      <4> QED
        BY <2>3, <4>2
    <3>4. CASE s.status \notin Terminal
      BY <3>2, <3>4 DEF DecideUnknownRecovery, Terminal
    <3> QED
      BY <3>3, <3>4
  <2> QED
    BY <2>1, <2>5, <2>6
<1>2. FileInv => RecoveryAgrees
  BY <1>1 DEF RecoveryAgrees
<1> QED
  BY <1>2, FileInvHolds, PTL

=============================================================================
