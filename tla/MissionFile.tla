----------------------------- MODULE MissionFile -----------------------------
(***************************************************************************)
(* The command line over missions: every process of `drenyra-ai mission`   *)
(* hydrates the in-memory stores from one JSON file, runs the runtime on   *)
(* them and replaces the file by an atomic rename                          *)
(* (cmd/adapters/file-mission-store.ts, cmd/commands/mission-*.ts), and    *)
(* what is then read out of the file: the replay of the event log, the     *)
(* recovery policy and the projection (recovery/, projection/).            *)
(*                                                                         *)
(* Inside a process nothing interleaves, so a whole runtime call is one    *)
(* step here; processes interleave at the reads and the replacements of    *)
(* the file.  Left out: files somebody else broke (hydrate then fails and  *)
(* nothing is written), the temporary files of dead processes, and the     *)
(* expiry of keys, which MissionRuntime has.                               *)
(***************************************************************************)
EXTENDS MissionProtocol, Sequences
LOCAL INSTANCE Functions

CONSTANTS
    Mission,      \* identifiers start() may draw
    Key,          \* idempotency keys
    Process,      \* processes of the command line
    MaxEvents     \* bound on the events of a store, over all its missions

ASSUME FileAssumption == MaxEvents \in Nat

VARIABLES
    file,         \* the contents of the store file (missing = empty)
    proc,         \* [Process -> what the process holds]
    used,         \* identifiers drawn so far, by any process
    kept          \* events persisted while no other process held a copy

vars == <<file, proc, used, kept>>

-----------------------------------------------------------------------------
(* Stores: snapshots, the event log, and the completed idempotency records. *)
(* EXECUTING and FAILED records never reach the file: a call that throws    *)
(* persists nothing.                                                        *)

Event == [mission : Mission, type : {"STATE_TRANSITION", "APPROVAL_DECIDED",
                                     "RECONCILED"}, snapshot : Snapshot]
NoRequest == [type |-> "none", mission |-> "none", expected |-> NoVersion,
              resolution |-> "none"]
FreeKey == [command |-> NoRequest, version |-> 0]
Free(r) == r.version = 0

\* The commands on mission m. A stale expectedMissionVersion refuses the call,
\* which Leave covers; an exact one changes nothing.
CommandOf(m) ==
  LET Asks(type, r) == [type |-> type, mission |-> m, expected |-> NoVersion,
                        resolution |-> r]
  IN  {Asks(type, "RUNNING") : type \in {"execute", "approve", "reject"}}
        \union {Asks("reconcile", r) : r \in RecoveryTargets}

Empty == [missions |-> [m \in Mission |-> Absent],
          log |-> [m \in Mission |-> <<>>],
          record |-> [k \in Key |-> FreeKey]]

\* hydrate reads all three parts from the one file; a missing file is empty.
ContentsMerged(onDisk) == [onDisk EXCEPT !.log = [m \in Mission |->
    IF Len(@[m]) > 1 THEN Tail(@[m]) ELSE @[m]]]                    \* a mutant
Contents(onDisk) == onDisk

Outside == [phase |-> "outside", stores |-> Empty, added |-> {}]

Init ==
  /\ file = Empty
  /\ proc = [p \in Process |-> Outside]
  /\ used = {}
  /\ kept = {}

-----------------------------------------------------------------------------
\* MissionFileStore.hydrate
HydrateOld(p) ==                                                    \* a mutant
  /\ proc[p].phase = "outside"
  /\ \E onDisk \in {file, Empty} :
       proc' = [proc EXCEPT ![p] = [phase |-> "hydrated", stores |-> Contents(onDisk),
                                    added |-> {}]]
  /\ UNCHANGED <<file, used, kept>>
Hydrate(p) ==
  /\ proc[p].phase = "outside"
  /\ proc' = [proc EXCEPT ![p] = [phase |-> "hydrated", stores |-> Contents(file),
                                  added |-> {}]]
  /\ UNCHANGED <<file, used, kept>>

\* The stores after the events of new (one per mission) have been written.
Written(st, new) ==
  [st EXCEPT !.missions = [m \in Mission |->
                             IF \E e \in new : e.mission = m
                             THEN (CHOOSE e \in new : e.mission = m).snapshot ELSE @[m]],
             !.log = [m \in Mission |->
                        @[m] \o (IF \E e \in new : e.mission = m
                                 THEN <<CHOOSE e \in new : e.mission = m>> ELSE <<>>)]]

Events(st) == FoldFunction(+, 0, [m \in Mission |-> Len(st.log[m])])

\* The process' runtime has answered; its stores are now st.
Answered(p, st, new) ==
  /\ proc[p].phase = "hydrated"
  /\ Events(st) <= MaxEvents
  /\ proc' = [proc EXCEPT ![p] = [phase |-> "answered", stores |-> st, added |-> new]]

\* mission start: a new identifier, DRAFT, one event.
Start(p) ==
  \E m \in Mission \ used :
    LET e == [mission |-> m, type |-> "STATE_TRANSITION", snapshot |-> Draft]
    IN  /\ Answered(p, Written(proc[p].stores, {e}), {e})
        /\ used' = used \union {m}
        /\ UNCHANGED <<file, kept>>

\* mission apply with a free key or none; refused calls throw (Leave).
Apply(p, c, keys) ==
  LET st == proc[p].stores
      s  == st.missions[c.mission]
      e  == [mission |-> c.mission, type |-> EventType(c), snapshot |-> Successor(s, c)]
      w  == Written(st, {e})
  IN  /\ \A k \in keys : Free(st.record[k])
      /\ s # Absent
      /\ Admissible(s, c)
      /\ Answered(p, [w EXCEPT !.record = [k \in Key |->
                        IF k \in keys
                        THEN [command |-> c, version |-> e.snapshot.version]
                        ELSE @[k]]], {e})
      /\ UNCHANGED <<file, used, kept>>

\* mission apply with the key and the payload of an earlier command: the answer
\* is replayed, and the stores are persisted all the same.
Replay(p, k) ==
  /\ ~ Free(proc[p].stores.record[k])
  /\ Answered(p, proc[p].stores, {})
  /\ UNCHANGED <<file, used, kept>>

\* mission recover: every mission in flight becomes UNKNOWN.
Recover(p) ==
  LET st  == proc[p].stores
      hit == {m \in Mission : st.missions[m].status \in DefaultRecoverable}
      Marked(m) == [mission |-> m, type |-> "STATE_TRANSITION",
                    snapshot |-> NextSnapshot(st.missions[m], "UNKNOWN", st.missions[m])]
      new == {Marked(m) : m \in hit}
  IN  /\ Answered(p, Written(st, new), new)
      /\ UNCHANGED <<file, used, kept>>

\* A refused call, a read-only one (mission status) or a crash: nothing is written.
Leave(p) ==
  /\ proc[p].phase # "outside"
  /\ proc' = [proc EXCEPT ![p] = Outside]
  /\ UNCHANGED <<file, used, kept>>

\* MissionFileStore.persist, up to the rename that replaces the file.
Persist(p) ==
  /\ proc[p].phase = "answered"
  /\ file' = proc[p].stores
  /\ kept' = IF \A q \in Process \ {p} : proc[q].phase = "outside"
             THEN kept \union proc[p].added ELSE kept
  /\ proc' = [proc EXCEPT ![p] = Outside]
  /\ UNCHANGED used

Next ==
  \E p \in Process :
    \/ Hydrate(p)
    \/ Start(p)
    \/ \E m \in Mission : \E c \in CommandOf(m) :
         \/ Apply(p, c, {})
         \/ \E k \in Key : Apply(p, c, {k})
    \/ \E k \in Key : Replay(p, k)
    \/ Recover(p)
    \/ Leave(p)
    \/ Persist(p)

Spec == Init /\ [][Next]_vars

-----------------------------------------------------------------------------
(* What is read out of a log. *)

\* replayMission accepts the log: sequences strictly increase.
Replayable(l) == l # <<>> /\ \A i \in 1..Len(l) - 1 :
                               l[i].snapshot.version < l[i + 1].snapshot.version
Replayed(l) == l[Len(l)].snapshot

\* effectiveStatus: the last event wins over the stored status.
EffectiveStatus(status, l) == IF l = <<>> THEN status ELSE Replayed(l).status

RecoveryActionByHand(s, l) ==                                       \* a mutant
  LET current == EffectiveStatus(s.status, l)
  IN  CASE current \in {"RUNNING", "RETRYING", "UNKNOWN"} -> "recover-to-unknown"
        [] current \in Terminal                           -> "terminal"
        [] OTHER                                          -> "leave"
RecoveryAction(s, l) ==
  LET current == EffectiveStatus(s.status, l)
  IN  CASE current \in {"RUNNING", "RETRYING"} -> "recover-to-unknown"
        [] current = "UNKNOWN"                 -> "decide-by-evidence"
        [] current \in Terminal                -> "terminal"
        [] OTHER                               -> "leave"

UnknownMarkers(l) == {i \in DOMAIN l : l[i].snapshot.status = "UNKNOWN"}

\* The ends recorded after the last marker.
EndsAfter(l) == {i \in DOMAIN l : /\ l[i].snapshot.status \in Terminal
                                  /\ UnknownMarkers(l) # {}
                                  /\ \A j \in UnknownMarkers(l) : j < i}

\* decideUnknownRecovery: the first end after the last marker, or no evidence.
DecideUnknownRecovery(l) ==
  IF EndsAfter(l) = {} THEN "running"
  ELSE LET first == CHOOSE i \in EndsAfter(l) : \A j \in EndsAfter(l) : i <= j
       IN  IF l[first].snapshot.status = "COMPLETED" THEN "completed" ELSE "failed"

\* projectMission, without a request.
NextAction ==
  [s \in Status |->
     CASE s = "DRAFT"                -> "queue"
       [] s = "QUEUED"               -> "run"
       [] s \in {"RUNNING", "RECOVERING", "RETRYING"} -> "monitor"
       [] s = "BLOCKED"              -> "resume"
       [] s = "AWAITING_APPROVAL"    -> "review"
       [] s = "APPROVED"             -> "finalize"
       [] s = "REJECTED"             -> "request-revision"
       [] s = "REVISION_REQUESTED"   -> "requeue"
       [] s = "UNKNOWN"              -> "reconcile"
       [] s = "WAITING_FOR_EVIDENCE" -> "provide-evidence"
       [] s = "BLOCKED_BY_GATE"      -> "resolve-gate"
       [] s \in Terminal             -> "none"]

Projection(s) ==
  [next     |-> NextAction[s],
   eligible |-> IF s = "UNKNOWN" THEN {} ELSE ValidTransitions[s],
   recovery |-> IF s = "UNKNOWN" THEN ValidTransitions[s] ELSE {}]

-----------------------------------------------------------------------------
\* The file is always one consistent whole, whatever processes overwrite each
\* other and die: a mission is what its log replays to, and a key is recorded
\* exactly with an event of the log that its command may cause
\* (file-mission-store.ts: never "a truncated or half-written store").
FileIsConsistent ==
    /\ \A m \in Mission :
         IF file.log[m] = <<>> THEN file.missions[m] = Absent
         ELSE Replayable(file.log[m]) /\ Replayed(file.log[m]) = file.missions[m]
    /\ \A k \in Key : ~ Free(file.record[k]) =>
         LET c == file.record[k].command IN
         \E i \in DOMAIN file.log[c.mission] \ {1} :
           /\ file.log[c.mission][i].snapshot.version = file.record[k].version
           /\ file.log[c.mission][i].type = EventType(c)
           /\ file.log[c.mission][i].snapshot
                = Successor(file.log[c.mission][i - 1].snapshot, c)

\* Processes that overlap overwrite each other; nothing else is ever lost: an
\* event persisted while no other process held a copy of the file stays in it.
OnlyOverlapLoses ==
    \A e \in kept : \E i \in DOMAIN file.log[e.mission] : file.log[e.mission][i] = e

\* The recovery policy, which reads the log, the runtime's own recovery pass,
\* which reads the status, and the projection agree on every mission of the
\* file; and for a mission that was UNKNOWN and has ended, the evidence in the
\* log says how.
RecoveryAgrees ==
    \A m \in Mission : file.log[m] # <<>> =>
      LET s == file.missions[m]
          action == RecoveryAction(s, file.log[m])
      IN /\ (action = "recover-to-unknown") <=> (s.status \in DefaultRecoverable)
         /\ (action = "terminal") <=> (Projection(s.status).next = "none")
         /\ (action = "decide-by-evidence") <=> (Projection(s.status).recovery # {})
         /\ UnknownMarkers(file.log[m]) # {} =>
              (s.status = "COMPLETED" <=> DecideUnknownRecovery(file.log[m]) = "completed")

=============================================================================
