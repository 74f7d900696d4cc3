------------------------ MODULE ManagedConfig_proofs ------------------------
(***************************************************************************)
(* Proofs about the managed composition, for every set of hosts, of         *)
(* versions, and every number of faults and edits: the types, that a        *)
(* command takes over nobody's file, that a transition is all or nothing,   *)
(* that an upgrade can be undone, and that undoing it gives the bytes back. *)
(***************************************************************************)
EXTENDS ManagedConfig, TLAPS

(* Paths and contents *)

LEMMA SlotParts ==
  ASSUME NEW s \in Slots
  PROVE  s[1] \in Hosts /\ s[2] \in Assets
BY DEF Slots

LEMMA PathsOfHosts ==
  ASSUME NEW H \in SUBSET Hosts
  PROVE  /\ H \X {"pin"} \subseteq Slots /\ H \X Assets \subseteq Slots
         /\ H \X {"marker", "skills"} \subseteq Slots /\ H \X {"marker", "pin"} \subseteq Slots
BY DEF Slots, Assets

LEMMA TurnTaken ==
  ASSUME NEW S, S # {}
  PROVE  Turn(S) \in S
BY DEF Turn

LEMMA Contents ==
  /\ Absent \in Content /\ Foreign \in Content /\ Unreadable \in Content /\ Keep \in Content
  /\ \A n \in Nat : Marker(n) \in Content /\ SkillsAsset(n) \in Content /\ PinAsset(n) \in Content
BY DEF Content, Absent, Foreign, Unreadable, Keep, Marker, SkillsAsset, PinAsset

LEMMA KeepIsNone ==
  /\ Keep # Absent
  /\ \A n \in Nat : Keep # Marker(n) /\ Keep # SkillsAsset(n) /\ Keep # PinAsset(n)
BY DEF Absent, Keep, Marker, SkillsAsset, PinAsset

LEMMA NoSnapshotType == NoSnapshot \in Snapshot
<1>1. [h \in Hosts |-> 0] \in [Hosts -> Nat]
  OBVIOUS
<1> QED
  BY <1>1, Contents DEF NoSnapshot, Snapshot

LEMMA NoManifestType ==
  ASSUME NEW state \in {"absent", "invalid", "legacy", "current-schema"}
  PROVE  NoManifest(state) \in Manifest
BY NoSnapshotType DEF NoManifest, Manifest

LEMMA RecordedType ==
  ASSUME NEW snap \in Snapshot, NEW s \in Slots
  PROVE  Recorded(snap, s) \in Content
<1>1. snap.at \in Nat /\ snap.skills \in Content /\ snap.pin \in [Hosts -> Nat]
  BY DEF Snapshot
<1>2. snap.pin[s[1]] \in Nat
  BY <1>1, SlotParts
<1> QED
  BY <1>1, <1>2, Contents DEF Recorded

LEMMA IdleType == Idle \in Job
<1>1. [s \in Slots |-> Keep] \in [Slots -> Content] /\ [s \in Slots |-> Absent] \in [Slots -> Content]
  BY Contents
<1> QED
  BY <1>1, NoManifestType DEF Idle, Job, Phases

LEMMA NewSnapshotType ==
  ASSUME NEW version \in Versions, NEW sequence \in Nat, NEW at \in Nat,
         NEW owned \in SUBSET Hosts
  PROVE  NewSnapshot(version, sequence, at, owned) \in Snapshot
<1>1. version \in Nat /\ SkillsOf[version] \in Nat /\ PinsOf[version] \in Nat
  BY ConfigAssumption
<1>2. SkillsAsset(SkillsOf[version]) \in Content
  BY <1>1, Contents
<1>3. [h \in Hosts |-> IF h \in owned THEN PinsOf[version] ELSE 0] \in [Hosts -> Nat]
  BY <1>1
<1> QED
  BY <1>1, <1>2, <1>3 DEF NewSnapshot, Snapshot

LEMMA HydratedType ==
  ASSUME manifest \in Manifest, disk \in [Slots -> Content]
  PROVE  Hydrated \in Snapshot
<1>1. CASE manifest.state = "current-schema"
  BY <1>1 DEF Hydrated, Manifest
<1>2. CASE manifest.state # "current-schema"
  <2> DEFINE c == IF LegacySkills = {} THEN Absent
                  ELSE CHOOSE x \in LegacySkills : TRUE
  <2>1. LegacySkills \subseteq Content
    <3>1. \A g \in manifest.present : <<g, "skills">> \in Slots
      BY DEF Manifest, Slots, Assets
    <3> QED
      BY <3>1 DEF LegacySkills
  <2>2. c \in Content
    BY <2>1, Contents
  <2>3. Hydrated = [NoSnapshot EXCEPT !.version = manifest.version,
                                      !.at = manifest.installedAt, !.skills = c]
    BY <1>2 DEF Hydrated
  <2>4. manifest.version \in Nat /\ manifest.installedAt \in Nat
    BY DEF Manifest
  <2> HIDE DEF c
  <2> QED
    BY <2>2, <2>3, <2>4, NoSnapshotType DEF Snapshot
<1> QED
  BY <1>1, <1>2

LEMMA InstallManifestType ==
  ASSUME TypeOK
  PROVE  InstallManifest \in Manifest
<1>1. /\ pkg \in Nat /\ pkg \in Versions /\ job.at \in Nat /\ job.seen \subseteq Hosts
      /\ job.owned \subseteq Hosts /\ manifest \in Manifest
  BY ConfigAssumption DEF TypeOK, Job
<1>2. NewSnapshot(pkg, 0, job.at, job.owned) \in Snapshot
  BY <1>1, NewSnapshotType
<1> QED
  BY <1>1, <1>2, NoSnapshotType DEF InstallManifest, Manifest

LEMMA CandidateType ==
  ASSUME manifest \in Manifest, NEW target \in Snapshot, NEW previous \in Snapshot
  PROVE  Candidate(target, previous) \in Manifest
<1>1. target.version \in Nat
  BY DEF Snapshot
<1> QED
  BY <1>1 DEF Candidate, Manifest

LEMMA PlannedWritesType ==
  ASSUME NEW current, NEW target \in Snapshot
  PROVE  PlannedWrites(current, target) \in [Slots -> Content]
<1>1. \A s \in Slots : Recorded(target, s) \in Content
  BY RecordedType
<1> QED
  BY <1>1, Contents DEF PlannedWrites

\* What a transition begins with.
LEMMA TransitionBegins ==
  ASSUME TypeOK, NEW current, NEW target \in Snapshot, NEW previous \in Snapshot,
         NEW undoes \in BOOLEAN, Transition(current, target, previous, undoes)
  PROVE  /\ job.phase = "idle" /\ edited' = {}
         /\ UNCHANGED <<dir, disk, manifest, pkg, faults, edits, undo>>
         /\ job' \in Job
         /\ job'.phase = "stage" /\ job'.replaced = {} /\ job'.before = disk /\ job'.at = 0
         /\ job'.target = PlannedWrites(current, target)
         /\ job'.candidate = Candidate(target, previous) /\ job'.undoes = undoes
         /\ job'.healthy = DoctorHealthy
<1>1. PICK t : t = PlannedWrites(current, target)
  OBVIOUS
<1>2. PICK c : c = Candidate(target, previous)
  OBVIOUS
<1>3. PICK b : b = DoctorHealthy
  OBVIOUS
<1>4. PICK d : d = disk
  OBVIOUS
<1>5. PICK j : j = [Idle EXCEPT !.phase = "stage", !.target = t, !.candidate = c,
                               !.before = d, !.undoes = undoes, !.healthy = b]
  OBVIOUS
<1>6. /\ t \in [Slots -> Content] /\ c \in Manifest /\ b \in BOOLEAN /\ d \in [Slots -> Content]
  BY <1>1, <1>2, <1>3, <1>4, CandidateType, PlannedWritesType DEF TypeOK, DoctorHealthy
<1>7. /\ j \in Job /\ j.phase = "stage" /\ j.replaced = Idle.replaced /\ j.before = d
      /\ j.target = t /\ j.candidate = c /\ j.at = Idle.at /\ j.undoes = undoes
      /\ j.healthy = b
  BY <1>5, <1>6, IdleType DEF Job, Phases
<1>8. Idle.replaced = {} /\ Idle.at = 0
  BY DEF Idle
<1>9. /\ job.phase = "idle" /\ job' = j /\ edited' = {}
      /\ UNCHANGED <<dir, disk, manifest, pkg, faults, edits, undo>>
  BY <1>1, <1>2, <1>3, <1>4, <1>5 DEF Transition, Begin
<1> QED
  BY <1>1, <1>2, <1>3, <1>4, <1>7, <1>8, <1>9

\* An upgrade is planned from the recorded bytes of a manifest with pins.
LEMMA UpgradePlanned ==
  ASSUME TypeOK, NEW version \in Versions, PlanUpgrade(version)
  PROVE  /\ manifest.state = "current-schema" /\ Hydrated = manifest.current
         /\ PinsComplete(manifest.current)
         /\ LET new == NewSnapshot(version, Hydrated.sequence + 1, clock, manifest.present) IN
            /\ new \in Snapshot
            /\ Transition(manifest.current, new, manifest.current, FALSE)
         /\ clock' = clock + 1
<1>1. PinsComplete(Hydrated) /\ clock' = clock + 1
  BY DEF PlanUpgrade, UpgradeAccepted, DrawTime
<1>2. manifest.state = "current-schema"
  <2>1. NoSnapshot.pinned = FALSE /\ NoSnapshot \in Snapshot
    BY NoSnapshotType DEF NoSnapshot
  <2>2. manifest.state # "current-schema" => Hydrated.pinned = FALSE
    BY <2>1 DEF Hydrated, Snapshot
  <2> QED
    BY <1>1, <2>2 DEF PinsComplete
<1>3. Hydrated = manifest.current
  BY <1>2 DEF Hydrated
<1>4. manifest.present \subseteq Hosts /\ manifest.current \in Snapshot /\ clock \in Nat
  BY DEF TypeOK, Manifest
<1>5. Hydrated.sequence + 1 \in Nat
  BY <1>3, <1>4 DEF Snapshot
<1>6. NewSnapshot(version, Hydrated.sequence + 1, clock, manifest.present) \in Snapshot
  BY <1>4, <1>5, NewSnapshotType
<1> QED
  BY <1>1, <1>2, <1>3, <1>6 DEF PlanUpgrade

-----------------------------------------------------------------------------
(* Types *)

LEMMA InitTypes == Init => TypeOK
<1> SUFFICES ASSUME Init
             PROVE  TypeOK
  OBVIOUS
<1>1. pkg \in Versions /\ pkg \in Nat /\ SkillsOf[pkg] \in Nat
  BY ConfigAssumption DEF Init
<1>2. DetectedHosts \subseteq Hosts
  BY DEF DetectedHosts
<1>3. manifest \in Manifest
  <2>1. NoManifest("absent") \in Manifest /\ NoManifest("legacy") \in Manifest
    BY NoManifestType
  <2>2. [NoManifest("legacy") EXCEPT !.version = pkg, !.present = DetectedHosts] \in Manifest
    BY <1>1, <1>2, <2>1 DEF Manifest
  <2> QED
    BY <2>1, <2>2 DEF Init
<1>4. disk \in [Slots -> Content]
  <2>1. Absent \in Content /\ Marker(0) \in Content /\ SkillsAsset(SkillsOf[pkg]) \in Content
    BY <1>1, Contents
  <2> QED
    BY <2>1 DEF Init
<1> QED
  BY <1>1, <1>3, <1>4, IdleType DEF Init, TypeOK

\* Steps within a command replace a few parts of the job by parts of their types.
LEMMA JobType ==
  ASSUME NEW j \in Job
  PROVE  /\ \A T \in SUBSET Slots : [j EXCEPT !.todo = T] \in Job
         /\ \A T \in SUBSET Slots, O \in SUBSET Hosts :
              [j EXCEPT !.todo = T, !.owned = O] \in Job
         /\ \A ph \in Phases, T \in SUBSET Slots : [j EXCEPT !.phase = ph, !.todo = T] \in Job
         /\ \A ph \in Phases, d \in [Slots -> Content] :
              [j EXCEPT !.phase = ph, !.original = d] \in Job
         /\ \A R \in SUBSET Slots : [j EXCEPT !.replaced = R] \in Job
BY DEF Job

LEMMA PutType ==
  ASSUME disk \in [Slots -> Content], NEW s, NEW c \in Content, Put(s, c)
  PROVE  disk' \in [Slots -> Content]
BY DEF Put

LEMMA VisitedType ==
  ASSUME job \in Job, NEW s, Visited(s)
  PROVE  job' \in Job
<1>1. PICK T : T = job.todo \ {s}
  OBVIOUS
<1>2. T \subseteq Slots /\ job' = [job EXCEPT !.todo = T]
  BY <1>1 DEF Job, Visited
<1> QED
  BY <1>2, JobType

LEMMA RestoredType ==
  ASSUME disk \in [Slots -> Content], job \in Job, NEW kept
  PROVE  Restored(kept) \in [Slots -> Content]
BY DEF Restored, Job

\* The dir, the counters and the set of faults.
LEMMA CountersType ==
  ASSUME TypeOK
  PROVE  /\ faults + 1 \in Nat /\ edits + 1 \in Nat /\ clock + 1 \in Nat
         /\ \A h \in Hosts, b \in BOOLEAN : [dir EXCEPT ![h] = b] \in [Hosts -> BOOLEAN]
BY DEF TypeOK

\* Only planned paths are replaced.
Planned == job.replaced \subseteq Writes

\* Every variable keeps its type in every step of a command and of people.
LEMMA CommandTypes == TypeOK /\ Planned /\ Command => TypeOK'
<1> SUFFICES ASSUME TypeOK, Planned, Command
             PROVE  TypeOK'
  OBVIOUS
<1>0. /\ disk \in [Slots -> Content] /\ job \in Job /\ manifest \in Manifest
      /\ job.todo \subseteq Slots /\ job.seen \subseteq Hosts /\ job.replaced \subseteq Slots
      /\ job.owned \subseteq Hosts /\ job.target \in [Slots -> Content] /\ job.candidate \in Manifest
      /\ undo \subseteq Slots /\ faults + 1 \in Nat /\ HomeHost \in Hosts
  BY CountersType, ConfigAssumption DEF TypeOK, Job
<1>1. CASE BeginInstall
  <2>1. PICK D : D = DetectedHosts
    OBVIOUS
  <2>2. PICK T : T = D \X {"pin"}
    OBVIOUS
  <2>3. D \subseteq Hosts /\ T \subseteq Slots
    <3>1. D \in SUBSET Hosts
      BY <2>1 DEF DetectedHosts
    <3> QED
      BY <2>2, <3>1, PathsOfHosts
  <2>4. clock \in Nat /\ "install pins" \in Phases
    BY DEF TypeOK, Phases
  <2>5. [Idle EXCEPT !.phase = "install pins", !.at = clock, !.seen = D, !.todo = T] \in Job
    BY <2>3, <2>4, IdleType DEF Job
  <2>6. /\ job' = [Idle EXCEPT !.phase = "install pins", !.at = clock, !.seen = D, !.todo = T]
        /\ edited' = {} /\ clock' = clock + 1
        /\ UNCHANGED <<dir, disk, manifest, pkg, faults, edits, undo>>
    BY <1>1, <2>1, <2>2 DEF BeginInstall, Begin, DrawTime
  <2>7. job' \in Job
    BY <2>5, <2>6
  <2> QED
    BY <2>6, <2>7, CountersType DEF TypeOK
<1>2. CASE InstallPin
  <2> DEFINE s == Turn(job.todo)
  <2>1. s \in Slots
    BY <1>0, <1>2, TurnTaken DEF InstallPin
  <2>2. s[1] \in Hosts
    BY <2>1, SlotParts
  <2> HIDE DEF s
  <2>3. /\ \/ /\ Put(s, PinAsset(PinsOf[pkg]))
              /\ job' = [job EXCEPT !.todo = @ \ {s}, !.owned = @ \cup {s[1]}]
           \/ Visited(s) /\ UNCHANGED disk
        /\ UNCHANGED <<dir, manifest, pkg, clock, faults, edits, edited, undo>>
    BY <1>2 DEF InstallPin, s
  <2>4. CASE Visited(s) /\ UNCHANGED disk
    BY <1>0, <2>3, <2>4, VisitedType DEF TypeOK
  <2>5. CASE /\ Put(s, PinAsset(PinsOf[pkg]))
             /\ job' = [job EXCEPT !.todo = @ \ {s}, !.owned = @ \cup {s[1]}]
    <3>1. PinAsset(PinsOf[pkg]) \in Content
      BY ConfigAssumption, Contents DEF TypeOK
    <3>2. disk' \in [Slots -> Content]
      BY <1>0, <2>5, <3>1, PutType
    <3>3. PICK T : T = job.todo \ {s}
      OBVIOUS
    <3>4. PICK O : O = job.owned \cup {s[1]}
      OBVIOUS
    <3>5. T \in SUBSET Slots /\ O \in SUBSET Hosts
      BY <1>0, <2>2, <3>3, <3>4
    <3>6. job' = [job EXCEPT !.todo = T, !.owned = O]
      BY <1>0, <2>5, <3>3, <3>4 DEF Job
    <3>7. job' \in Job
      BY <1>0, <3>5, <3>6, JobType
    <3> QED
      BY <2>3, <3>2, <3>7 DEF TypeOK
  <2> QED
    BY <2>3, <2>4, <2>5
<1>3. CASE InstallMakesHome
  <2>1. PICK T : T = job.seen \X {"marker", "skills"}
    OBVIOUS
  <2>2. T \subseteq Slots
    BY <1>0, <2>1, PathsOfHosts
  <2>3. job' = [job EXCEPT !.phase = "install assets", !.todo = T]
    BY <1>3, <2>1 DEF InstallMakesHome
  <2>4. job' \in Job
    BY <1>0, <2>2, <2>3, JobType DEF Phases
  <2>5. dir' \in [Hosts -> BOOLEAN]
    BY <1>0, <1>3, CountersType DEF InstallMakesHome
  <2> QED
    BY <1>3, <2>4, <2>5 DEF InstallMakesHome, TypeOK
<1>4. CASE InstallAsset
  <2> DEFINE s == Turn(job.todo)
             c == IF s[2] = "marker" THEN Marker(job.at) ELSE SkillsAsset(SkillsOf[pkg])
  <2>1. c \in Content
    <3>1. job.at \in Nat /\ SkillsOf[pkg] \in Nat
      BY ConfigAssumption DEF TypeOK, Job
    <3> HIDE DEF s
    <3> QED
      BY <3>1, Contents
  <2>2. /\ Put(s, c) \/ UNCHANGED disk
        /\ Visited(s)
        /\ UNCHANGED <<dir, manifest, pkg, clock, faults, edits, edited, undo>>
    BY <1>4 DEF InstallAsset
  <2> HIDE DEF s, c
  <2>3. disk' \in [Slots -> Content] /\ job' \in Job
    BY <1>0, <2>1, <2>2, PutType, VisitedType
  <2> QED
    BY <2>2, <2>3 DEF TypeOK
<1>5. CASE EndInstall
  BY <1>5, IdleType, InstallManifestType DEF EndInstall, Ends, TypeOK
<1>6. CASE TearManifest
  BY <1>0, <1>6, IdleType, NoManifestType DEF TearManifest, Ends, Fault, TypeOK
<1>7. CASE BeginSync
  <2>1. PICK T : T = DetectedHosts \X {"marker", "pin"}
    OBVIOUS
  <2>2. T \subseteq Slots
    <3>1. DetectedHosts \in SUBSET Hosts
      BY DEF DetectedHosts
    <3> QED
      BY <2>1, <3>1, PathsOfHosts
  <2>3. [Idle EXCEPT !.phase = "sync", !.todo = T] \in Job
    BY <2>2, IdleType DEF Job, Phases
  <2>4. /\ job' = [Idle EXCEPT !.phase = "sync", !.todo = T] /\ edited' = {}
        /\ UNCHANGED <<dir, disk, manifest, pkg, clock, faults, edits, undo>>
    BY <1>7, <2>1 DEF BeginSync, Begin
  <2>5. job' \in Job
    BY <2>3, <2>4
  <2> QED
    BY <2>4, <2>5 DEF TypeOK
<1>8. CASE SyncAsset
  <2> DEFINE s == Turn(job.todo)
  <2>1. s \in Slots
    BY <1>0, <1>8, TurnTaken DEF SyncAsset
  <2>2. Recorded(Hydrated, s) \in Content
    BY <1>0, <2>1, HydratedType, RecordedType
  <2>3. /\ Put(s, Recorded(Hydrated, s)) \/ UNCHANGED disk
        /\ Visited(s)
        /\ UNCHANGED <<dir, manifest, pkg, clock, faults, edits, edited, undo>>
    BY <1>8 DEF SyncAsset
  <2> HIDE DEF s
  <2>4. disk' \in [Slots -> Content] /\ job' \in Job
    BY <1>0, <2>2, <2>3, PutType, VisitedType
  <2> QED
    BY <2>3, <2>4 DEF TypeOK
<1>9. CASE EndSync
  BY <1>9, IdleType DEF EndSync, Ends, TypeOK
<1>10. CASE PlanRollback
  <2>1. manifest.current \in Snapshot /\ manifest.previous \in Snapshot
    BY <1>0 DEF Manifest
  <2>2. /\ Transition(manifest.current, manifest.previous, manifest.previous, TRUE)
        /\ UNCHANGED clock
    BY <1>10 DEF PlanRollback
  <2>3. /\ edited' = {} /\ UNCHANGED <<dir, disk, manifest, pkg, faults, edits, undo>>
        /\ job' \in Job
    BY <2>1, <2>2, TransitionBegins
  <2> QED
    BY <2>2, <2>3 DEF TypeOK
<1>11. CASE Stage
  <2>1. job' = [job EXCEPT !.phase = "commit", !.original = disk]
    BY <1>11 DEF Stage
  <2>2. job' \in Job
    BY <1>0, <2>1, JobType DEF Phases
  <2> QED
    BY <1>11, <2>2 DEF Stage, TypeOK
<1>12. CASE Replace
  <2> DEFINE s == Turn(Writes \ job.replaced)
  <2>1. /\ Put(s, job.target[s])
        /\ job' = [job EXCEPT !.replaced = @ \cup {s}]
        /\ UNCHANGED <<dir, manifest, pkg, clock, faults, edits, edited, undo>>
    BY <1>12 DEF Replace
  <2> HIDE DEF s
  <2>2. s \in Slots
    <3>1. Writes \ job.replaced # {} /\ Writes \subseteq Slots
      BY <1>12 DEF Replace, Planned, Writes
    <3> QED
      BY <3>1, TurnTaken DEF s
  <2>3. job.target[s] \in Content
    BY <1>0, <2>2
  <2>4. PICK R : R = job.replaced \cup {s}
    OBVIOUS
  <2>5. R \subseteq Slots /\ job' = [job EXCEPT !.replaced = R]
    BY <1>0, <2>1, <2>2, <2>4 DEF Job
  <2>6. disk' \in [Slots -> Content]
    BY <1>0, <2>1, <2>3 DEF Put
  <2>7. job' \in Job
    <3>1. job \in Job
      BY DEF TypeOK
    <3> QED
      BY <2>5, <3>1, JobType
  <2> QED
    BY <2>1, <2>6, <2>7 DEF TypeOK
<1>13. CASE Publish
  <2>1. undo' \subseteq Slots
    BY <1>0, <1>13 DEF Publish, Writes
  <2> QED
    BY <1>0, <1>13, <2>1, IdleType DEF Publish, Ends, TypeOK
<1>14. CASE Abort
  BY <1>0, <1>14, IdleType DEF Abort, Failure, Fault, Ends, TypeOK
<1>15. CASE Crash
  BY <1>0, <1>15, IdleType DEF Crash, Fault, Ends, TypeOK
<1>16. CASE \E version \in Versions : PlanUpgrade(version)
  <2> PICK version \in Versions : PlanUpgrade(version)
    BY <1>16
  <2>1. manifest.current \in Snapshot
    BY <1>0 DEF Manifest
  <2>2. PICK new \in Snapshot : Transition(manifest.current, new, manifest.current, FALSE)
    BY UpgradePlanned
  <2>3. /\ edited' = {} /\ UNCHANGED <<dir, disk, manifest, pkg, faults, edits, undo>>
        /\ job' \in Job
    BY <2>1, <2>2, TransitionBegins
  <2>4. clock' = clock + 1
    BY UpgradePlanned
  <2> QED
    BY <2>3, <2>4, CountersType DEF TypeOK
<1>17. CASE \E kept \in SUBSET job.replaced : FailTransition(kept)
  <2> PICK kept \in SUBSET job.replaced : FailTransition(kept)
    BY <1>17
  <2>1. disk' \in [Slots -> Content]
    BY <1>0, RestoredType DEF FailTransition
  <2> QED
    BY <1>0, <2>1, IdleType DEF FailTransition, Failure, Fault, Ends, TypeOK
<1> QED
  BY <1>1, <1>2, <1>3, <1>4, <1>5, <1>6, <1>7, <1>8, <1>9, <1>10, <1>11, <1>12, <1>13, <1>14,
     <1>15, <1>16, <1>17 DEF Command

LEMMA PeopleTypes == TypeOK /\ People => TypeOK'
<1> SUFFICES ASSUME TypeOK, People
             PROVE  TypeOK'
  OBVIOUS
<1>1. CASE \E s \in Slots : \E c \in {Absent, Foreign, Unreadable} : Edit(s, c)
  <2> PICK s \in Slots, c \in {Absent, Foreign, Unreadable} : Edit(s, c)
    BY <1>1
  <2>1. c \in Content /\ disk \in [Slots -> Content]
    BY Contents DEF TypeOK
  <2>2. disk' \in [Slots -> Content]
    BY <2>1, PutType DEF Edit
  <2> QED
    BY <2>2, CountersType DEF Edit, TypeOK
<1>2. CASE \E h \in Hosts : HostInstalled(h)
  BY <1>2, CountersType DEF HostInstalled, TypeOK
<1>3. CASE \E h \in Hosts : HostRemoved(h)
  <2> PICK h \in Hosts : HostRemoved(h)
    BY <1>3
  <2>1. disk' \in [Slots -> Content]
    BY Contents DEF HostRemoved, TypeOK
  <2>2. {h} \X Assets \subseteq Slots
    BY PathsOfHosts
  <2>3. edited' \subseteq Slots /\ undo' \subseteq Slots
    BY <2>2 DEF HostRemoved, TypeOK
  <2> QED
    BY <2>1, <2>3, CountersType DEF HostRemoved, TypeOK
<1>4. CASE \E version \in Versions : UpdatePackage(version)
  BY <1>4 DEF UpdatePackage, TypeOK
<1> QED
  BY <1>1, <1>2, <1>3, <1>4 DEF People

Underway == job.phase \in {"stage", "commit"}
Installing == job.phase \in {"install pins", "install assets"}

\* What the steps do to the job: people leave it alone, a command begins, goes
\* on in its phases, or ends.
PeopleStep ==
  /\ UNCHANGED <<job, manifest, clock>> /\ edited \subseteq edited'
  /\ \A s \in Slots \ edited' : disk'[s] = disk[s]
BeginStep ==
  /\ job.phase = "idle" /\ job' \in Job /\ job'.replaced = {} /\ manifest' = manifest
  /\ \/ job'.phase = "install pins" /\ job'.at = clock /\ clock' = clock + 1
     \/ job'.phase = "sync" /\ job'.at = 0 /\ clock' = clock
PlanStep == PlanRollback \/ \E version \in Versions : PlanUpgrade(version)
WriteStep ==
  /\ ~Underway /\ job'.phase \notin {"stage", "commit"} /\ (Installing' => Installing)
  /\ job'.replaced = job.replaced /\ job'.target = job.target /\ job'.at = job.at
  /\ UNCHANGED <<manifest, clock>>
StageStep ==
  /\ Stage
  /\ job'.phase = "commit" /\ job'.original = disk /\ job'.before = job.before
  /\ job'.replaced = job.replaced /\ job'.target = job.target /\ job'.at = job.at
  /\ job'.candidate = job.candidate /\ job'.undoes = job.undoes
  /\ job'.healthy = job.healthy
ReplaceStep ==
  /\ Replace
  /\ job'.phase = "commit" /\ job'.original = job.original /\ job'.before = job.before
  /\ job'.target = job.target /\ job'.at = job.at /\ job'.candidate = job.candidate
  /\ job'.undoes = job.undoes /\ job'.healthy = job.healthy
  /\ \E s \in Writes \ job.replaced :
       /\ job'.replaced = job.replaced \cup {s}
       /\ disk' = [disk EXCEPT ![s] = job.target[s]]

\* Staging and replacing change the parts of the job they are about.
LEMMA StagingSteps ==
  ASSUME TypeOK, Planned, Stage \/ Replace
  PROVE  StageStep \/ ReplaceStep
<1>0. job \in Job
  BY DEF TypeOK
<1>1. CASE Stage
  <2>1. job' = [job EXCEPT !.phase = "commit", !.original = disk]
    BY <1>1 DEF Stage
  <2> QED
    BY <1>0, <1>1, <2>1 DEF StageStep, Job
<1>2. CASE Replace
  <2>1. Writes \ job.replaced # {} /\ job.phase = "commit"
    BY <1>2 DEF Replace, Planned
  <2>2. PICK s \in Writes \ job.replaced : s = Turn(Writes \ job.replaced)
    BY <2>1, TurnTaken
  <2>3. /\ job' = [job EXCEPT !.replaced = @ \cup {s}]
        /\ disk' = [disk EXCEPT ![s] = job.target[s]]
    BY <1>2, <2>2 DEF Replace, Put
  <2>4. job'.replaced = job.replaced \cup {s}
    BY <1>0, <2>3 DEF Job
  <2>5. /\ job'.phase = "commit" /\ job'.original = job.original /\ job'.before = job.before
        /\ job'.target = job.target /\ job'.at = job.at /\ job'.candidate = job.candidate
        /\ job'.undoes = job.undoes /\ job'.healthy = job.healthy
    BY <1>0, <2>1, <2>3 DEF Job
  <2> QED
    BY <1>2, <2>2, <2>3, <2>4, <2>5 DEF ReplaceStep
<1> QED
  BY <1>1, <1>2

LEMMA JobStep ==
  ASSUME TypeOK, Planned, Next
  PROVE  \/ PeopleStep \/ job' = Idle \/ BeginStep \/ PlanStep
         \/ WriteStep \/ StageStep \/ ReplaceStep
<1>0. job \in Job /\ Idle \in Job /\ Idle.replaced = {} /\ Idle.at = 0
  BY IdleType DEF TypeOK, Idle
<1>1. CASE BeginInstall \/ BeginSync
  <2>1. PICK D, T, U : D = DetectedHosts /\ T = D \X {"pin"} /\ U = D \X {"marker", "pin"}
    OBVIOUS
  <2>2. D \subseteq Hosts /\ T \subseteq Slots /\ U \subseteq Slots
    <3>1. D \in SUBSET Hosts
      BY <2>1 DEF DetectedHosts
    <3> QED
      BY <2>1, <3>1, PathsOfHosts
  <2>3. CASE BeginInstall
    <3>1. /\ job.phase = "idle" /\ manifest' = manifest /\ clock' = clock + 1
          /\ job' = [Idle EXCEPT !.phase = "install pins", !.at = clock, !.seen = D, !.todo = T]
      BY <2>1, <2>3 DEF BeginInstall, Begin, DrawTime
    <3>2. clock \in Nat
      BY DEF TypeOK
    <3>3. /\ job' \in Job /\ job'.replaced = Idle.replaced
          /\ job'.phase = "install pins" /\ job'.at = clock
      BY <1>0, <2>2, <3>1, <3>2 DEF Job, Phases
    <3> QED
      BY <1>0, <3>1, <3>3 DEF BeginStep
  <2>4. CASE BeginSync
    <3>1. /\ job.phase = "idle" /\ manifest' = manifest /\ clock' = clock
          /\ job' = [Idle EXCEPT !.phase = "sync", !.todo = U]
      BY <2>1, <2>4 DEF BeginSync, Begin
    <3>2. job' \in Job /\ job'.replaced = Idle.replaced /\ job'.phase = "sync" /\ job'.at = Idle.at
      BY <1>0, <2>2, <3>1 DEF Job, Phases
    <3> QED
      BY <1>0, <3>1, <3>2 DEF BeginStep
  <2> QED
    BY <1>1, <2>3, <2>4
<1>2. CASE InstallPin \/ InstallMakesHome \/ InstallAsset \/ SyncAsset
  <2>1. \A T :
          LET j == [job EXCEPT !.todo = T] IN
          /\ j.replaced = job.replaced /\ j.target = job.target
          /\ j.at = job.at /\ j.phase = job.phase
    BY <1>0 DEF Job
  <2>2. CASE InstallPin
    <3>1. PICK T, O : job' \in {[job EXCEPT !.todo = T, !.owned = O], [job EXCEPT !.todo = T]}
      <4>1. PICK s : s = Turn(job.todo)
        OBVIOUS
      <4>2. PICK T, O : T = job.todo \ {s} /\ O = job.owned \cup {s[1]}
        OBVIOUS
      <4>3. \/ job' = [job EXCEPT !.todo = @ \ {s}, !.owned = @ \cup {s[1]}]
            \/ job' = [job EXCEPT !.todo = @ \ {s}]
        BY <2>2, <4>1 DEF InstallPin, Visited
      <4> QED
        BY <1>0, <4>2, <4>3 DEF Job
    <3>2. CASE job' = [job EXCEPT !.todo = T, !.owned = O]
      BY <1>0, <2>2, <3>2 DEF Job, InstallPin, WriteStep, Underway, Installing
    <3>3. CASE job' = [job EXCEPT !.todo = T]
      BY <1>0, <2>2, <3>3 DEF Job, InstallPin, WriteStep, Underway, Installing
    <3> QED
      BY <3>1, <3>2, <3>3
  <2>3. CASE InstallMakesHome
    <3>1. PICK T : job' = [job EXCEPT !.phase = "install assets", !.todo = T]
      BY <2>3 DEF InstallMakesHome
    <3>2. /\ job'.replaced = job.replaced /\ job'.target = job.target
          /\ job'.at = job.at /\ job'.phase = "install assets"
      BY <1>0, <3>1 DEF Job
    <3> QED
      BY <2>3, <3>2 DEF InstallMakesHome, WriteStep, Underway, Installing
  <2>4. CASE InstallAsset \/ SyncAsset
    <3>1. PICK T : job' = [job EXCEPT !.todo = T]
      <4>1. PICK s : job' = [job EXCEPT !.todo = @ \ {s}]
        BY <2>4 DEF InstallAsset, SyncAsset, Visited
      <4>2. PICK T : T = job.todo \ {s}
        OBVIOUS
      <4> QED
        BY <4>1, <4>2
    <3>2. /\ job'.replaced = job.replaced /\ job'.target = job.target
          /\ job'.at = job.at /\ job'.phase = job.phase
      BY <2>1, <3>1
    <3> QED
      BY <2>4, <3>2 DEF InstallAsset, SyncAsset, WriteStep, Underway, Installing
  <2> QED
    BY <1>2, <2>2, <2>3, <2>4
<1>3. CASE Stage \/ Replace
  BY <1>3, StagingSteps
<1>5. CASE EndInstall \/ TearManifest \/ EndSync \/ Publish \/ Abort \/ Crash
  BY <1>5 DEF EndInstall, TearManifest, EndSync, Publish, Abort, Crash, Ends
<1>6. CASE \E kept \in SUBSET job.replaced : FailTransition(kept)
  BY <1>6 DEF FailTransition, Ends
<1>7. CASE PlanRollback \/ \E version \in Versions : PlanUpgrade(version)
  BY <1>7 DEF PlanStep
<1>8. CASE \E s \in Slots : \E c \in {Absent, Foreign, Unreadable} : Edit(s, c)
  BY <1>8 DEF Edit, Put, PeopleStep, TypeOK
<1>9. CASE \E h \in Hosts : HostRemoved(h)
  <2> PICK h \in Hosts : HostRemoved(h)
    BY <1>9
  <2>1. ASSUME NEW s \in Slots, s[1] = h
        PROVE  s \in {h} \X Assets
    BY <2>1 DEF Slots
  <2> QED
    BY <2>1 DEF HostRemoved, PeopleStep
<1>10. CASE \/ \E h \in Hosts : HostInstalled(h)
            \/ \E version \in Versions : UpdatePackage(version)
  BY <1>10 DEF HostInstalled, UpdatePackage, PeopleStep
<1> QED
  BY <1>1, <1>2, <1>3, <1>5, <1>6, <1>7, <1>8, <1>9, <1>10 DEF Next, Command, People

\* What the planning steps begin.
LEMMA PlanBegins ==
  ASSUME TypeOK, PlanStep
  PROVE  /\ job.phase = "idle" /\ edited' = {} /\ UNCHANGED <<disk, manifest>>
         /\ manifest.state = "current-schema" /\ manifest.previous \in Snapshot
         /\ job' \in Job /\ job'.phase = "stage" /\ job'.replaced = {} /\ job'.before = disk
         /\ job'.at = 0
         /\ \E target \in Snapshot :
              job'.target = PlannedWrites(manifest.current, target)
<1>1. manifest.current \in Snapshot /\ manifest.previous \in Snapshot
  BY DEF TypeOK, Manifest
<1>2. CASE PlanRollback
  <2>1. Transition(manifest.current, manifest.previous, manifest.previous, TRUE)
    BY <1>2 DEF PlanRollback
  <2>2. manifest.state = "current-schema"
    BY <1>2 DEF PlanRollback, RollbackAccepted, Classified
  <2> QED
    BY <1>1, <2>1, <2>2, TransitionBegins
<1>3. CASE \E version \in Versions : PlanUpgrade(version)
  <2> PICK version \in Versions : PlanUpgrade(version)
    BY <1>3
  <2>1. PICK new \in Snapshot : Transition(manifest.current, new, manifest.current, FALSE)
    BY UpgradePlanned
  <2> QED
    BY <1>1, <2>1, UpgradePlanned, TransitionBegins
<1> QED
  BY <1>2, <1>3 DEF PlanStep

LEMMA PlannedKept ==
  ASSUME TypeOK, Planned, Next
  PROVE  Planned'
<1>1. Idle.replaced = {}
  BY DEF Idle
<1> QED
  BY <1>1, JobStep, PlanBegins
  DEF Planned, Writes, PeopleStep, BeginStep, WriteStep, StageStep, ReplaceStep

\* The configuration directories, files, manifest, command in progress and the
\* counters keep their types, whatever commands and people do.
THEOREM TypeCorrect == Spec => [](TypeOK /\ Planned)
<1>1. Init => TypeOK /\ Planned
  BY InitTypes DEF Init, Planned, Idle
<1>2. TypeOK /\ Planned /\ [Next]_vars => (TypeOK /\ Planned)'
  <2>1. TypeOK /\ Planned /\ UNCHANGED vars => (TypeOK /\ Planned)'
    BY DEF vars, TypeOK, Planned, Writes
  <2> QED
    BY <2>1, CommandTypes, PeopleTypes, PlannedKept DEF Next
<1> QED
  BY <1>1, <1>2, PTL DEF Spec

-----------------------------------------------------------------------------
(* Transitions: what holds between their plan and their end *)

\* Before anything is replaced, files are as the plan saw them.
Began ==
  job.phase = "stage" =>
    job.replaced = {} /\ \A s \in Slots \ edited : disk[s] = job.before[s]

\* Replaced paths hold their targets, the others what they held before.
Replacing ==
  job.phase = "commit" =>
    \A s \in Slots \ edited :
      /\ job.original[s] = job.before[s]
      /\ disk[s] = IF s \in job.replaced THEN job.target[s] ELSE job.before[s]

\* What is to be replaced was absent or held the recorded bytes.
OwnedBefore ==
  Underway => \A s \in Writes : job.before[s] \in {Absent, Recorded(manifest.current, s)}

TransitionInv == Began /\ Replacing /\ OwnedBefore

LEMMA TransitionKept ==
  ASSUME TypeOK, Planned, TransitionInv, [Next]_vars
  PROVE  TransitionInv'
<1>0. Idle.phase = "idle"
  BY DEF Idle
<1>1. CASE UNCHANGED vars
  BY <1>1 DEF vars, TransitionInv, Began, Replacing, OwnedBefore, Underway, Writes, Recorded
<1>2. CASE PeopleStep
  BY <1>2 DEF PeopleStep, TransitionInv, Began, Replacing, OwnedBefore, Underway, Writes,
              Recorded
<1>3. CASE job' = Idle \/ BeginStep \/ WriteStep
  BY <1>0, <1>3 DEF BeginStep, WriteStep, TransitionInv, Began, Replacing, OwnedBefore, Underway
<1>4. CASE PlanStep
  <2>1. /\ edited' = {} /\ disk' = disk /\ manifest' = manifest
        /\ job'.phase = "stage" /\ job'.replaced = {} /\ job'.before = disk
    BY <1>4, PlanBegins
  <2>2. PICK target \in Snapshot : job'.target = PlannedWrites(manifest.current, target)
    BY <1>4, PlanBegins
  <2>3. ASSUME NEW s \in Slots, job'.target[s] # Keep
        PROVE  disk[s] \in {Absent, Recorded(manifest.current, s)}
    BY <2>2, <2>3 DEF PlannedWrites, Takes
  <2>4. OwnedBefore'
    BY <2>1, <2>3 DEF OwnedBefore, Writes, Recorded
  <2> QED
    BY <2>1, <2>4 DEF TransitionInv, Began, Replacing
<1>5. CASE StageStep
  <2>1. /\ job.phase = "stage" /\ UNCHANGED <<disk, manifest, edited>>
    BY <1>5 DEF StageStep, Stage
  <2>2. Replacing'
    BY <1>5, <2>1 DEF StageStep, TransitionInv, Began, Replacing
  <2>3. OwnedBefore'
    BY <1>5, <2>1 DEF StageStep, TransitionInv, OwnedBefore, Underway, Writes, Recorded
  <2> QED
    BY <1>5, <2>2, <2>3 DEF StageStep, TransitionInv, Began
<1>6. CASE ReplaceStep
  <2>1. job.phase = "commit" /\ UNCHANGED <<manifest, edited>>
    BY <1>6 DEF ReplaceStep, Replace
  <2>2. PICK s \in Writes \ job.replaced :
          /\ job'.replaced = job.replaced \cup {s}
          /\ disk' = [disk EXCEPT ![s] = job.target[s]]
    BY <1>6 DEF ReplaceStep
  <2>3. disk \in [Slots -> Content]
    BY DEF TypeOK
  <2>4. ASSUME NEW t \in Slots \ edited
        PROVE  /\ job.original[t] = job.before[t]
               /\ disk'[t] = IF t \in job'.replaced THEN job.target[t] ELSE job.before[t]
    BY <2>1, <2>2, <2>3 DEF TransitionInv, Replacing
  <2>5. Replacing'
    BY <1>6, <2>1, <2>4 DEF ReplaceStep, Replacing
  <2>6. OwnedBefore'
    BY <1>6, <2>1 DEF ReplaceStep, TransitionInv, OwnedBefore, Underway, Writes, Recorded
  <2> QED
    BY <1>6, <2>5, <2>6 DEF ReplaceStep, TransitionInv, Began
<1> QED
  BY <1>1, <1>2, <1>3, <1>4, <1>5, <1>6, JobStep

\* A command changes what a path holds where it is absent, where it replaces a
\* planned path, and where it restores a replaced one.
LEMMA DiskStep ==
  ASSUME TypeOK, Planned, Next, job' # job, NEW s \in Slots, disk'[s] # disk[s]
  PROVE  /\ edited' = edited
         /\ \/ disk[s] = Absent
            \/ Replace /\ s \in Writes \ job.replaced
            \/ Underway /\ s \in job.replaced
<1>0. disk \in [Slots -> Content]
  BY DEF TypeOK
<1>1. CASE InstallPin \/ InstallAsset
  BY <1>0, <1>1 DEF InstallPin, InstallAsset, Put
<1>2. CASE SyncAsset
  BY <1>0, <1>2 DEF SyncAsset, SyncWrites, Put
<1>3. CASE Replace
  <2>1. Writes \ job.replaced # {}
    BY <1>3 DEF Replace, Planned
  <2> QED
    BY <1>0, <1>3, <2>1, TurnTaken DEF Replace, Put
<1>4. CASE \E kept \in SUBSET job.replaced : FailTransition(kept)
  BY <1>0, <1>4 DEF FailTransition, Restored, Underway
<1>5. CASE \/ BeginInstall \/ BeginSync \/ InstallMakesHome \/ EndInstall \/ TearManifest \/ EndSync
           \/ Stage \/ Publish \/ Abort \/ Crash
  BY <1>5 DEF BeginInstall, BeginSync, Begin, InstallMakesHome, EndInstall, TearManifest, EndSync,
              Stage, Publish, Abort, Crash
<1>6. CASE PlanRollback \/ \E version \in Versions : PlanUpgrade(version)
  BY <1>6, PlanBegins DEF PlanStep
<1>7. CASE People
  BY <1>7 DEF People, Edit, HostInstalled, HostRemoved, UpdatePackage
<1> QED
  BY <1>1, <1>2, <1>3, <1>4, <1>5, <1>6, <1>7 DEF Next, Command

\* No command ever takes over a file that is not this program's own, in any
\* phase, for any number of hosts, versions, faults and edits.
THEOREM NobodysFileTaken == Spec => ForeignNeverTouched
<1> DEFINE F == \A s \in Slots \ edited' :
                  (job' # job /\ disk'[s] # disk[s])
                    => \/ disk[s] \in {Absent, Recorded(manifest.current, s)}
                       \/ s \in job.replaced /\ disk[s] = job.target[s]
<1>1. Init => TransitionInv
  BY DEF Init, Idle, TransitionInv, Began, Replacing, OwnedBefore, Underway
<1>2. TypeOK /\ Planned /\ TransitionInv /\ [Next]_vars => TransitionInv'
  BY TransitionKept
<1>3. TypeOK /\ Planned /\ TransitionInv /\ [Next]_vars => [F]_vars
  <2> SUFFICES ASSUME TypeOK, Planned, TransitionInv, Next,
                      NEW s \in Slots \ edited', job' # job, disk'[s] # disk[s]
               PROVE  \/ disk[s] \in {Absent, Recorded(manifest.current, s)}
                      \/ s \in job.replaced /\ disk[s] = job.target[s]
    OBVIOUS
  <2>1. edited' = edited /\ s \in Slots \ edited
    BY DiskStep
  <2>2. CASE Replace /\ s \in Writes \ job.replaced
    BY <2>1, <2>2 DEF Replace, TransitionInv, Replacing, OwnedBefore, Underway
  <2>3. CASE Underway /\ s \in job.replaced
    BY <2>1, <2>3 DEF Underway, TransitionInv, Began, Replacing
  <2> QED
    BY <2>2, <2>3, DiskStep
<1>4. [][F]_vars => ForeignNeverTouched
  BY DEF ForeignNeverTouched
<1> HIDE DEF F
<1> QED
  BY <1>1, <1>2, <1>3, <1>4, TypeCorrect, PTL DEF Spec

\* A transition that ends leaves everything it planned and nothing else, and one
\* that fails leaves every path as it was.
THEOREM NothingHalfDone == Spec => AllOrNothing
<1> DEFINE F == (job.phase \in {"stage", "commit"} /\ job'.phase = "idle") =>
                  /\ Publish =>
                       \A s \in Slots \ edited :
                         disk[s] = IF s \in Writes THEN job.target[s] ELSE job.before[s]
                  /\ FailTransition({}) =>
                       /\ manifest' = manifest
                       /\ \A s \in Slots \ edited : disk'[s] = job.before[s]
<1>1. Init => TransitionInv
  BY DEF Init, Idle, TransitionInv, Began, Replacing, OwnedBefore, Underway
<1>2. TypeOK /\ Planned /\ TransitionInv /\ [Next]_vars => TransitionInv'
  BY TransitionKept
<1>3. TypeOK /\ Planned /\ TransitionInv /\ [Next]_vars => [F]_vars
  <2> SUFFICES ASSUME TypeOK, Planned, TransitionInv, job.phase \in {"stage", "commit"},
                      NEW s \in Slots \ edited
               PROVE  /\ Publish =>
                           disk[s] = IF s \in Writes THEN job.target[s] ELSE job.before[s]
                      /\ FailTransition({}) => manifest' = manifest /\ disk'[s] = job.before[s]
    BY DEF FailTransition
  <2>1. ASSUME Publish
        PROVE  disk[s] = IF s \in Writes THEN job.target[s] ELSE job.before[s]
    BY <2>1 DEF Publish, TransitionInv, Replacing
  <2>2. ASSUME FailTransition({})
        PROVE  manifest' = manifest /\ disk'[s] = job.before[s]
    BY <2>2 DEF FailTransition, Restored, TransitionInv, Began, Replacing
  <2> QED
    BY <2>1, <2>2
<1>4. [][F]_vars => AllOrNothing
  BY DEF AllOrNothing
<1> HIDE DEF F
<1> QED
  BY <1>1, <1>2, <1>3, <1>4, TypeCorrect, PTL DEF Spec

-----------------------------------------------------------------------------
(* Rollback *)

\* A manifest that an upgrade has left: its snapshots have dates of their own,
\* and since no later install widened it, pins for every host it names.
Undoable(m) ==
  (m.state = "current-schema" /\ m.previous # NoSnapshot) =>
    /\ m.previous = m.current \/ m.previous.at < m.current.at
    /\ (m.installedAt <= m.current.at /\ m.previous # m.current) =>
         \A snap \in {m.current, m.previous} :
           snap.pinned /\ \A h \in m.present : snap.pin[h] # 0

\* Every date was drawn before now, and that of an install in progress after
\* that of the snapshot it finds.
Dated ==
  /\ job.at < clock
  /\ manifest.state = "current-schema" => manifest.current.at < clock
  /\ (Installing /\ manifest.state = "current-schema") => manifest.current.at < job.at
  /\ Underway => job.candidate.current.at < clock

UndoInv == Undoable(manifest) /\ Dated /\ (Underway => Undoable(job.candidate))

\* The candidate of a planned transition can be undone, or is undone already.
LEMMA PlanUndoable ==
  ASSUME TypeOK, UndoInv, PlanStep
  PROVE  Undoable(job'.candidate) /\ job'.candidate.current.at < clock' /\ clock <= clock'
<1>0. manifest \in Manifest /\ clock \in Nat
  BY DEF TypeOK
<1>1. manifest.current \in Snapshot /\ manifest.previous \in Snapshot
      /\ manifest.present \subseteq Hosts
  BY <1>0 DEF Manifest
<1>2. CASE PlanRollback
  <2>1. /\ Transition(manifest.current, manifest.previous, manifest.previous, TRUE)
        /\ clock' = clock /\ manifest.previous # NoSnapshot
        /\ manifest.state = "current-schema"
    BY <1>2 DEF PlanRollback, RollbackAccepted, Classified
  <2>2. job'.candidate = Candidate(manifest.previous, manifest.previous)
    BY <1>1, <2>1, TransitionBegins
  <2>3. job'.candidate.current = manifest.previous /\ job'.candidate.previous = manifest.previous
    BY <1>0, <2>2 DEF Candidate, Manifest
  <2>4. manifest.previous.at < clock
    <3>1. manifest.previous.at \in Nat /\ manifest.current.at \in Nat
      BY <1>1 DEF Snapshot
    <3>2. manifest.previous = manifest.current \/ manifest.previous.at < manifest.current.at
      BY <2>1 DEF UndoInv, Undoable
    <3>3. manifest.current.at < clock
      BY <2>1 DEF UndoInv, Dated
    <3> QED
      BY <1>0, <3>1, <3>2, <3>3
  <2> QED
    BY <1>0, <2>1, <2>3, <2>4 DEF Undoable
<1>3. CASE \E version \in Versions : PlanUpgrade(version)
  <2> PICK version \in Versions : PlanUpgrade(version)
    BY <1>3
  <2> DEFINE new == NewSnapshot(version, Hydrated.sequence + 1, clock, manifest.present)
  <2>1. /\ manifest.state = "current-schema" /\ PinsComplete(manifest.current)
        /\ new \in Snapshot /\ Transition(manifest.current, new, manifest.current, FALSE)
        /\ clock' = clock + 1
    BY UpgradePlanned
  <2>2. /\ new.at = clock /\ new.pinned
        /\ \A h \in manifest.present : new.pin[h] # 0
    <3>1. PinsOf[version] # 0
      BY ConfigAssumption
    <3> QED
      BY <1>1, <3>1 DEF NewSnapshot
  <2> HIDE DEF new
  <2>3. job'.candidate = Candidate(new, manifest.current)
    BY <1>1, <2>1, TransitionBegins
  <2>4. /\ job'.candidate.current = new /\ job'.candidate.previous = manifest.current
        /\ job'.candidate.present = manifest.present
    BY <1>0, <2>3 DEF Candidate, Manifest
  <2>5. manifest.current.at < clock
    BY <2>1 DEF UndoInv, Dated
  <2>6. Undoable(job'.candidate)
    BY <2>1, <2>2, <2>4, <2>5 DEF Undoable, PinsComplete
  <2> QED
    BY <1>0, <2>1, <2>2, <2>4, <2>6
<1> QED
  BY <1>2, <1>3 DEF PlanStep

\* What the ends of commands do to the manifest and to the clock.
LEMMA EndStep ==
  ASSUME TypeOK, Next, job' = Idle
  PROVE  \/ UNCHANGED <<manifest, clock>>
         \/ EndInstall
         \/ manifest' = NoManifest("invalid") /\ clock' = clock
         \/ Publish
         \/ PeopleStep
<1>1. Idle.phase = "idle" /\ Idle \in Job
  BY IdleType DEF Idle
<1>2. CASE \/ EndInstall \/ TearManifest \/ EndSync \/ Publish \/ Abort \/ Crash
           \/ \E kept \in SUBSET job.replaced : FailTransition(kept)
  BY <1>2 DEF EndInstall, TearManifest, EndSync, Publish, Abort, Crash, FailTransition
<1>3. CASE \/ InstallPin \/ InstallMakesHome \/ InstallAsset \/ SyncAsset \/ Stage \/ Replace
  BY <1>3 DEF InstallPin, InstallMakesHome, InstallAsset, SyncAsset, Stage, Replace
<1>4. CASE People
  BY <1>4 DEF People, Edit, HostInstalled, HostRemoved, UpdatePackage
<1>5. CASE BeginSync
  BY <1>5 DEF BeginSync, Begin
<1>6. CASE BeginInstall
  <2>1. PICK D, T : D = DetectedHosts /\ T = D \X {"pin"}
    OBVIOUS
  <2>2. job' = [Idle EXCEPT !.phase = "install pins", !.at = clock, !.seen = D, !.todo = T]
    BY <1>6, <2>1 DEF BeginInstall, Begin
  <2>3. job'.phase = "install pins"
    BY <1>1, <2>2 DEF Job
  <2> QED
    BY <1>1, <2>3
<1>7. CASE PlanRollback \/ \E version \in Versions : PlanUpgrade(version)
  BY <1>1, <1>7, PlanBegins DEF PlanStep
<1> QED
  BY <1>2, <1>3, <1>4, <1>5, <1>6, <1>7 DEF Next, Command

\* The manifest an install writes keeps a composition or begins one anew.
LEMMA InstallUndoable ==
  ASSUME TypeOK, UndoInv, EndInstall
  PROVE  /\ Undoable(manifest')
         /\ manifest'.state = "current-schema" => manifest'.current.at < clock
<1>0. manifest' = InstallManifest /\ job.at \in Nat /\ clock \in Nat /\ Installing
  BY DEF EndInstall, TypeOK, Job, Installing
<1>1. PICK m : m = InstallManifest
  OBVIOUS
<1>2. CASE Classified = "current-schema"
  <2>1. manifest.state = "current-schema"
    BY <1>2 DEF Classified
  <2>2. /\ m.current = manifest.current /\ m.previous = manifest.previous
        /\ m.installedAt = job.at
    BY <1>1, <1>2 DEF InstallManifest
  <2>3. manifest.current.at < job.at /\ manifest.current.at < clock
    BY <1>0, <2>1 DEF UndoInv, Dated
  <2>4. manifest.current.at \in Nat
    BY DEF TypeOK, Manifest, Snapshot
  <2> QED
    BY <1>0, <1>1, <2>1, <2>2, <2>3, <2>4 DEF UndoInv, Undoable
<1>3. CASE Classified # "current-schema"
  <2>1. m.previous = NoSnapshot /\ m.current = NewSnapshot(pkg, 0, job.at, job.owned)
    BY <1>1, <1>3 DEF InstallManifest
  <2>2. m.current.at = job.at
    BY <2>1 DEF NewSnapshot
  <2>3. job.at < clock
    BY DEF UndoInv, Dated
  <2> QED
    BY <1>0, <1>1, <2>1, <2>2, <2>3 DEF Undoable
<1> QED
  BY <1>2, <1>3

LEMMA UndoKept ==
  ASSUME TypeOK, Planned, UndoInv, [Next]_vars
  PROVE  UndoInv'
<1>0. /\ Idle.phase = "idle" /\ Idle.at = 0 /\ clock \in Nat /\ job.at \in Nat
      /\ manifest.current.at \in Nat /\ 0 < clock
  <2>1. Idle.phase = "idle" /\ Idle.at = 0
    BY DEF Idle
  <2>2. clock \in Nat /\ job.at \in Nat /\ manifest.current.at \in Nat
    BY DEF TypeOK, Job, Manifest, Snapshot
  <2> QED
    BY <2>1, <2>2 DEF UndoInv, Dated
<1>1. CASE UNCHANGED vars
  BY <1>1 DEF vars, UndoInv, Undoable, Dated, Underway, Installing
<1>2. CASE PeopleStep
  BY <1>2 DEF PeopleStep, UndoInv, Undoable, Dated, Underway, Installing
<1>3. CASE job' = Idle /\ Next
  <2>1. ~Underway' /\ ~Installing' /\ job'.at = 0
    BY <1>0, <1>3 DEF Underway, Installing
  <2>2. CASE UNCHANGED <<manifest, clock>>
    BY <1>0, <2>1, <2>2 DEF UndoInv, Undoable, Dated
  <2>3. CASE EndInstall
    <3>1. clock' = clock
      BY <2>3 DEF EndInstall
    <3> QED
      BY <1>0, <2>1, <2>3, <3>1, InstallUndoable DEF UndoInv, Undoable, Dated
  <2>4. CASE manifest' = NoManifest("invalid") /\ clock' = clock
    <3>1. manifest'.state = "invalid"
      BY <2>4 DEF NoManifest
    <3> QED
      BY <1>0, <2>1, <2>4, <3>1 DEF UndoInv, Undoable, Dated
  <2>5. CASE Publish
    <3>1. manifest' = job.candidate /\ clock' = clock /\ Underway
      BY <2>5 DEF Publish, Underway
    <3> QED
      BY <1>0, <2>1, <3>1 DEF UndoInv, Undoable, Dated
  <2> QED
    BY <1>2, <1>3, <2>2, <2>3, <2>4, <2>5, EndStep
<1>4. CASE BeginStep
  <2>1. ~Underway' /\ manifest' = manifest
    BY <1>4 DEF BeginStep, Underway
  <2>2. manifest.state = "current-schema" => manifest.current.at < clock
    BY DEF UndoInv, Dated
  <2>3. ASSUME job'.phase = "install pins", job'.at = clock, clock' = clock + 1
        PROVE  Dated'
    <3>1. \A c, a \in Nat : c < c + 1 /\ (a < c => a < c + 1)
      OBVIOUS
    <3>2. PICK c, a \in Nat : c = clock /\ a = manifest.current.at
      BY <1>0
    <3>3. c < c + 1 /\ (a < c => a < c + 1)
      BY <3>1
    <3>4. job'.at = c /\ clock' = c + 1 /\ manifest'.current.at = a
      BY <2>1, <2>3, <3>2
    <3>5. job'.at < clock'
      BY <3>3, <3>4
    <3>6. manifest'.state = "current-schema" =>
            manifest'.current.at < clock' /\ manifest'.current.at < job'.at
      BY <2>1, <2>2, <3>2, <3>3, <3>4
    <3> QED
      BY <2>1, <3>5, <3>6 DEF Dated
  <2>4. ASSUME job'.phase = "sync", job'.at = 0, clock' = clock
        PROVE  Dated'
    BY <1>0, <2>1, <2>2, <2>4 DEF Dated, Underway, Installing
  <2>5. Dated'
    BY <1>4, <2>3, <2>4 DEF BeginStep
  <2> QED
    BY <2>1, <2>5 DEF UndoInv, Undoable
<1>5. CASE PlanStep
  <2>1. /\ job'.phase = "stage" /\ job'.at = 0 /\ manifest' = manifest
    BY <1>5, PlanBegins
  <2>2. Undoable(job'.candidate) /\ job'.candidate.current.at < clock' /\ clock <= clock'
    BY <1>5, PlanUndoable
  <2>3. ~Installing'
    BY <2>1 DEF Installing
  <2>4. clock' \in Nat
    <3>1. clock' \in {clock, clock + 1}
      BY <1>5, UpgradePlanned DEF PlanStep, PlanRollback
    <3> QED
      BY <1>0, <3>1
  <2>5. Dated'
    BY <1>0, <2>1, <2>2, <2>3, <2>4 DEF UndoInv, Dated
  <2> QED
    BY <2>1, <2>2, <2>5 DEF UndoInv, Undoable
<1>6. CASE WriteStep
  BY <1>6 DEF WriteStep, UndoInv, Undoable, Dated, Installing, Underway
<1>7. CASE StageStep
  <2>1. Underway /\ ~Installing' /\ UNCHANGED <<manifest, clock>>
    BY <1>7 DEF StageStep, Stage, Underway, Installing
  <2> QED
    BY <1>7, <2>1 DEF StageStep, UndoInv, Undoable, Dated
<1>8. CASE ReplaceStep
  <2>1. Underway /\ ~Installing' /\ UNCHANGED <<manifest, clock>>
    BY <1>8 DEF ReplaceStep, Replace, Underway, Installing
  <2> QED
    BY <1>8, <2>1 DEF ReplaceStep, UndoInv, Undoable, Dated
<1> QED
  BY <1>1, <1>2, <1>3, <1>4, <1>5, <1>6, <1>7, <1>8, JobStep

\* As long as nobody reinstalls after an upgrade and the executing package reads
\* the manifest, a rollback is accepted or there is nothing left to roll back.
THEOREM RollbackStaysPossible == Spec => []UpgradeCanBeUndone
<1>1. Init => UndoInv
  <2> SUFFICES ASSUME Init
               PROVE  UndoInv
    OBVIOUS
  <2>1. job.at = 0 /\ job.phase = "idle" /\ clock = 1
    BY DEF Init, Idle
  <2>2. manifest.state # "current-schema"
    <3>1. NoManifest("legacy") \in Manifest /\ NoManifest("absent") \in Manifest
      BY NoManifestType
    <3>2. NoManifest("legacy").state = "legacy" /\ NoManifest("absent").state = "absent"
      BY DEF NoManifest
    <3> QED
      BY <3>1, <3>2 DEF Init, Manifest
  <2> QED
    BY <2>1, <2>2 DEF UndoInv, Undoable, Dated, Installing, Underway
<1>2. TypeOK /\ Planned /\ UndoInv /\ [Next]_vars => UndoInv'
  BY UndoKept
<1>3. TypeOK /\ UndoInv => UpgradeCanBeUndone
  <2> SUFFICES ASSUME TypeOK, UndoInv, Classified = "current-schema",
                      manifest.previous # NoSnapshot,
                      manifest.installedAt <= manifest.current.at,
                      manifest.current # manifest.previous
               PROVE  RollbackAccepted
    BY DEF UpgradeCanBeUndone
  <2>1. manifest.state = "current-schema"
    BY DEF Classified
  <2>2. manifest.current.at \in Nat /\ manifest.previous.at \in Nat
    BY DEF TypeOK, Manifest, Snapshot
  <2>3. /\ manifest.previous.at < manifest.current.at
        /\ PinsComplete(manifest.current) /\ PinsComplete(manifest.previous)
    BY <2>1 DEF UndoInv, Undoable, PinsComplete
  <2> QED
    BY <2>2, <2>3 DEF RollbackAccepted, SameAssets
<1> QED
  BY <1>1, <1>2, <1>3, TypeCorrect, PTL DEF Spec

-----------------------------------------------------------------------------
(* Rollback gives back the bytes *)

\* A manifest that names the snapshot a rollback would come back to.
Revertible(m) == m.state = "current-schema" /\ m.previous # NoSnapshot

\* The snapshots of a manifest name the bytes of real skills.
Furnished(m) ==
  m.state = "current-schema" =>
    /\ m.current.skills.kind = "skills"
    /\ m.previous # NoSnapshot => m.previous.skills.kind = "skills"

\* The bytes a path of undo may hold, before a rollback and after it.
Either(s) == {Recorded(manifest.current, s), Recorded(manifest.previous, s)}

\* Nobody has touched the paths of undo, and no install forgets their hosts.
Untouched ==
  /\ undo \cap edited = {}
  /\ \A s \in undo : /\ dir[s[1]]
                     /\ Installing => s[1] \in job.seen
                     /\ Revertible(manifest) => s[1] \in manifest.present

HeldIdle ==
  (Revertible(manifest) /\ ~Underway) => \A s \in undo : disk[s] \in Either(s)

\* What a transition under way plans: the recorded bytes of its candidate.
PlannedBytes ==
  Underway =>
    /\ manifest.state = "current-schema" /\ job.candidate.state = "current-schema"
    /\ job.candidate.present = manifest.present
    /\ \A s \in Writes : /\ s[1] \in manifest.present
                         /\ s \notin edited => dir[s[1]]
                         /\ job.target[s] = Recorded(job.candidate.current, s)

\* A transition found the paths of undo as they were held, and a rollback plans
\* all of them that are not back already.
HeldBefore ==
  Underway =>
    /\ Revertible(manifest) => \A s \in undo : job.before[s] \in Either(s)
    /\ job.undoes =>
         /\ Revertible(manifest)
         /\ job.candidate.current = manifest.previous
         /\ job.candidate.previous = manifest.previous
         /\ \A s \in undo \ Writes : job.before[s] = Recorded(manifest.previous, s)

RestoreInv ==
  /\ Furnished(manifest) /\ (Underway => Furnished(job.candidate))
  /\ Untouched /\ HeldIdle /\ PlannedBytes /\ HeldBefore

LEMMA SolidBytes ==
  ASSUME TypeOK, NEW snap \in Snapshot, snap.skills.kind = "skills", NEW s \in Slots
  PROVE  Recorded(snap, s) \notin {Absent, Keep}
<1>1. snap.at \in Nat /\ snap.pin[s[1]] \in Nat
  BY SlotParts DEF Snapshot
<1>2. snap.skills \notin {Absent, Keep}
  BY DEF Absent, Keep
<1>3. /\ Marker(snap.at) \notin {Absent, Keep}
      /\ PinAsset(snap.pin[s[1]]) \notin {Absent, Keep}
  BY DEF Marker, PinAsset, Absent, Keep
<1> QED
  BY <1>2, <1>3 DEF Recorded

LEMMA EitherSolid ==
  ASSUME TypeOK, RestoreInv, Revertible(manifest), NEW s \in Slots
  PROVE  Absent \notin Either(s)
<1>1. manifest.current \in Snapshot /\ manifest.previous \in Snapshot
  BY DEF TypeOK, Manifest
<1>2. manifest.current.skills.kind = "skills" /\ manifest.previous.skills.kind = "skills"
  BY DEF RestoreInv, Furnished, Revertible
<1> QED
  BY <1>1, <1>2, SolidBytes DEF Either

\* People take the paths they touch out of undo.
LEMMA PeopleRestore ==
  ASSUME TypeOK, RestoreInv, People
  PROVE  RestoreInv'
<1>1. /\ UNCHANGED <<job, manifest>>
      /\ undo' \subseteq undo /\ undo' \cap edited' = {} /\ edited \subseteq edited'
      /\ \A s \in Slots \ edited' : disk'[s] = disk[s] /\ (dir[s[1]] => dir'[s[1]])
  <2>0. disk \in [Slots -> Content] /\ dir \in [Hosts -> BOOLEAN] /\ undo \cap edited = {}
    BY DEF TypeOK, RestoreInv, Untouched
  <2>1. CASE \E s \in Slots : \E c \in {Absent, Foreign, Unreadable} : Edit(s, c)
    BY <2>0, <2>1 DEF Edit, Put
  <2>2. CASE \E h \in Hosts : HostInstalled(h)
    BY <2>0, <2>2, SlotParts DEF HostInstalled
  <2>3. CASE \E h \in Hosts : HostRemoved(h)
    <3> PICK h \in Hosts : HostRemoved(h)
      BY <2>3
    <3>1. \A s \in Slots : s[1] = h => s \in {h} \X Assets
      BY DEF Slots
    <3>2. PICK X : X = {h} \X Assets
      OBVIOUS
    <3>3. undo' = undo \ X /\ edited' = edited \cup X /\ \A s \in Slots : s[1] = h => s \in X
      BY <3>1, <3>2 DEF HostRemoved
    <3> QED
      BY <2>0, <3>3, SlotParts DEF HostRemoved
  <2>4. CASE \E version \in Versions : UpdatePackage(version)
    BY <2>0, <2>4 DEF UpdatePackage
  <2> QED
    BY <2>1, <2>2, <2>3, <2>4 DEF People
<1>2. undo \subseteq Slots
  BY DEF TypeOK
<1>3. Furnished(manifest)' /\ (Underway => Furnished(job.candidate))'
  BY <1>1 DEF RestoreInv, Furnished, Underway
<1>4. Untouched'
  BY <1>1, <1>2 DEF RestoreInv, Untouched, Installing, Revertible
<1>5. HeldIdle'
  BY <1>1, <1>2 DEF RestoreInv, HeldIdle, Revertible, Underway, Either, Recorded
<1>6. PlannedBytes'
  BY <1>1 DEF RestoreInv, PlannedBytes, Underway, Writes, Recorded
<1>7. HeldBefore'
  BY <1>1 DEF RestoreInv, HeldBefore, Revertible, Underway, Writes, Either, Recorded
<1> QED
  BY <1>3, <1>4, <1>5, <1>6, <1>7 DEF RestoreInv

\* Outside of transitions, only absent paths are written.
LEMMA QuietRestore ==
  ASSUME TypeOK, RestoreInv, ~Underway, ~Underway', manifest' = manifest, undo' = undo,
         edited' \in {edited, {}}, \A h \in Hosts : dir[h] => dir'[h],
         \A s \in Slots : disk[s] # Absent => disk'[s] = disk[s],
         Installing' => \A s \in undo : s[1] \in job'.seen
  PROVE  RestoreInv'
<1>1. undo \subseteq Slots /\ \A s \in undo : s[1] \in Hosts
  BY SlotParts DEF TypeOK
<1>2. Furnished(manifest)'
  BY DEF RestoreInv, Furnished
<1>3. Untouched'
  BY <1>1 DEF RestoreInv, Untouched, Revertible
<1>4. HeldIdle'
  <2> SUFFICES ASSUME Revertible(manifest), NEW s \in undo
               PROVE  disk'[s] \in Either(s)
    BY DEF HeldIdle, Revertible, Either, Recorded
  <2>1. disk[s] \in Either(s)
    BY DEF RestoreInv, HeldIdle
  <2> QED
    BY <1>1, <2>1, EitherSolid
<1> QED
  BY <1>2, <1>3, <1>4 DEF RestoreInv, PlannedBytes, HeldBefore

\* Commands begin, install and sync write and end, without a transition.
LEMMA OtherCommandsRestore ==
  ASSUME TypeOK, RestoreInv,
         \/ BeginInstall \/ BeginSync \/ InstallPin \/ InstallMakesHome \/ InstallAsset
         \/ SyncAsset \/ EndSync \/ Abort
  PROVE  RestoreInv'
<1>0. /\ disk \in [Slots -> Content] /\ dir \in [Hosts -> BOOLEAN] /\ job \in Job
      /\ undo \subseteq Slots /\ Idle \in Job /\ Idle.phase = "idle"
  BY IdleType DEF TypeOK, Idle
<1>1. CASE BeginInstall \/ BeginSync
  <2>1. PICK D, T, U : D = DetectedHosts /\ T = D \X {"pin"} /\ U = D \X {"marker", "pin"}
    OBVIOUS
  <2>2. /\ job.phase = "idle" /\ edited' = {} /\ UNCHANGED <<dir, disk, manifest, undo>>
        /\ \/ job' = [Idle EXCEPT !.phase = "install pins", !.at = clock, !.seen = D, !.todo = T]
           \/ job' = [Idle EXCEPT !.phase = "sync", !.todo = U]
    BY <1>1, <2>1 DEF BeginInstall, BeginSync, Begin
  <2>3. (job'.phase = "install pins" /\ job'.seen = D) \/ job'.phase = "sync"
    BY <1>0, <2>2 DEF Job
  <2>4. \A s \in undo : s[1] \in D
    BY <1>0, <2>1, SlotParts DEF RestoreInv, Untouched, DetectedHosts
  <2> QED
    BY <2>2, <2>3, <2>4, QuietRestore DEF Underway, Installing
<1>2. CASE InstallPin \/ InstallMakesHome \/ InstallAsset \/ SyncAsset
  <2>1. /\ manifest' = manifest /\ undo' = undo /\ edited' = edited
        /\ job.phase \in {"install pins", "install assets", "sync"}
    BY <1>2 DEF InstallPin, InstallMakesHome, InstallAsset, SyncAsset
  <2>2. \A h \in Hosts : dir[h] => dir'[h]
    BY <1>0, <1>2 DEF InstallPin, InstallMakesHome, InstallAsset, SyncAsset
  <2>3. \A s \in Slots : disk[s] # Absent => disk'[s] = disk[s]
    BY <1>0, <1>2 DEF InstallPin, InstallMakesHome, InstallAsset, SyncAsset, SyncWrites, Put
  <2>4. /\ job'.seen = job.seen /\ job'.phase \in {"install pins", "install assets", "sync"}
        /\ Installing' => Installing
    BY <1>0, <1>2 DEF InstallPin, InstallMakesHome, InstallAsset, SyncAsset, Visited, Job, Installing
  <2> QED
    BY <2>1, <2>2, <2>3, <2>4, QuietRestore DEF Underway, RestoreInv, Untouched
<1>3. CASE EndSync \/ Abort
  <2>1. /\ job' = Idle /\ ~Underway /\ UNCHANGED <<manifest, undo, edited, dir, disk>>
    BY <1>3 DEF EndSync, Abort, Ends, Underway
  <2> QED
    BY <1>0, <2>1, QuietRestore DEF Underway, Installing
<1> QED
  BY <1>1, <1>2, <1>3

\* An install keeps both snapshots or has none to come back to.
LEMMA InstallRestore ==
  ASSUME TypeOK, RestoreInv, EndInstall \/ TearManifest
  PROVE  RestoreInv'
<1>0. Idle.phase = "idle" /\ undo \subseteq Slots /\ \A s \in undo : s[1] \in Hosts
  BY SlotParts DEF TypeOK, Idle
<1>1. PICK m : m = manifest'
  OBVIOUS
<1>2. /\ Installing /\ ~Underway /\ ~Underway' /\ ~Installing'
      /\ UNCHANGED <<dir, disk, undo, edited>>
  BY <1>0 DEF EndInstall, TearManifest, Ends, Installing, Underway
<1>3. /\ Furnished(m)
      /\ Revertible(m) => /\ Revertible(manifest) /\ m.present = job.seen
                          /\ m.current = manifest.current /\ m.previous = manifest.previous
  <2>1. CASE TearManifest
    <3>1. m.state = "invalid"
      BY <1>1, <2>1 DEF TearManifest, NoManifest
    <3> QED
      BY <3>1 DEF Furnished, Revertible
  <2>2. CASE EndInstall /\ Classified = "current-schema"
    <3>1. manifest.state = "current-schema"
      BY <2>2 DEF Classified
    <3>2. m.current = manifest.current /\ m.previous = manifest.previous /\ m.present = job.seen
      BY <1>1, <2>2 DEF EndInstall, InstallManifest
    <3> QED
      BY <3>1, <3>2 DEF RestoreInv, Furnished, Revertible
  <2>3. CASE EndInstall /\ Classified # "current-schema"
    <3>1. m.previous = NoSnapshot /\ m.current = NewSnapshot(pkg, 0, job.at, job.owned)
      BY <1>1, <2>3 DEF EndInstall, InstallManifest
    <3>2. m.current.skills.kind = "skills"
      BY <3>1 DEF NewSnapshot, SkillsAsset
    <3> QED
      BY <3>1, <3>2 DEF Furnished, Revertible
  <2> QED
    BY <2>1, <2>2, <2>3
<1>4. Untouched'
  BY <1>1, <1>2, <1>3 DEF RestoreInv, Untouched
<1>5. HeldIdle'
  BY <1>0, <1>1, <1>2, <1>3 DEF RestoreInv, HeldIdle, Either, Recorded
<1> QED
  BY <1>1, <1>2, <1>3, <1>4, <1>5 DEF RestoreInv, PlannedBytes, HeldBefore

\* A transition is planned over paths as they are held.
LEMMA TransitionRestore ==
  ASSUME TypeOK, RestoreInv, manifest.state = "current-schema",
         NEW target \in Snapshot, NEW previous \in Snapshot, NEW undoes \in BOOLEAN,
         target.skills.kind = "skills", previous.skills.kind = "skills",
         Transition(manifest.current, target, previous, undoes),
         undoes => /\ Revertible(manifest)
                   /\ target = manifest.previous /\ previous = manifest.previous
                   /\ PinsComplete(manifest.current) /\ PinsComplete(manifest.previous)
  PROVE  RestoreInv'
<1>0. /\ manifest \in Manifest /\ undo \subseteq Slots /\ \A s \in undo : s[1] \in Hosts
  BY SlotParts DEF TypeOK
<1>1. /\ job.phase = "idle" /\ edited' = {} /\ UNCHANGED <<dir, disk, manifest, undo>>
      /\ job'.phase = "stage" /\ job'.before = disk /\ job'.undoes = undoes
      /\ job'.target = PlannedWrites(manifest.current, target)
      /\ job'.candidate = Candidate(target, previous)
  BY TransitionBegins
<1>2. /\ job'.candidate.state = "current-schema" /\ job'.candidate.present = manifest.present
      /\ job'.candidate.current = target /\ job'.candidate.previous = previous
  BY <1>0, <1>1 DEF Candidate, Manifest
<1>3. ~Underway /\ ~Installing' /\ Underway'
  BY <1>1 DEF Underway, Installing
<1>4. Furnished(manifest)' /\ Furnished(job.candidate)'
  BY <1>1, <1>2 DEF RestoreInv, Furnished
<1>5. Untouched' /\ HeldIdle'
  BY <1>1, <1>3 DEF RestoreInv, Untouched, HeldIdle, Revertible
<1>6. \A s \in Slots : job'.target[s] = IF Takes(manifest.current, target, s)
                                        THEN Recorded(target, s) ELSE Keep
  BY <1>1 DEF PlannedWrites
<1>7. PlannedBytes'
  <2>1. ASSUME NEW s \in Slots, job'.target[s] # Keep
        PROVE  /\ s[1] \in manifest.present /\ dir[s[1]]
               /\ job'.target[s] = Recorded(target, s)
    BY <1>6, <2>1 DEF Takes
  <2> QED
    BY <1>1, <1>2, <2>1 DEF PlannedBytes, Writes, Recorded
<1>8. \A s \in undo : Revertible(manifest) => disk[s] \in Either(s)
  BY <1>3 DEF RestoreInv, HeldIdle
<1>9. ASSUME undoes, NEW s \in undo, job'.target[s] = Keep
      PROVE  disk[s] = Recorded(manifest.previous, s)
  <2>1. s \in Slots /\ s[2] \in Assets /\ s[1] \in manifest.present /\ dir[s[1]]
    BY <1>0, <1>9, SlotParts DEF RestoreInv, Untouched
  <2>2. ~Takes(manifest.current, target, s)
    BY <1>6, <1>9, <2>1, SolidBytes
  <2>3. manifest.current.pin[s[1]] # 0 /\ target.pin[s[1]] # 0
    BY <1>9, <2>1 DEF PinsComplete
  <2> QED
    BY <1>8, <1>9, <2>1, <2>2, <2>3 DEF Takes, Either
<1>10. HeldBefore'
  <2>1. /\ Revertible(manifest') = Revertible(manifest) /\ undo' = undo
        /\ \A s \in Slots : Either(s)' = Either(s)
    BY <1>1 DEF Revertible, Either, Recorded
  <2>2. \A s \in undo \ Writes' : job'.target[s] = Keep
    BY <1>0 DEF Writes
  <2>3. \A s \in undo : Recorded(manifest'.previous, s) = Recorded(manifest.previous, s)
    BY <1>1
  <2> QED
    BY <1>0, <1>1, <1>2, <1>8, <1>9, <2>1, <2>2, <2>3 DEF HeldBefore
<1> QED
  BY <1>4, <1>5, <1>7, <1>10 DEF RestoreInv

LEMMA PlanRestore ==
  ASSUME TypeOK, RestoreInv, PlanStep
  PROVE  RestoreInv'
<1>1. manifest.current \in Snapshot /\ manifest.previous \in Snapshot
  BY DEF TypeOK, Manifest
<1>2. CASE PlanRollback
  <2>1. /\ Transition(manifest.current, manifest.previous, manifest.previous, TRUE)
        /\ Revertible(manifest)
        /\ PinsComplete(manifest.current) /\ PinsComplete(manifest.previous)
    BY <1>2 DEF PlanRollback, RollbackAccepted, Classified, Revertible
  <2>2. manifest.state = "current-schema" /\ manifest.previous.skills.kind = "skills"
    BY <2>1 DEF RestoreInv, Furnished, Revertible
  <2> QED
    BY <1>1, <2>1, <2>2, TransitionRestore
<1>3. CASE \E version \in Versions : PlanUpgrade(version)
  <2> PICK version \in Versions : PlanUpgrade(version)
    BY <1>3
  <2> DEFINE new == NewSnapshot(version, Hydrated.sequence + 1, clock, manifest.present)
  <2>1. /\ manifest.state = "current-schema" /\ new \in Snapshot
        /\ Transition(manifest.current, new, manifest.current, FALSE)
    BY UpgradePlanned
  <2>2. new.skills.kind = "skills"
    BY DEF NewSnapshot, SkillsAsset
  <2>3. manifest.current.skills.kind = "skills"
    BY <2>1 DEF RestoreInv, Furnished
  <2> HIDE DEF new
  <2> QED
    BY <1>1, <2>1, <2>2, <2>3, TransitionRestore
<1> QED
  BY <1>2, <1>3 DEF PlanStep

\* Staging and replacing change neither the plan nor what it knows.
LEMMA UnderwayRestore ==
  ASSUME TypeOK, RestoreInv, StageStep \/ ReplaceStep
  PROVE  RestoreInv'
<1>1. /\ Underway /\ Underway' /\ ~Installing' /\ UNCHANGED <<dir, manifest, undo, edited>>
      /\ job'.target = job.target /\ job'.candidate = job.candidate
      /\ job'.before = job.before /\ job'.undoes = job.undoes
  BY DEF StageStep, ReplaceStep, Stage, Replace, Underway, Installing
<1>2. Writes' = Writes
  BY <1>1 DEF Writes
<1>3. Furnished(manifest)' /\ (Underway => Furnished(job.candidate))'
  BY <1>1 DEF RestoreInv, Furnished
<1>4. Untouched' /\ HeldIdle'
  BY <1>1 DEF RestoreInv, Untouched, HeldIdle, Revertible
<1>5. PlannedBytes'
  BY <1>1, <1>2 DEF RestoreInv, PlannedBytes, Recorded
<1>6. HeldBefore'
  BY <1>1, <1>2 DEF RestoreInv, HeldBefore, Revertible, Either, Recorded
<1> QED
  BY <1>3, <1>4, <1>5, <1>6 DEF RestoreInv

\* However a transition ends, paths of undo hold one of the recorded bytes.
LEMMA EndRestore ==
  ASSUME TypeOK, Planned, TransitionInv, RestoreInv,
         \/ Publish \/ Crash \/ \E kept \in SUBSET job.replaced : FailTransition(kept)
  PROVE  RestoreInv'
<1>0. /\ Idle.phase = "idle" /\ undo \subseteq Slots /\ Writes \subseteq Slots
      /\ disk \in [Slots -> Content] /\ undo \cap edited = {}
  BY DEF TypeOK, Idle, Writes, RestoreInv, Untouched
<1>1. /\ Underway /\ ~Underway' /\ ~Installing' /\ UNCHANGED <<dir, edited>>
  BY <1>0 DEF Publish, Crash, FailTransition, Ends, Underway, Installing
<1>2. CASE Publish
  <2>1. /\ manifest' = job.candidate /\ disk' = disk /\ job.phase = "commit"
        /\ job.replaced = Writes
        /\ undo' = IF job.undoes THEN undo
                   ELSE {s \in Writes \ edited : job.before[s] = Recorded(manifest.current, s)}
    BY <1>2 DEF Publish
  <2>2. \A s \in Slots \ edited :
          disk[s] = IF s \in Writes THEN job.target[s] ELSE job.before[s]
    BY <2>1 DEF TransitionInv, Replacing
  <2>3. ASSUME NEW s \in undo'
        PROVE  /\ s \in Slots /\ s \notin edited /\ dir[s[1]] /\ s[1] \in job.candidate.present
               /\ disk[s] \in {Recorded(job.candidate.current, s),
                               Recorded(job.candidate.previous, s)}
    <3>1. CASE s \in Writes \ edited
      BY <1>0, <1>1, <2>2, <3>1 DEF RestoreInv, PlannedBytes
    <3>2. CASE job.undoes /\ s \in undo \ Writes
      BY <1>0, <1>1, <2>2, <3>2 DEF RestoreInv, PlannedBytes, HeldBefore, Untouched
    <3> QED
      BY <1>0, <2>1, <2>3, <3>1, <3>2
  <2>4. Furnished(manifest)'
    BY <1>1, <2>1 DEF RestoreInv, Furnished
  <2>5. Untouched'
    BY <1>1, <2>1, <2>3 DEF Untouched
  <2>6. HeldIdle'
    BY <2>1, <2>3 DEF HeldIdle, Either, Recorded
  <2> QED
    BY <1>1, <2>4, <2>5, <2>6 DEF RestoreInv, PlannedBytes, HeldBefore
<1>3. CASE Crash \/ \E kept \in SUBSET job.replaced : FailTransition(kept)
  <2>1. manifest' = manifest /\ undo' \subseteq undo
    BY <1>3 DEF Crash, FailTransition
  <2>2. ASSUME NEW s \in undo', Revertible(manifest)
        PROVE  disk'[s] \in Either(s)
    <3>0. s \in undo /\ s \in Slots \ edited /\ job.before[s] \in Either(s)
      BY <1>0, <1>1, <2>1, <2>2 DEF RestoreInv, HeldBefore
    <3>1. CASE Crash
      <4>1. disk' = disk /\ (s \in job.replaced => job.undoes)
        BY <2>2, <3>1 DEF Crash
      <4>2. CASE s \in job.replaced
        <5>1. s \in Writes /\ job.phase = "commit" /\ disk[s] = job.target[s]
          BY <1>1, <3>0, <4>2 DEF Planned, TransitionInv, Began, Replacing, Underway
        <5>2. job.target[s] = Recorded(manifest.previous, s)
          BY <1>1, <4>1, <4>2, <5>1 DEF RestoreInv, PlannedBytes, HeldBefore
        <5> QED
          BY <4>1, <5>1, <5>2 DEF Either
      <4>3. CASE s \notin job.replaced
        <5>1. disk[s] = job.before[s]
          BY <1>1, <3>0, <4>3 DEF TransitionInv, Began, Replacing, Underway
        <5> QED
          BY <3>0, <4>1, <5>1
      <4> QED
        BY <4>2, <4>3
    <3>2. CASE \E kept \in SUBSET job.replaced : FailTransition(kept)
      <4> PICK kept \in SUBSET job.replaced : FailTransition(kept)
        BY <3>2
      <4>1. disk' = Restored(kept) /\ s \notin kept
        BY <2>2 DEF FailTransition
      <4>2. disk'[s] = job.before[s]
        BY <1>1, <3>0, <4>1 DEF Restored, TransitionInv, Began, Replacing, Underway
      <4> QED
        BY <3>0, <4>2
    <3> QED
      BY <1>3, <3>1, <3>2
  <2>3. Furnished(manifest)'
    BY <2>1 DEF RestoreInv, Furnished
  <2>4. Untouched'
    BY <1>1, <2>1 DEF RestoreInv, Untouched, Revertible
  <2>5. HeldIdle'
    BY <2>1, <2>2 DEF HeldIdle, Either, Recorded, Revertible
  <2> QED
    BY <1>1, <2>3, <2>4, <2>5 DEF RestoreInv, PlannedBytes, HeldBefore
<1> QED
  BY <1>2, <1>3

\* Transitions and the paths of undo, in every reachable state.
LEMMA RestoreInvariant == Spec => [](TransitionInv /\ RestoreInv)
<1>1. Init => TransitionInv /\ RestoreInv
  <2> SUFFICES ASSUME Init
               PROVE  TransitionInv /\ RestoreInv
    OBVIOUS
  <2>1. job.phase = "idle" /\ undo = {}
    BY DEF Init, Idle
  <2>2. manifest.state # "current-schema"
    <3>1. NoManifest("legacy") \in Manifest /\ NoManifest("absent") \in Manifest
      BY NoManifestType
    <3>2. NoManifest("legacy").state = "legacy" /\ NoManifest("absent").state = "absent"
      BY DEF NoManifest
    <3> QED
      BY <3>1, <3>2 DEF Init, Manifest
  <2> QED
    BY <2>1, <2>2 DEF TransitionInv, Began, Replacing, OwnedBefore, RestoreInv, Furnished,
                      Untouched, HeldIdle, PlannedBytes, HeldBefore, Underway, Revertible
<1>2. TypeOK /\ Planned /\ TransitionInv /\ [Next]_vars => TransitionInv'
  BY TransitionKept
<1>3. TypeOK /\ Planned /\ TransitionInv /\ RestoreInv /\ [Next]_vars => RestoreInv'
  <2> SUFFICES ASSUME TypeOK, Planned, TransitionInv, RestoreInv, [Next]_vars
               PROVE  RestoreInv'
    OBVIOUS
  <2>1. CASE UNCHANGED vars
    BY <2>1 DEF vars, RestoreInv, Furnished, Untouched, HeldIdle, PlannedBytes, HeldBefore,
                Underway, Installing, Revertible, Either, Writes, Recorded
  <2>2. CASE Stage \/ Replace
    <3>1. StageStep \/ ReplaceStep
      BY <2>2, StagingSteps
    <3> QED
      BY <3>1, UnderwayRestore
  <2> QED
    BY <2>1, <2>2, PeopleRestore, OtherCommandsRestore, InstallRestore, PlanRestore,
       EndRestore DEF Next, Command, PlanStep
<1> QED
  BY <1>1, <1>2, <1>3, TypeCorrect, PTL DEF Spec

\* Whatever crashed, failed or was repeated in between, a rollback gives back the
\* exact bytes of what the upgrade had taken over and nobody touched.
THEOREM RollbackGivesBack == Spec => []RollbackRestores
<1>1. TypeOK /\ RestoreInv => RollbackRestores
  <2> SUFFICES ASSUME TypeOK, RestoreInv, job.phase = "idle",
                      manifest.state = "current-schema",
                      manifest.current = manifest.previous, NEW s \in undo
               PROVE  disk[s] = Recorded(manifest.previous, s)
    BY DEF RollbackRestores
  <2>1. manifest.previous # NoSnapshot
    BY DEF RestoreInv, Furnished, NoSnapshot, Absent
  <2> QED
    BY <2>1 DEF RestoreInv, HeldIdle, Revertible, Underway, Either
<1> QED
  BY <1>1, RestoreInvariant, TypeCorrect, PTL

-----------------------------------------------------------------------------
(* The doctor *)

\* Files are in directories that exist.
Housed == \A s \in Slots : ~dir[s[1]] => disk[s] = Absent

LEMMA HousedKept ==
  ASSUME TypeOK, Planned, Housed, [Next]_vars
  PROVE  Housed'
<1>0. disk \in [Slots -> Content] /\ dir \in [Hosts -> BOOLEAN]
      /\ \A s \in Slots : s[1] \in Hosts
  BY SlotParts DEF TypeOK
<1>1. CASE UNCHANGED <<dir, disk>>
  BY <1>1 DEF Housed
<1>2. CASE InstallPin \/ InstallAsset \/ SyncAsset \/ Replace
  <2>1. dir' = dir /\ \A s \in Slots : ~dir[s[1]] => disk'[s] = disk[s]
    BY <1>0, <1>2 DEF InstallPin, InstallAsset, SyncAsset, Replace, Put
  <2> QED
    BY <2>1 DEF Housed
<1>3. CASE \E kept \in SUBSET job.replaced : FailTransition(kept)
  <2>1. dir' = dir /\ \A s \in Slots : ~dir[s[1]] => disk'[s] = disk[s]
    BY <1>0, <1>3 DEF FailTransition, Restored
  <2> QED
    BY <2>1 DEF Housed
<1>4. CASE InstallMakesHome
  BY <1>0, <1>4 DEF InstallMakesHome, Housed
<1>5. CASE \E s \in Slots : \E c \in {Absent, Foreign, Unreadable} : Edit(s, c)
  <2>1. dir' = dir /\ \A s \in Slots : ~dir[s[1]] => disk'[s] = disk[s]
    BY <1>0, <1>5 DEF Edit, Put
  <2> QED
    BY <2>1 DEF Housed
<1>6. CASE \E h \in Hosts : HostInstalled(h) \/ HostRemoved(h)
  BY <1>0, <1>6 DEF HostInstalled, HostRemoved, Housed
<1>7. CASE PlanRollback \/ \E version \in Versions : PlanUpgrade(version)
  <2>1. UNCHANGED <<dir, disk>>
    BY <1>7 DEF PlanRollback, PlanUpgrade, Transition, Begin
  <2> QED
    BY <1>1, <2>1
<1>8. CASE \/ BeginInstall \/ EndInstall \/ TearManifest \/ BeginSync \/ EndSync \/ Stage
           \/ Publish \/ Abort \/ Crash \/ \E version \in Versions : UpdatePackage(version)
           \/ UNCHANGED vars
  <2>1. UNCHANGED <<dir, disk>>
    BY <1>8 DEF BeginInstall, EndInstall, TearManifest, BeginSync, EndSync, Stage, Publish, Abort,
                Crash, UpdatePackage, Begin, vars
  <2> QED
    BY <1>1, <2>1
<1> QED
  BY <1>2, <1>3, <1>4, <1>5, <1>6, <1>7, <1>8 DEF Next, Command, People

\* A transition out of a healthy home plans every managed path, for a candidate
\* that the executing package reads and whose pins are all recorded.
Sound(m) ==
  /\ m.state = "current-schema" /\ ValidSnapshot(m.current) /\ ValidSnapshot(m.previous)
  /\ \A h \in m.present : m.current.pin[h] # 0
PlansAll ==
  (Underway /\ job.healthy) =>
    Sound(job.candidate) /\ Writes = manifest.present \X Assets

\* A healthy home with pins holds the recorded bytes in every managed path.
LEMMA HealthyHolds ==
  ASSUME TypeOK, RestoreInv, DoctorHealthy, manifest.state = "current-schema",
         PinsComplete(manifest.current), NEW s \in manifest.present \X Assets
  PROVE  s \in Slots /\ disk[s] = Recorded(manifest.current, s) /\ disk[s] # Absent
<1>1. manifest \in Manifest
  BY DEF TypeOK
<1>2. s[1] \in manifest.present /\ s[2] \in Assets /\ s \in Slots /\ s = <<s[1], s[2]>>
  BY <1>1 DEF Manifest, Slots
<1>3. Hydrated = manifest.current /\ SkillsAvailable
  BY DEF Hydrated, SkillsAvailable
<1>4. CASE s[2] \in {"marker", "skills"}
  <2>1. s \in ManagedPaths
    BY <1>2, <1>4 DEF ManagedPaths
  <2>2. s \notin Drift /\ s \notin Missing
    BY DEF DoctorHealthy
  <2>3. disk[s] # Absent
    BY <2>1, <2>2 DEF Missing
  <2>4. disk[s] = Recorded(manifest.current, s)
    BY <1>3, <2>1, <2>2, <2>3 DEF Drift
  <2> QED
    BY <1>2, <2>3, <2>4
<1>5. CASE s[2] = "pin"
  <2>1. manifest.current.pin[s[1]] # 0 /\ manifest.current.pinned
    BY <1>2 DEF PinsComplete
  <2>2. PinState(s[1]) \in {"managed", "unmentioned"}
    BY <1>2, <1>3, <2>1 DEF DoctorHealthy, PinsHealthy
  <2>3. disk[<<s[1], "pin">>] = PinAsset(manifest.current.pin[s[1]])
    BY <1>3, <2>1, <2>2 DEF PinState
  <2>4. disk[s] = Recorded(manifest.current, s)
    BY <1>2, <1>5, <2>3 DEF Recorded
  <2>5. disk[s] # Absent
    BY <1>2, <1>5, <2>3 DEF PinAsset, Absent
  <2> QED
    BY <1>2, <2>4, <2>5
<1> QED
  BY <1>2, <1>4, <1>5 DEF Assets

LEMMA TransitionPlansAll ==
  ASSUME TypeOK, RestoreInv, Housed, manifest.state = "current-schema",
         PinsComplete(manifest.current),
         NEW target \in Snapshot, NEW previous \in Snapshot, NEW undoes \in BOOLEAN,
         target.skills.kind = "skills", \A h \in manifest.present : target.pin[h] # 0,
         ValidSnapshot(target), ValidSnapshot(previous),
         Transition(manifest.current, target, previous, undoes)
  PROVE  PlansAll'
<1>1. /\ UNCHANGED <<dir, disk, manifest, pkg>> /\ manifest \in Manifest
      /\ job'.target = PlannedWrites(manifest.current, target)
      /\ job'.candidate = Candidate(target, previous) /\ job'.healthy = DoctorHealthy
  BY TransitionBegins DEF TypeOK
<1>2. /\ job'.candidate.state = "current-schema" /\ job'.candidate.present = manifest.present
      /\ job'.candidate.current = target /\ job'.candidate.previous = previous
  BY <1>1 DEF Candidate, Manifest
<1>3. Sound(job.candidate)'
  BY <1>1, <1>2 DEF Sound, ValidSnapshot
<1>4. \A s \in Slots : job'.target[s] = IF Takes(manifest.current, target, s)
                                        THEN Recorded(target, s) ELSE Keep
  BY <1>1 DEF PlannedWrites
<1>5. ASSUME DoctorHealthy, NEW s \in Slots
      PROVE  job'.target[s] # Keep <=> s \in manifest.present \X Assets
  <2>1. CASE s \in manifest.present \X Assets
    <3>1. /\ s[1] \in manifest.present /\ disk[s] = Recorded(manifest.current, s)
          /\ disk[s] # Absent
      BY <1>5, <2>1, HealthyHolds
    <3>2. dir[s[1]]
      BY <3>1 DEF Housed
    <3>3. manifest.current.pin[s[1]] # 0 /\ target.pin[s[1]] # 0
      BY <3>1 DEF PinsComplete
    <3>4. Takes(manifest.current, target, s)
      BY <3>1, <3>2, <3>3 DEF Takes
    <3> QED
      BY <1>4, <2>1, <3>4, SolidBytes
  <2>2. CASE s \notin manifest.present \X Assets
    <3>1. s[1] \notin manifest.present
      BY <2>2 DEF Slots
    <3> QED
      BY <1>4, <2>2, <3>1 DEF Takes
  <2> QED
    BY <2>1, <2>2
<1>6. manifest.present \X Assets \subseteq Slots
  BY <1>1 DEF Manifest, Slots
<1>7. DoctorHealthy => Writes' = manifest.present \X Assets
  BY <1>5, <1>6 DEF Writes
<1> QED
  BY <1>1, <1>3, <1>7 DEF PlansAll

LEMMA PlansAllKept ==
  ASSUME TypeOK, Planned, RestoreInv, Housed, PlansAll, [Next]_vars
  PROVE  PlansAll'
<1>0. Idle.phase = "idle"
  BY DEF Idle
<1>1. CASE UNCHANGED <<job, manifest>> /\ (Underway => pkg' = pkg)
  BY <1>1 DEF PlansAll, Underway, Sound, ValidSnapshot, Writes
<1>2. CASE PeopleStep \/ UNCHANGED vars
  <2>1. Underway => pkg' = pkg
    <3>1. CASE People \/ UNCHANGED vars
      BY <3>1 DEF People, Edit, HostInstalled, HostRemoved, UpdatePackage, Underway, vars
    <3>2. CASE Command
      BY <3>2 DEF Command, BeginInstall, BeginSync, Begin, InstallPin, InstallMakesHome,
         InstallAsset, EndInstall, TearManifest, SyncAsset, EndSync, Stage, Replace, Publish, Abort,
         Crash, FailTransition, PlanRollback, PlanUpgrade, Transition
    <3> QED
      BY <3>1, <3>2 DEF Next
  <2> QED
    BY <1>1, <1>2, <2>1 DEF PeopleStep, vars
<1>3. CASE job' = Idle \/ BeginStep \/ WriteStep
  BY <1>0, <1>3 DEF BeginStep, WriteStep, PlansAll, Underway
<1>4. CASE StageStep \/ ReplaceStep
  <2>1. /\ UNCHANGED <<manifest, pkg>> /\ Underway
        /\ job'.candidate = job.candidate /\ job'.target = job.target
        /\ job'.healthy = job.healthy
    BY <1>4 DEF StageStep, ReplaceStep, Stage, Replace, Underway
  <2> QED
    BY <2>1 DEF PlansAll, Underway, Sound, ValidSnapshot, Writes
<1>5. CASE PlanStep
  <2>1. manifest \in Manifest /\ manifest.current \in Snapshot /\ manifest.previous \in Snapshot
    BY DEF TypeOK, Manifest
  <2>2. CASE PlanRollback
    <3>1. /\ Transition(manifest.current, manifest.previous, manifest.previous, TRUE)
          /\ Classified = "current-schema" /\ Revertible(manifest)
          /\ PinsComplete(manifest.current) /\ PinsComplete(manifest.previous)
      BY <2>2 DEF PlanRollback, RollbackAccepted, Classified, Revertible
    <3>2. manifest.state = "current-schema" /\ ValidSnapshot(manifest.previous)
      BY <3>1 DEF Classified, Revertible
    <3>3. manifest.previous.skills.kind = "skills"
      BY <3>1 DEF RestoreInv, Furnished, Revertible
    <3>4. \A h \in manifest.present : manifest.previous.pin[h] # 0
      BY <3>1 DEF PinsComplete
    <3> QED
      BY <2>1, <3>1, <3>2, <3>3, <3>4, TransitionPlansAll
  <2>3. CASE \E version \in Versions : PlanUpgrade(version)
    <3> PICK version \in Versions : PlanUpgrade(version)
      BY <2>3
    <3> DEFINE new == NewSnapshot(version, Hydrated.sequence + 1, clock, manifest.present)
    <3>1. /\ manifest.state = "current-schema" /\ PinsComplete(manifest.current)
          /\ new \in Snapshot /\ Transition(manifest.current, new, manifest.current, FALSE)
      BY UpgradePlanned
    <3>2. version = pkg /\ Classified \in {"legacy", "current-schema"}
      BY DEF PlanUpgrade, UpgradeAccepted
    <3>3. ValidSnapshot(manifest.current)
      BY <3>1, <3>2 DEF Classified
    <3>4. /\ new.skills.kind = "skills"
          /\ \A h \in Hosts : new.pin[h] = IF h \in manifest.present THEN PinsOf[version] ELSE 0
      BY DEF NewSnapshot, SkillsAsset
    <3> HIDE DEF new
    <3>5. ValidSnapshot(new)
      BY <3>2, <3>4 DEF ValidSnapshot
    <3>6. \A h \in manifest.present : new.pin[h] # 0
      BY <2>1, <3>4, ConfigAssumption DEF Manifest
    <3> QED
      BY <2>1, <3>1, <3>3, <3>4, <3>5, <3>6, TransitionPlansAll
  <2> QED
    BY <1>5, <2>2, <2>3 DEF PlanStep
<1> QED
  BY <1>2, <1>3, <1>4, <1>5, JobStep

\* The doctor and the planner agree on what the program owns: a transition out of
\* a healthy home takes over all managed paths and leaves a healthy home, for all
\* hosts, versions and packages, through any number of faults.
THEOREM HealthStays == Spec => HealthySurvivesTransition
<1> DEFINE F == (/\ job.phase = "commit" /\ manifest' # manifest /\ job.healthy /\ edited = {})
                  => Writes = manifest.present \X Assets /\ DoctorHealthy'
<1>1. Init => Housed /\ PlansAll
  <2>1. Init => ~Underway
    BY DEF Init, Idle, Underway
  <2>2. Init => Housed
    <3> SUFFICES ASSUME Init, NEW s \in Slots, ~dir[s[1]]
                 PROVE  disk[s] = Absent
      BY DEF Housed
    <3>1. CASE disk = [t \in Slots |-> Absent]
      BY <3>1
    <3>2. CASE disk = [t \in Slots |-> IF ~ dir[t[1]] \/ t[2] = "pin" THEN Absent
                                       ELSE IF t[2] = "marker" THEN Marker(0)
                                       ELSE SkillsAsset(SkillsOf[pkg])]
      BY <3>2
    <3> QED
      BY <3>1, <3>2 DEF Init
  <2> QED
    BY <2>1, <2>2 DEF PlansAll
<1>2. TypeOK /\ Planned /\ RestoreInv /\ Housed /\ PlansAll /\ [Next]_vars => (Housed /\ PlansAll)'
  BY HousedKept, PlansAllKept
<1>3. ASSUME TypeOK, Planned, TransitionInv, RestoreInv, PlansAll, [Next]_vars,
             job.phase = "commit", manifest' # manifest, job.healthy, edited = {}
      PROVE  Writes = manifest.present \X Assets /\ DoctorHealthy'
  <2>1. Publish
    <3>1. ~(People \/ UNCHANGED vars)
      BY <1>3 DEF People, Edit, HostInstalled, HostRemoved, UpdatePackage, vars
    <3>2. ~PlanStep
      BY <1>3, PlanBegins
    <3> QED
      BY <1>3, <3>1, <3>2 DEF Next, Command, PlanStep, BeginInstall, BeginSync, Begin, InstallPin,
         InstallMakesHome, InstallAsset, EndInstall, TearManifest, SyncAsset, EndSync, Stage,
         Replace, Abort, Crash, FailTransition
  <2> DEFINE c == job.candidate
  <2>2. /\ manifest' = c /\ disk' = disk /\ pkg' = pkg /\ job.replaced = Writes /\ Underway
    BY <2>1 DEF Publish, Underway
  <2>3. /\ Sound(c) /\ Writes = manifest.present \X Assets
        /\ c.present = manifest.present
        /\ \A s \in Writes : job.target[s] = Recorded(c.current, s)
    BY <1>3, <2>2 DEF PlansAll, RestoreInv, PlannedBytes
  <2>4. c.current \in Snapshot /\ c.current.skills.kind = "skills"
    BY <1>3, <2>2, <2>3 DEF RestoreInv, Furnished, Sound, TypeOK, Job, Manifest
  <2>5. ASSUME NEW s \in Writes
        PROVE  /\ disk'[s] = Recorded(c.current, s)
               /\ disk'[s] # Absent /\ s \in Slots
    <3>1. s \in Slots \ edited
      BY <1>3 DEF Writes
    <3>2. disk[s] = job.target[s]
      BY <1>3, <2>2, <3>1 DEF TransitionInv, Replacing
    <3> QED
      BY <1>3, <2>2, <2>3, <2>4, <3>1, <3>2, SolidBytes
  <2>6. Classified' = "current-schema" /\ Hydrated' = c.current
    BY <2>2, <2>3 DEF Classified, Hydrated, Sound, ValidSnapshot
  <2>7. ManagedPaths' \subseteq Writes
    BY <2>2, <2>3 DEF ManagedPaths, Assets
  <2>8. Drift' = {} /\ Missing' = {}
    <3>1. \A s \in ManagedPaths' : disk'[s] = Recorded(Hydrated', s) /\ disk'[s] # Absent
      BY <2>5, <2>6, <2>7
    <3>2. \A s : Recorded(Hydrated, s)' = Recorded(Hydrated', s)
      BY DEF Recorded
    <3> QED
      BY <3>1, <3>2 DEF Drift, Missing
  <2>9. PinsHealthy'
    <3> SUFFICES ASSUME NEW h \in manifest'.present
                 PROVE  PinState(h)' = "managed"
      BY DEF PinsHealthy
    <3>1. <<h, "pin">> \in Writes /\ c.current.pin[h] # 0
      BY <2>2, <2>3 DEF Assets, Sound
    <3>2. disk'[<<h, "pin">>] = PinAsset(c.current.pin[h]) /\ disk'[<<h, "pin">>] # Absent
      BY <2>5, <3>1 DEF Recorded
    <3> QED
      BY <2>6, <3>1, <3>2 DEF PinState
  <2> QED
    BY <2>3, <2>6, <2>8, <2>9 DEF DoctorHealthy
<1>4. TypeOK /\ Planned /\ TransitionInv /\ RestoreInv /\ PlansAll /\ [Next]_vars => [F]_vars
  BY <1>3
<1>5. [][F]_vars => HealthySurvivesTransition
  BY PTL DEF HealthySurvivesTransition
<1> HIDE DEF F
<1> QED
  BY <1>1, <1>2, <1>4, <1>5, TypeCorrect, RestoreInvariant, PTL DEF Spec

=============================================================================
