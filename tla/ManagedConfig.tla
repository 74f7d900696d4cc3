--------------------------- MODULE ManagedConfig ---------------------------
(***************************************************************************)
(* The managed agent-host composition: the commands install, sync, upgrade *)
(* and rollback over the files of one home directory                       *)
(* (src/configurator/managed-config.ts and src/cmd/commands/).             *)
(*                                                                         *)
(* Each agent host has a configuration directory with three managed files  *)
(* (marker, skills, pin); ~/.drenyra/managed.json, the manifest, records    *)
(* the bytes the program believes to own.  One command runs at a time, as  *)
(* a machine of phases, so that people may edit files, and the process may *)
(* fail or die, between any two of its writes.                             *)
(*                                                                         *)
(* Limits: file contents are records of a kind and a number; within a phase *)
(* the paths are visited in a fixed order, not necessarily the one of the  *)
(* code's host table; fsync is taken at its word.                          *)
(***************************************************************************)
EXTENDS Naturals, FiniteSets

CONSTANTS
    Hosts,        \* the known agent hosts
    HomeHost,     \* drenyra-pi: its directory is the one of the manifest
    Versions,     \* package versions a user may have installed
    SkillsOf,     \* [Versions -> Nat]: the skills a package version ships
    PinsOf,       \* [Versions -> Nat \ {0}]: the pins a package version ships
    MaxClock,     \* bound on the timestamps drawn
    MaxFaults,    \* bound on failures and crashes
    MaxEdits      \* bound on what people do to files and directories

ASSUME ConfigAssumption ==
    /\ HomeHost \in Hosts
    /\ Versions \subseteq Nat \ {0}
    /\ SkillsOf \in [Versions -> Nat]
    /\ PinsOf \in [Versions -> Nat \ {0}]
    /\ MaxClock \in Nat
    /\ MaxFaults \in Nat
    /\ MaxEdits \in Nat

VARIABLES
    dir,          \* [Hosts -> BOOLEAN]: the configuration directory exists
    disk,         \* [Slots -> Content]: what each managed path holds
    manifest,     \* managed.json
    pkg,          \* the version of the package that executes
    job,          \* the command in progress
    clock,        \* timestamps drawn so far
    faults,       \* failures and crashes so far
    edits,        \* what people did so far
    edited,       \* paths people changed since the command in progress began
    undo          \* paths that held the recorded bytes when an upgrade took them

vars == <<dir, disk, manifest, pkg, job, clock, faults, edits, edited, undo>>

----------------------------------------------------------------------------
(* Contents, snapshots and the manifest                                    *)

Assets == {"marker", "skills", "pin"}
Slots == Hosts \X Assets

Content == [kind : {"absent", "foreign", "unreadable", "marker", "skills", "pin"},
            n : Nat]
Absent == [kind |-> "absent", n |-> 0]
Foreign == [kind |-> "foreign", n |-> 0]
Unreadable == [kind |-> "unreadable", n |-> 0]
Marker(t) == [kind |-> "marker", n |-> t]
SkillsAsset(k) == [kind |-> "skills", n |-> k]
PinAsset(p) == [kind |-> "pin", n |-> p]

\* A snapshot; pin[h] = 0 when it records no pin entry for h, and pinned is
\* FALSE for a snapshot older than pin records.
Snapshot == [version : Nat, sequence : Nat, at : Nat, skills : Content,
             pinned : BOOLEAN, pin : [Hosts -> Nat]]
NoSnapshot == [version |-> 0, sequence |-> 0, at |-> 0, skills |-> Absent,
               pinned |-> FALSE, pin |-> [h \in Hosts |-> 0]]

Manifest == [state : {"absent", "invalid", "legacy", "current-schema"},
             version : Nat, installedAt : Nat, present : SUBSET Hosts,
             current : Snapshot, previous : Snapshot]
NoManifest(state) ==
    [state |-> state, version |-> 0, installedAt |-> 0, present |-> {},
     current |-> NoSnapshot, previous |-> NoSnapshot]

\* The exact bytes a snapshot records for a path.
Recorded(snap, s) ==
    CASE s[2] = "marker" -> Marker(snap.at)
      [] s[2] = "skills" -> snap.skills
      [] OTHER -> PinAsset(snap.pin[s[1]])

\* isPinnedComposition: a recorded pin must be the bytes the EXECUTING package
\* renders for that host.
ValidSnapshot(snap) ==
    \A h \in Hosts : snap.pin[h] \in {0, PinsOf[pkg]}

\* readManagedState and classifyManifest.
Classified ==
    IF /\ manifest.state = "current-schema"
       /\ ~ (ValidSnapshot(manifest.current) /\ ValidSnapshot(manifest.previous))
    THEN "invalid"
    ELSE manifest.state

\* readLegacySkillsContent: the skills of a readable recorded-present host.
LegacySkills ==
    {disk[<<h, "skills">>] : h \in {g \in manifest.present :
        disk[<<g, "skills">>] \notin {Absent, Unreadable}}}

\* hydrateCurrentSnapshot.
Hydrated ==
    IF manifest.state = "current-schema"
    THEN manifest.current
    ELSE [NoSnapshot EXCEPT
            !.version = manifest.version,
            !.at = manifest.installedAt,
            !.skills = IF LegacySkills = {} THEN Absent
                       ELSE CHOOSE c \in LegacySkills : TRUE]
SkillsAvailable == manifest.state = "current-schema" \/ LegacySkills # {}

PinsComplete(snap) ==
    snap.pinned /\ \A h \in manifest.present : snap.pin[h] # 0

SamePins(a, b) == a.pinned = b.pinned /\ a.pin = b.pin
SameAssets(a, b) == a.at = b.at /\ a.skills = b.skills /\ SamePins(a, b)

DetectedHosts == {h \in Hosts : dir[h]}

----------------------------------------------------------------------------
(* The command in progress                                                 *)

Keep == [kind |-> "absent", n |-> 1]  \* no write planned for the path

Phases == {"idle", "install pins", "install assets", "sync", "stage", "commit"}
Job == [phase : Phases, todo : SUBSET Slots, at : Nat, seen : SUBSET Hosts,
        owned : SUBSET Hosts, target : [Slots -> Content], candidate : Manifest,
        original : [Slots -> Content], replaced : SUBSET Slots,
        before : [Slots -> Content], undoes : BOOLEAN, healthy : BOOLEAN]
Idle == [phase |-> "idle", todo |-> {}, at |-> 0, seen |-> {}, owned |-> {},
         target |-> [s \in Slots |-> Keep], candidate |-> NoManifest("absent"),
         original |-> [s \in Slots |-> Absent], replaced |-> {},
         before |-> [s \in Slots |-> Absent], undoes |-> FALSE, healthy |-> FALSE]

Writes == {s \in Slots : job.target[s] # Keep}

\* The path a loop over paths visits next.
Turn(S) == CHOOSE s \in S : TRUE

Ends == job' = Idle

Init ==
    /\ dir \in [Hosts -> BOOLEAN]
    /\ pkg \in Versions
    /\ \/ /\ manifest = NoManifest("absent")
          /\ disk = [s \in Slots |-> Absent]
       \/ /\ dir[HomeHost]            \* left by a package without compositions
          /\ manifest = [NoManifest("legacy") EXCEPT
                           !.version = pkg, !.present = DetectedHosts]
          /\ disk = [s \in Slots |->
                       IF ~ dir[s[1]] \/ s[2] = "pin" THEN Absent
                       ELSE IF s[2] = "marker" THEN Marker(0)
                       ELSE SkillsAsset(SkillsOf[pkg])]
    /\ job = Idle
    /\ clock = 1
    /\ faults = 0
    /\ edits = 0
    /\ edited = {}
    /\ undo = {}

Begin(started) ==
    /\ job.phase = "idle"
    /\ job' = started
    /\ edited' = {}
    /\ UNCHANGED <<dir, disk, manifest, pkg, faults, edits, undo>>

Fault ==
    /\ faults < MaxFaults
    /\ faults' = faults + 1

\* A failure happens by itself or because the path is gone or locked.
Failure ==
    \/ Fault
    \/ /\ \E s \in job.todo \cup Writes : ~ dir[s[1]] \/ disk[s] = Unreadable
       /\ UNCHANGED faults

DrawTime ==
    /\ clock <= MaxClock
    /\ clock' = clock + 1

Put(s, content) == disk' = [disk EXCEPT ![s] = content]
Visited(s) == job' = [job EXCEPT !.todo = @ \ {s}]

----------------------------------------------------------------------------
(* drenyra-ai install                                                      *)

BeginInstall ==
    /\ DrawTime
    /\ Begin([Idle EXCEPT !.phase = "install pins", !.at = clock,
                          !.seen = DetectedHosts,
                          !.todo = DetectedHosts \X {"pin"}])

\* A pin entry is recorded only for the pin file this install creates.
InstallPin ==
    LET s == Turn(job.todo) IN
    /\ job.phase = "install pins"
    /\ job.todo # {}
    /\ dir[s[1]]
    /\ IF disk[s] = Absent
       THEN /\ Put(s, PinAsset(PinsOf[pkg]))
            /\ job' = [job EXCEPT !.todo = @ \ {s}, !.owned = @ \cup {s[1]}]
       ELSE Visited(s) /\ UNCHANGED disk
    /\ UNCHANGED <<dir, manifest, pkg, clock, faults, edits, edited, undo>>

InstallMakesHome ==
    /\ job.phase = "install pins"
    /\ job.todo = {}
    /\ dir' = [dir EXCEPT ![HomeHost] = TRUE]
    /\ job' = [job EXCEPT !.phase = "install assets",
                          !.todo = job.seen \X {"marker", "skills"}]
    /\ UNCHANGED <<disk, manifest, pkg, clock, faults, edits, edited, undo>>

InstallAsset ==
    LET s == Turn(job.todo) IN
    /\ job.phase = "install assets"
    /\ job.todo # {}
    /\ dir[s[1]]
    /\ IF disk[s] = Absent
       THEN Put(s, IF s[2] = "marker" THEN Marker(job.at)
                                      ELSE SkillsAsset(SkillsOf[pkg]))
       ELSE UNCHANGED disk
    /\ Visited(s)
    /\ UNCHANGED <<dir, manifest, pkg, clock, faults, edits, edited, undo>>

NewSnapshot(version, sequence, at, owned) ==
    [version |-> version, sequence |-> sequence, at |-> at,
     skills |-> SkillsAsset(SkillsOf[version]), pinned |-> TRUE,
     pin |-> [h \in Hosts |-> IF h \in owned THEN PinsOf[version] ELSE 0]]

\* The manifest of an install: an existing composition is kept, everything
\* else is written afresh.
InstallManifest ==
    LET keeps == Classified = "current-schema"
    IN [state |-> "current-schema", version |-> pkg, installedAt |-> job.at,
        present |-> job.seen,
        current |-> IF keeps THEN manifest.current
                    ELSE NewSnapshot(pkg, 0, job.at, job.owned),
        previous |-> IF keeps THEN manifest.previous ELSE NoSnapshot]

EndInstall ==
    /\ job.phase = "install assets"
    /\ job.todo = {}
    /\ manifest' = InstallManifest
    /\ Ends
    /\ UNCHANGED <<dir, disk, pkg, clock, faults, edits, edited, undo>>

\* writeFileSync is no atomic replacement: a process that dies in it leaves a
\* manifest that does not parse.
TearManifest ==
    /\ Fault
    /\ job.phase = "install assets"
    /\ job.todo = {}
    /\ manifest' = NoManifest("invalid")
    /\ Ends
    /\ UNCHANGED <<dir, disk, pkg, clock, edits, edited, undo>>

----------------------------------------------------------------------------
(* drenyra-ai sync                                                         *)

BeginSync ==
    /\ Classified \in {"legacy", "current-schema"}
    /\ Begin([Idle EXCEPT !.phase = "sync",
                          !.todo = DetectedHosts \X {"marker", "pin"}])
    /\ UNCHANGED clock

\* The recorded bytes are recreated where the file is absent; a host without
\* a pin entry gets no pin.
SyncWrites(s) ==
    disk[s] = Absent /\ (s[2] = "pin" => Hydrated.pin[s[1]] # 0)

SyncAsset ==
    LET s == Turn(job.todo) IN
    /\ job.phase = "sync"
    /\ job.todo # {}
    /\ dir[s[1]]
    /\ ~ (s[2] = "marker" /\ disk[s] = Unreadable)  \* the read throws: Abort
    /\ IF SyncWrites(s) THEN Put(s, Recorded(Hydrated, s)) ELSE UNCHANGED disk
    /\ Visited(s)
    /\ UNCHANGED <<dir, manifest, pkg, clock, faults, edits, edited, undo>>

EndSync ==
    /\ job.phase = "sync"
    /\ job.todo = {}
    /\ Ends
    /\ UNCHANGED <<dir, disk, manifest, pkg, clock, faults, edits, edited, undo>>

----------------------------------------------------------------------------
(* drenyra-ai doctor: runConfigDiagnostics reads and never writes          *)

ManagedPaths == manifest.present \X {"marker", "skills"}
DriftOfMarkers ==                                                        \* a mutant
    {s \in manifest.present \X {"marker"} :
        disk[s] \notin {Absent, Recorded(Hydrated, s)}}
Drift ==
    {s \in ManagedPaths : /\ s[2] = "skills" => SkillsAvailable
                          /\ disk[s] \notin {Absent, Recorded(Hydrated, s)}}
Missing == {s \in ManagedPaths : disk[s] = Absent}

\* classifyPinnedRuntime: managed, drift, foreign or absent; nothing is said of
\* a host without an entry and without a pin file.
PinState(h) ==
    LET found == disk[<<h, "pin">>]
        pin   == Hydrated.pin[h]
    IN  CASE pin = 0 /\ found = Absent -> "unmentioned"
          [] pin = 0 /\ found # Absent -> "foreign"
          [] pin # 0 /\ found = Absent -> "absent"
          [] pin # 0 /\ found = PinAsset(pin) -> "managed"
          [] pin # 0 /\ found \notin {Absent, PinAsset(pin)} -> "drift"
PinsHealthy ==
    Hydrated.pinned =>
      \A h \in manifest.present : PinState(h) \in {"managed", "unmentioned"}

\* Every check but the package pin, which differs before any upgrade.
DoctorHealthy ==
    /\ Classified \in {"legacy", "current-schema"}
    /\ Drift = {}
    /\ Missing = {}
    /\ PinsHealthy

----------------------------------------------------------------------------
(* drenyra-ai upgrade and rollback: plan                                   *)

\* planAssetTransitions: a path is taken over only when it is absent or holds
\* exactly the recorded current bytes.
TakesAnyReadable(current, target, s) ==                                  \* a mutant
    s[1] \in manifest.present /\ dir[s[1]] /\ disk[s] # Unreadable
Takes(current, target, s) ==
    /\ s[1] \in manifest.present
    /\ dir[s[1]]
    /\ disk[s] \in {Absent, Recorded(current, s)}
    /\ s[2] = "pin" => current.pin[s[1]] # 0 /\ target.pin[s[1]] # 0
PlannedWrites(current, target) ==
    [s \in Slots |-> IF Takes(current, target, s) THEN Recorded(target, s)
                                                   ELSE Keep]

Candidate(target, previous) ==
    [manifest EXCEPT !.state = "current-schema", !.version = target.version,
                     !.current = target, !.previous = previous]

Transition(current, target, previous, undoes) ==
    Begin([Idle EXCEPT !.phase = "stage",
                       !.target = PlannedWrites(current, target),
                       !.candidate = Candidate(target, previous),
                       !.before = disk, !.undoes = undoes,
                       !.healthy = DoctorHealthy])

\* planUpgrade refuses, unless the version is new, packaged, and the manifest
\* holds complete bytes to come back to.
UpgradeAcceptedUnpinned(version) ==                                      \* a mutant
    /\ Classified = "current-schema"
    /\ version # Hydrated.version
    /\ version = pkg
UpgradeAccepted(version) ==
    /\ Classified \in {"legacy", "current-schema"}
    /\ version # Hydrated.version
    /\ version = pkg
    /\ SkillsAvailable
    /\ PinsComplete(Hydrated)
PlanUpgrade(version) ==
    /\ UpgradeAccepted(version)
    /\ Transition(Hydrated,
                  NewSnapshot(version, Hydrated.sequence + 1, clock,
                              manifest.present),
                  Hydrated, FALSE)
    /\ DrawTime

RollbackAccepted ==
    /\ Classified = "current-schema"
    /\ manifest.previous # NoSnapshot
    /\ PinsComplete(manifest.current)
    /\ PinsComplete(manifest.previous)
    /\ ~ (/\ manifest.current.version = manifest.previous.version
          /\ SameAssets(manifest.current, manifest.previous))
PlanRollbackAgainstPrevious ==                                           \* a mutant
    /\ RollbackAccepted
    /\ Transition(manifest.previous, manifest.previous, manifest.previous, TRUE)
    /\ UNCHANGED clock
PlanRollback ==
    /\ RollbackAccepted
    /\ Transition(manifest.current, manifest.previous, manifest.previous, TRUE)
    /\ UNCHANGED clock

----------------------------------------------------------------------------
(* commitTransition                                                        *)

\* The temporary files are written and the original bytes kept in memory.
Stage ==
    /\ job.phase = "stage"
    /\ \A s \in Writes : dir[s[1]] /\ disk[s] # Unreadable
    /\ job' = [job EXCEPT !.phase = "commit", !.original = disk]
    /\ UNCHANGED <<dir, disk, manifest, pkg, clock, faults, edits, edited, undo>>

Replace ==
    LET s == Turn(Writes \ job.replaced) IN
    /\ job.phase = "commit"
    /\ Writes # job.replaced
    /\ dir[s[1]]
    /\ Put(s, job.target[s])
    /\ job' = [job EXCEPT !.replaced = @ \cup {s}]
    /\ UNCHANGED <<dir, manifest, pkg, clock, faults, edits, edited, undo>>

\* The manifest is renamed last.  An upgrade makes the managed paths it took
\* ones a rollback gives back.
Publish ==
    /\ job.phase = "commit"
    /\ job.replaced = Writes
    /\ manifest' = job.candidate
    /\ undo' = IF job.undoes THEN undo
               ELSE {s \in Writes \ edited :
                       job.before[s] = Recorded(manifest.current, s)}
    /\ Ends
    /\ UNCHANGED <<dir, disk, pkg, clock, faults, edits, edited>>

\* restoreAfterFailure: replaced paths get their original bytes back, or are
\* removed when they were absent; kept are those whose restore fails too.
RestoredUnlessCreated(kept) ==                                           \* a mutant
    [s \in Slots |-> IF s \in job.replaced \ kept /\ job.original[s] # Absent
                     THEN job.original[s] ELSE disk[s]]
Restored(kept) ==
    [s \in Slots |-> IF s \in job.replaced \ kept THEN job.original[s]
                                                   ELSE disk[s]]
FailTransition(kept) ==
    /\ Failure
    /\ job.phase \in {"stage", "commit"}
    /\ {s \in job.replaced : ~ dir[s[1]]} \subseteq kept
    /\ disk' = Restored(kept)
    /\ undo' = undo \ kept
    /\ Ends
    /\ UNCHANGED <<dir, manifest, pkg, clock, edits, edited>>

\* install and sync stop where an exception is thrown.
Abort ==
    /\ Failure
    /\ job.phase \in {"install pins", "install assets", "sync"}
    /\ Ends
    /\ UNCHANGED <<dir, disk, manifest, pkg, clock, edits, edited, undo>>

\* The process dies: files stay as they are.  What an upgrade had replaced is
\* no longer what the manifest records.
Crash ==
    /\ Fault
    /\ job.phase \in {"stage", "commit"}
    /\ undo' = IF job.undoes THEN undo ELSE undo \ job.replaced
    /\ Ends
    /\ UNCHANGED <<dir, disk, manifest, pkg, clock, edits, edited>>

----------------------------------------------------------------------------
(* People: files edited, deleted or locked, hosts installed or removed, the *)
(* package replaced between commands                                       *)

Edit(s, content) ==
    /\ edits < MaxEdits
    /\ edits' = edits + 1
    /\ dir[s[1]]
    /\ disk[s] # content
    /\ Put(s, content)
    /\ edited' = edited \cup {s}
    /\ undo' = undo \ {s}
    /\ UNCHANGED <<dir, manifest, pkg, job, clock, faults>>

HostInstalled(h) ==
    /\ edits < MaxEdits
    /\ edits' = edits + 1
    /\ ~ dir[h]
    /\ dir' = [dir EXCEPT ![h] = TRUE]
    /\ UNCHANGED <<disk, manifest, pkg, job, clock, faults, edited, undo>>

HostRemoved(h) ==
    /\ edits < MaxEdits
    /\ edits' = edits + 1
    /\ dir[h]
    /\ h # HomeHost
    /\ dir' = [dir EXCEPT ![h] = FALSE]
    /\ disk' = [s \in Slots |-> IF s[1] = h THEN Absent ELSE disk[s]]
    /\ edited' = edited \cup {h} \X Assets
    /\ undo' = undo \ ({h} \X Assets)
    /\ UNCHANGED <<manifest, pkg, job, clock, faults>>

UpdatePackage(version) ==
    /\ job.phase = "idle"
    /\ version # pkg
    /\ pkg' = version
    /\ UNCHANGED <<dir, disk, manifest, job, clock, faults, edits, edited, undo>>

----------------------------------------------------------------------------
Command ==
    \/ BeginInstall \/ InstallPin \/ InstallMakesHome \/ InstallAsset
    \/ EndInstall \/ TearManifest
    \/ BeginSync \/ SyncAsset \/ EndSync
    \/ PlanRollback \/ Stage \/ Replace \/ Publish \/ Abort \/ Crash
    \/ \E version \in Versions : PlanUpgrade(version)
    \/ \E kept \in SUBSET job.replaced : FailTransition(kept)
People ==
    \/ \E s \in Slots : \E c \in {Absent, Foreign, Unreadable} : Edit(s, c)
    \/ \E h \in Hosts : HostInstalled(h) \/ HostRemoved(h)
    \/ \E version \in Versions : UpdatePackage(version)
Next == Command \/ People

Spec == Init /\ [][Next]_vars

(* Properties                                                              *)

TypeOK ==
    /\ dir \in [Hosts -> BOOLEAN]
    /\ disk \in [Slots -> Content]
    /\ manifest \in Manifest
    /\ pkg \in Versions
    /\ job \in Job
    /\ clock \in Nat
    /\ faults \in Nat
    /\ edits \in Nat
    /\ edited \subseteq Slots
    /\ undo \subseteq Slots

\* A command changes a path only where the path is absent, holds the bytes the
\* manifest records as this program's own, or holds what the command itself
\* had just put there (a restore).  Somebody's file survives every command, in
\* every phase of it, unless it was edited after the command had looked.
ForeignNeverTouched ==
    [][\A s \in Slots \ edited' :
         (job' # job /\ disk'[s] # disk[s])
           => \/ disk[s] \in {Absent, Recorded(manifest.current, s)}
              \/ s \in job.replaced /\ disk[s] = job.target[s]]_vars

\* commitTransition leaves no mixed state: when it returns, the manifest is the
\* candidate, every planned path holds its target and every other path is as
\* before; when it throws, manifest and paths are as before (created files are
\* gone again).  Paths edited by others meanwhile are not covered.
AllOrNothing ==
    [][(job.phase \in {"stage", "commit"} /\ job'.phase = "idle") =>
         /\ Publish =>
              \A s \in Slots \ edited :
                disk[s] = IF s \in Writes THEN job.target[s] ELSE job.before[s]
         /\ FailTransition({}) =>
              /\ manifest' = manifest
              /\ \A s \in Slots \ edited : disk'[s] = job.before[s]]_vars

\* After a rollback every path the upgrade had taken over and nobody touched
\* since holds again the exact bytes it held before the upgrade, whatever
\* crashes, failed attempts and repeated rollbacks happened in between.
RollbackRestores ==
    (job.phase = "idle" /\ manifest.state = "current-schema"
       /\ manifest.current = manifest.previous)
      => \A s \in undo : disk[s] = Recorded(manifest.previous, s)

\* An upgrade can be undone: as long as nobody reinstalls after it and the
\* executing package reads the manifest, a rollback is accepted, or there is
\* nothing left to roll back.
UpgradeCanBeUndone ==
    (/\ Classified = "current-schema"
     /\ manifest.previous # NoSnapshot
     /\ manifest.installedAt <= manifest.current.at)
      => RollbackAccepted \/ manifest.current = manifest.previous

\* The doctor and the planner agree on what this program owns: a transition out
\* of a home the doctor finds nothing wrong with takes over every managed path,
\* and leaves a home the doctor finds nothing wrong with.
HealthySurvivesTransition ==
    [][(/\ job.phase = "commit"
        /\ manifest' # manifest
        /\ job.healthy
        /\ edited = {})
         => Writes = manifest.present \X Assets /\ DoctorHealthy']_vars

============================================================================
