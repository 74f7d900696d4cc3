# A TLA+ development of drenyra-ai

drenyra-ai is a runtime for accounting agents: an agent stages work, deterministic
gates validate it, a professional decides, and signed receipts and an append-only
event log remain. This directory holds TLA+ models of its state machines and of the
code that runs them, TLC configurations for small instances, and TLAPS proofs.
Paths below are relative to `src/`.

The modules form five groups. *Missions*: `MissionProtocol` (the rules), `MissionLifecycle`
(the atomic promise), `MissionRuntime` (the store calls that implement it), `CdrSuccessor`
(a long composition on top of the runtime), `MissionFile` (the command line over one file)
and `Delivery` (outbox, connectors, fence tokens). *The fiscal flow*: `CandidateProtocol`,
`CandidateReview` and `FindingReview` (candidates and what becomes of the Guardian's
findings), `BankReconciliation` and `CloseCalculations` (the engines), `MonthlyClose`,
`AnnualDeclaration`, and `FiscalClose`, which composes them. *The books*: `AccountingBooks`
(evidence, journal, audit ledgers). *Trust*: `Authorization`, `Receipts`, `Checkpoint` (the
gates over both), `Skills`, and `Trust`, which puts the last two side by side. *The managed
installation*: `ManagedConfig`. Each `*_proofs` module holds the theorems of the
module it is named after. `PROJECT.json` maps every definition to the lines it
translates.

## 1. The system: components, state, interactions

| Component | State it keeps | Operations | What is hard about it | What makes it correct |
| --- | --- | --- | --- | --- |
| Mission protocol: `missions/status.ts`, `transitions.ts`, `agents/handlers.ts`, `agents/plans.ts` | none; pure functions of a mission snapshot | transition table, terminal guard, reconciliation table, plan handler (`resume`, `stageProposal`), command resolution | loops through waits, UNKNOWN and withdrawn proposals; plan length boundary; statuses nobody handles | no way to the approval gate without the whole plan; completion is a decision; execution gets to the gate; every status has its documented way out |
| Mission runtime: `missions/runtime.ts`, `reconciliation.ts` | none of its own: everything between two awaits is in local variables | `start`, `apply`, `recoverIncomplete`, `reconcile` | each is a sequence of awaited store calls with no transaction; concurrent calls, crashes and failed calls between any two | at most one effect per key; versions honoured; log ordered, legal, complete and true to the snapshots; no key locked for ever; refinement of the atomic protocol |
| Mission stores: `missions/store.ts`, `store.postgres.ts`, `fencing.ts`, `idempotency.ts` | snapshots, events, idempotency records with time to live, fence tokens | upsert, append, get, put, delete, acquire | the two backends differ: the in-memory one has no unique constraint on events, the PostgreSQL upsert keeps old columns | both give the runtime what it relies on |
| Outbox: `missions/outbox.ts`, `store.postgres.ts` | messages with a key, delivery state, attempts | `enqueueMessage`, `deliverMessage`, `markFailed` | enqueue is find and insert, deliver is read and mark; overlapping calls; a crash between the two steps | a payload is delivered once, but for overlapping calls and lost stores |
| Recovery and projection: `recovery/*.ts`, `projection/*.ts` | none; the persisted log | replay, effective status, recovery action, decision on UNKNOWN, next actions | disagreement with what the runtime does and with the log | the replayed state is the stored state; policy, recovery pass and projection agree on every reachable log |
| CDR successor composer: `cdr/successor.ts` | local variables of one `compose`, and the runtime's stores | start or find the mission, execute steps, reconcile, gates, approve, materialize candidate B | about ten awaited calls; a process may die between or inside any; retried with or without the mission's identifier | one successor per operation; approved and reconciled first; gates saw what is approved; retries converge |
| Candidates: `candidates/lifecycle.ts`, `materiality.ts`, `identity.ts`, `fiscal/candidate-ordering.ts` | immutable candidate snapshots | propose, inspect, submit, accept, reject, correct; ordering by the fiscal flow | snapshots can be forked; correction changes the bytes but not the materiality; the order of the materiality rules | accepted bytes were inspected after the last correction; one correction per candidate; the irreversible is R3 |
| Guardian: `guardian/*.ts` | none; reports, refutations and dispositions in the caller's hands | run review, refute by two reviewers, resolve, dismiss | findings of an older review or of other bytes; who challenged, who judges | nothing irreversible passes; advice stays with the review and the bytes it was given on |
| Bank reconciliation: `bank-reconciliation/*.ts` | none; movements of one call | normalize, match by reference, match by amount and day, draft adjustments | ambiguous references; a greedy pass; directions of movements | every movement in one class; the differences explain the books; the drafts close the gap |
| Close calculations: `close-calculations/*.ts` | none; integer cents | depreciation, provisions, provisional tax, closing of result accounts | truncation to zero; signs; one bad element fails its group | closing entries zero the result accounts and add up in retained earnings |
| Gates and authorization: `gates/*.ts`, `authorization/*.ts`, `tenant-core/*.ts` | none of their own; the operator's list of keys and list of assignments | mission, approval, receipt and authorization gates, the runner; `authorize` | lists that change between checkpoints; malformed assignments; which key of an identifier counts | an R3 step needs two different approvers of its own scope; others' assignments never grant; lost trust stays lost |
| Monthly close: `flow/close.ts`, `close-wiring.ts`, `adapters/registry.ts` | local variables of one close; the registry of adapters | preflight, one awaited fetch per system, then wiring, candidates, Guardian, receipts, package | adapters change between fetches; an engine or a row fails while the rest goes on; receipts are signed without a review | absence is never zero; what is given is answered in the package; receipts say only what happened |
| Receipts and ledger: `receipts/*.ts`, `ledger/*.ts` | the allow-list with its revocations and expiries; chains of entries | sign, verify against the list, validate the chain | keys that are revoked, expire and rotate; lost, repeated, swapped or borrowed entries | a receipt is trusted as signed and by a key in force; a chain that validates is a prefix of the true one |
| Evidence and journal: `evidence/**`, `journal/*.ts` | immutable evidence and entries; integer cents | accept; record, post, supersede, revoke | pure functions on snapshots, old ones too; an issuer that fails, a caller that dies after it issued | entries balance on evidence of their scope, take effect under a receipt only, and reverse exactly |
| Connectors: `adapters/*.ts` | claims and results by key (of the driver in the conformance test) | check a request, claim, execute, answer, retry, replay | a lost answer; a claim that nobody finishes; another payload under the same key | one external execution per key; every answer is about the caller's own payload |
| Managed configuration: `configurator/managed-config.ts`, `cmd/commands/{install,sync,upgrade,rollback,doctor}.ts` | three files per agent host, the manifest with the previous snapshot, staged files, kept copies | install, sync, upgrade, rollback, doctor; hydration of older manifests | each is a sequence of file operations that may fail or die; people edit the same files; the package changes | nobody's file is taken; a transition happens as a whole or not at all; an upgrade can be undone, to the byte |
| Command line: `cmd/**`, `cmd/adapters/file-mission-store.ts` | one JSON file | hydrate, apply, recover, persist by rename | no lock: two processes | the file is always one consistent whole; only overlapping processes lose anything |
| Annual declaration: `annual-declaration/*.ts` | none; integer cents of a year collected by the caller | net income, tax, settlement, closing, report, declaration | twelve months in any order, repeated or foreign; rounding of twelve payments against one tax | every month is credited once; the cents that rounding drops are owed |
| Skills: `skills/*.ts` | registered versions, signed packs, mission pins | register, resolve by version or date, sign, verify, pin, verify pins | packs changed on their way; versions registered later; validity windows | a pin passes exactly the definitions it was made over; a registration never moves the past |
| Policy, routing, review lenses, workload, MCP, scripts, prototype | none, or files read once | pure functions and protocol framing | wording and scoring; I/O | unit-testable |

How they interact. The CLI, the SDK user and the CDR composer call the mission
runtime. The runtime awaits the stores one call after the other, asks the handler of
the mission's intent for the next status, and, for an UNKNOWN mission, an external
resolver. The composer adds gates, receipts and candidates around the runtime and knows
nothing of a mission but what the runtime answers and what it reads back. The
monthly close awaits evidence adapters of a registry others may add to, and runs
everything else (engines, candidates, Guardian, signing, ledger) in one go; its package
is a value, and its candidates enter the review by being handed on. The command line puts a file around
the runtime and the installer puts files around itself. Gates, authorization, receipts,
skills, evidence, journal and ledger are libraries: what they decide on (keys, assignments,
packs, entries) is kept by their callers, who may hand in anything they ever got. Nothing
holds a lock or a transaction across two awaits, so everything between them is where
other invocations, crashes and expiring keys come in. `contracts/recovery.md:72-78`
asks for one owner per mission at a time and leaves fencing to the deployment; the
models say separately what holds with and without that.

Each hazard of the code, with its line and the properties that would catch it, is
listed in `PROJECT.json` under `hazards`.

## 2. The modules

### MissionProtocol (operators)
`Status`, `ValidTransitions`, `Terminal`, `RecoveryTargets` are the tables of
`missions/status.ts` and `transitions.ts`. `HandlerExecute` is the plan handler of
`agents/handlers.ts`: a plan of `PlanSteps` steps is staged one step per execute
(`Advanced`, `Staged`, `PlanEnds`), a wait or an UNKNOWN is resumed (`Resumed`), and a
status without a case proposes nothing. `Admissible` and `Successor` are
`resolveTarget` and `nextSnapshot` of `missions/runtime.ts`, with the default RUNNING
of an execute nobody handles. A snapshot is its status, version, number of staged steps
and the version that staged the proposal; texts, identifiers and times are left out.
No operator is recursive.

### MissionLifecycle (abstract specification)
The same rules with every operation atomic: `Create`, `Execute`, `Approve`, `Reject`,
`Reconcile`, `MarkUnknown` (recoverIncomplete on one mission), `ResumeByEvidence`
(reconcile with an external answer). It has no versions, so it is finite-state and its
liveness needs no bound.

### MissionRuntime (detailed specification)
Each `Worker` is one invocation in progress, suspended at a `pc`; each action is the
code from one awaited store call to the next. `apply` is
BeginApply, Lookup (idempotency get), Reflect (an EXECUTING record is answered with the
current snapshot and the last event), Load (findById), Claim (put EXECUTING),
CheckFence, Save (upsert), AppendEvent, Complete or Fail (put). `start` is Start, Save,
AppendEvent; `recoverIncomplete` is BeginRecover (one read of all missions) and
RecoverOne with its own Save and AppendEvent per mission; `reconcile` is
BeginReconcile, ResolverAnswers; `acquireFence` is ReadFence, WriteFence. The
environment may Crash any invocation, let a store call fail
(StoreFails takes the code's catch path), and Expire a key. `backend` selects the in-memory or the
PostgreSQL behaviour where the two differ (unique event sequence, columns the upsert
keeps). `applied` and `faults` are history.

### CdrSuccessor (composition on top of the runtime)
A `Composer` is one `compose` in progress. `apply` is reduced to the four steps a
caller can be suspended in (`Lookup`, `Claim` with the read, `Commit` of snapshot and
event, `Complete` or `Fail`); MissionRuntime has all of them. The calls of a composition
are numbered by `Role`: the execute steps, the approval-drive and the approve, each with
the key suffix and the expected version of the code. `Compose` and `Retry` are the two
ways of `missionFor`; `Verify`, `Reconcile`, `ResolverAnswers`, `Gates`, `ReadBack`,
`Materialize` are steps 6 to 13. Crashes, clients, restarts (`Recover`) and expiring
keys are actions of their own. Reduced: one operation with one input that passes the
checks which read nothing else (authority, policy, receipt verification); `start` is one
step; a candidate B is what its identity is made of (mission, status, version).
`MCCdrSuccessor` gives the handler that the composer's tests use, which drives the
mission to UNKNOWN on its last execute step. The plan handler of `agents/handlers.ts`
never proposes UNKNOWN. With it a mission becomes UNKNOWN only by a restart's recovery,
and the version this adds makes the composer's approval-drive conflict, so the composer
as it stands works with handlers of the former kind only.

### CandidateProtocol (operators) and CandidateReview
`DeriveMateriality` is `candidates/materiality.ts` with tiers as ordinals; `Proposed`,
`WithStatus`, `Decided`, `Corrected` are the snapshots the life cycle returns, and
`Inspectable`, `Decidable`, `Correctable` its checks. `GuardianFindings` are the
findings of `guardian/guardian.ts` that a snapshot of the life cycle can give rise to:
the RUC's check digit, dual approval of R3, and the missing review history (a concern,
not a blocker). Bytes stand for their hash, bytes and scope for the identity.

`CandidateReview` follows one snapshot. An operation reads nothing but the snapshot it is
given and changes none, so whatever fork of a proposal somebody holds, its history is a
path of this machine: `Propose` or `Order` (the fiscal flow, which inspects at once),
`Inspect` with the right or other bytes, `SubmitForReview`, `Decide`, `Correct`.
`origin` and `inspected` are history.

### BankReconciliation and CloseCalculations (operators)
`Accepted` and `RejectedRows` are `normalizeRows`; `Conflicting`, `ReferenceMatches`,
`FallbackMatches` the two passes of `compare.ts`; `Adjustments` the drafts of
`adjust.ts`, `NetAdjustment` the sum of `report.ts`. The engines give `Computed` entries
or `Failed`, for the whole input as they throw; BigInt division truncates, and all
dividends are positive, so it is `\div`. No operator is recursive; the greedy pass is a
fold.

### MonthlyClose (composition)
`Preflight` begins a close or ends it; each `Fetch` is one awaited answer, which counts
if it is complete and has items (`Usable`); `FetchThrows` ends the close with nothing;
`Finish` is the rest, which awaits nothing: the package with candidates, receipts,
rejected rows, failed groups and blocked candidates. `AdapterChanges` is the
environment: an adapter is registered (never taken away), loses its evidence, finds
more. `TakeUpFromPackage` starts the review of a package's candidate. `Books` are what a
caller hands in besides the scope. A scope outside `Checksummed` fails the preflight; one
outside `Dated` (month 13) passes it, as `isValidPeriod` looks at six digits only, and
makes every engine fail. `closed` and `offered` are history.

### FindingReview, AnnualDeclaration and FiscalClose
`FindingReview` adds the reports of the Guardian on the snapshot in review
(`RunGuardianReview`), the dual review of a finding (`DualReview`, with each denial of
`evaluateDualReview` a guard) and its `Resolution`. The library keeps nothing, so
`disposed` is what one caller knows. `AnnualDeclaration` is the steps of a caller who
collects months and provisional payments in any order, foreign and repeated ones too, and
calls the seven operations; what throws answers nothing and is no step. `FiscalClose` runs
both beside `MonthlyClose`; the findings read the snapshot in review, the annual
declaration shares nothing.

### MissionFile
A `Process` of the command line holds a copy of the file: `Hydrate`, then one of `Start`,
`Apply` and `Recover`, whole calls of the runtime on stores in memory, as nothing inside a
process interleaves, then `Persist` by rename, or `Leave` (it dies, or fails). Processes
interleave at reads and renames. `Replayed`, `EffectiveStatus`, `RecoveryAction` and
`DecideUnknownRecovery` are `recovery/`, `Projection` the next actions of `projection/`.

### AccountingBooks
`entries` is the set of all snapshots anybody got; `Record`, `Post`, `Supersede` and
`Revoke` take any of them. `Issued` is the asynchronous issuer, which answers, fails (no
step) or answers a caller that died (a receipt without its entry). `OpenLedger`,
`Attest` and `RecordReceipt` write audit ledgers; `ValidLedger` is `validate.ts` over
linked entries.

### Authorization, Receipts and Checkpoint
`Decision` is `authorize` with the code of each denial, over a list of assignments as
operators write them, malformed ones too. `SignedReceipt` and `Verified` are `receipts/`:
hash, signature, first listed key of the identifier, revocation, expiry, in the code's
order. `Checkpoint` asks the gates (`Check` a list of them, `VerifyReceipt` alone) while
keys are added and revoked, assignments come and go, and time passes (`Tick`). `accepted`,
`refused` and `decided` are history.

### Skills and Trust
`Register` with the checks of the registry; `ResolveVersion` and `ResolveAt`; `Sign`,
`Alter` (a pack is changed on its way), `CreatePin`, and `PinFaults`, the reasons for which a
list of packs does not pass a pin. `Trust` puts `Checkpoint` and `Skills` side by side; they
share no state.

### ManagedConfig
The files of one home: marker, skills and pin of each agent host, and the manifest with the
snapshot before the last transition. A file is a record of what kind of bytes it holds. One
command is a machine of phases (`job`), one action per file operation: `InstallPin`,
`InstallMakesHome`, `InstallAsset`, `InstallManifest` (`TearManifest` if it dies inside the
write), `SyncAsset`; `PlanUpgrade` or `PlanRollback`, then `Stage`, `Replace` and
`Publish`, and `FailTransition` and `Restored` where a step throws. `Abort` is a failing
operation, `Crash` the end of the process; `Edit`, `HostInstalled`, `HostRemoved` and
`UpdatePackage` are people, between any two steps. `Hydrated` are the older manifests the
code still reads. `DoctorHealthy` is the doctor's verdict.

### Delivery
A `Caller` is suspended between awaited store calls: enqueue (find, insert), deliver (read,
publish, mark) over both backends; `Execute` a request at the connector boundary (claim,
call, answer or lost answer, retry, replay), with `Expire` of a claim; read and set of a
fence token and the check that passes. A behaviour is about one of the three, chosen at the
start, as they share nothing but the callers. `Crash` ends one caller, or all of them with
the stores in memory.

### Proof modules
`MissionRuntime_proofs` (the atomic protocol, then what holds for any number of workers,
then under one owner with the refinement), `MissionFile_proofs`, `CdrSuccessor_proofs`,
`FiscalClose_proofs` (the candidate review first, then the close that feeds it, then the
findings beside them),
`Trust_proofs` (checkpoints, skills, both side by side), `ManagedConfig_proofs`,
`Delivery_proofs` and `AccountingBooks_proofs`.

## 3. The runs

| Run | Configuration | Bounds | What it shows |
| --- | --- | --- | --- |
| `lifecycle` | MissionLifecycle, LifecycleFairSpec | 2 missions, 3 plan steps | the gate sees the whole plan, completion is a decision, executing gets to the gate (liveness) |
| `single_owner` | MCMissionRuntime, FairSpec | 1 worker, 1 mission, 1 key, 6 commands, 2 steps, version 8, 2 faults, both backends | the runtime implements the atomic protocol; the log and the keys stay true (one liveness property) |
| `concurrent` | MCMissionRuntime, SpecAtGate | 2 workers, 1 mission, 1 key, 3 commands, 1 step, version 6, 1 fault, fence 1, both backends | what survives without one owner |
| `lost_update` | same, in-memory | no faults | finding 1 |
| `cdr` | MCCdrSuccessor, FairSpec | 1 composer, 2 missions, 3 execute steps, 2 interferences, crashes between calls | one approved successor per operation; retries converge (liveness) |
| `cdr_unapproved` | Spec | 1 mission, crashes anywhere, nobody else | finding 2 |
| `close` | MCFiscalClose, FiscalSpec | 2 systems, 2 books, 3 scopes, 2 reviewers, 2 byte strings, 3 identities, 2 reports, 3 months to a year | nothing given gets lost, nothing irreversible is receipted, what is reviewed was inspected, advice stays with its review, the year adds up |
| `managed` | MCManagedConfig, Spec | 2 hosts, 2 package versions, clock 3, 1 fault, 1 edit | what the tool writes, restores and reports |
| `files` | MCMissionFile, Spec | 2 missions, 1 key, 2 processes, 5 events | the file, what overlapping loses, what recovery makes of the log |
| `books` | MCAccountingBooks, Spec | 2 scopes, 2 ledgers, 2 artifacts, 2 entries, chains of 3, 2 instants | entries stand and reverse, a damaged ledger is found out |
| `trust` | MCTrust, TrustSpec | 3 people, 2 scopes, 2 keys under one identifier, 2 assignments, 2 instants; a skill in 3 versions, 3 packs, 1 pin | who may allow an R3 step, when trust ends, what a pin holds |
| `delivery` | MCDelivery, Spec | 3 callers, 2 payloads, 1 valid key, 3 rows, 1 attempt, 3 executions, 3 tokens, 1 fault, both backends | what keys and tokens still guarantee |

### The properties
On the protocol. `ApprovalSeesWholePlan`: through any waits, restarts and
reconciliations, a mission whose approval is asked has its whole plan staged.
`CompletionIsDecided`: only APPROVED and UNKNOWN missions complete, although the table
also allows RUNNING. `PlanIsStaged`: a mission that keeps being executed reaches its
gate or a terminal status.

On the runtime with one owner. `ImplementsLifecycle` is the refinement.
`LoggedHistoryIsLegal`: consecutive events of the log are legal transitions.
`LogIsTheTruth`: without faults the stored snapshot is the last event's.
`ProposalIsCurrent`: the proposal at the gate is the one the version before staged,
which is what makes an approval on a version an approval of a proposal.
`ExecutingSettles`: no key stays EXECUTING for ever. `AppliedOncePerCall`: between two
expirations a key takes effect at most once per invocation in progress, so once here.

On the runtime with several invocations. `CompletedIsLogged`: nobody is told of a state change that is not in the log.
`InMemoryReplayAnswersPayload`: a replayed result answers the command its hash names.

On the composer. `SuccessorIsUnique`, `MissionApprovedFirst`, `GatedVersionApproved`
(the approved version is the one the gates saw or the one the composer's own drive made
of it), `OperationConverges` (a started operation gets its candidate B unless somebody
else moved its missions or its keys expired). `SuccessorIsUnique` is stated until a key
expires: with the default time to live of 24 hours, a retry without the mission's
identifier a day later makes a second successor. `GatedVersionApproved` relies on
a handler that leads to the reconciliation by the steps of the input (`StepsLead`), as that
of the instance does.

On the review. `ReviewedWasInspected`: what is submitted and decided was inspected after
its last change. `GuardianHoldsR3`: an R3 candidate keeps its blocker, on every
path; the life cycle has no place for a second acceptance. `AdviceStaysWithItsReview`: what
a dual review says, it says of a finding of the very review and bytes named, by two people
who did not challenge it, and never graver; a disposition is final, and the same finding of
a later review starts open.

On the close. `GivenIsAnswered`: rows, groups and candidates are each accounted for in the
package, also when some fail, and an irreversible entry is never receipted, whatever its
amount. `DifferencesExplainBooks`: both passes together put each movement in one class,
match none of a repeated reference and leave no two alone that fit (`Classified`); and what
they match hides none of the difference between the totals, except amounts that differ
under one reference, which a match by reference does not compare. `ClosingZeroesResults`:
by the entries' effect on every account, several balances of one account included.
`YearAddsUp`: a settlement is the tax less one payment of each month; where the months paid
at the tax's own rate, what their rounding dropped is owed, less than a cent a month, and
never in favor.

On the installation. `ForeignNeverTouched`: somebody's file survives every command in every
phase, unless it was edited after the command had looked. `AllOrNothing`: a transition that
returns has put every planned path and the manifest in place, and one that throws has
restored them. `RollbackRestores`: a rollback gives back the exact bytes of before the
upgrade, whatever crashed or was repeated in between. `UpgradeCanBeUndone`: until somebody
reinstalls, a rollback is accepted or there is nothing to roll back.
`HealthySurvivesTransition`: doctor and planner agree on what is owned, so a healthy home
takes every path along and stays healthy.

On files. `FileIsConsistent`: a mission is what its log replays to, and a key is there
exactly with an event its command may cause. `OnlyOverlapLoses`: an event persisted while
nobody else held a copy stays. `RecoveryAgrees`: policy, recovery pass and projection say
the same of every mission, and the evidence in the log tells how an UNKNOWN one ended.

On the books. `EntriesStand`: every entry balances on evidence of its own scope, takes
effect under a receipt of its own only, and a revocation books on each side of every
account what its prior entry booked on the other. `LossIsDetected`: what validates is a prefix of the true chain.

On trust. `DualApprovalIsReal`: with the authorization gate, R3 passes on the word of two
different approvers of the mission's own scope and on a receipt as it was signed.
`TrustIsLostForGood`: whatever keys are added and however long one waits.
`OthersNeverGrant`: an identity gains a permission only by its own assignments or by the
removal of a malformed one, and others' well-formed ones do not even change the code of a
denial; "its own" are compared with their number and without their order (`SameFor`). `PinsHold`: a list of packs passes a pin exactly if it is the definitions pinned,
each once, as signed and in force. `HistoryStands`: a registration changes no past
resolution, unless it was itself in force then.

On delivery. `DeliveredOnce`, `ExecutedOnce`, `OneWorkerPasses`: a payload, a key, a token
take effect once, through crashes and retries. The exceptions are part of the statement
and are named as the situations that cause them (`Excuse`): overlapping calls, a message
failed after its delivery, a store in memory that died, a record that expired.

### The bounds, and why they are enough
- `MaxVersion` bounds a mission's version in the guards that begin an operation. With
  two plan steps the approval gate is first reached at version 6, by way of a wait; a
  withdrawn proposal is staged again at version 8, which is the bound of `single_owner`,
  as `ProposalIsCurrent` is about just that. `concurrent` starts at the gate with
  version 4 (`InitAtGate`, the state that four recorded operations lead to), so that two
  racing decisions, a withdrawal and a new staging fit in.
- `MaxFaults` bounds crashes and failed store calls. Two are a crash and a failure in
  the recovery from it; the properties compare with the count, so a third adds nothing
  of another kind.
- Two workers: the violated and the surviving properties relate two calls on one
  mission or one key. Three were not needed for any counterexample, and the theorems
  hold for every number.
- `MaxFence = 1`: one acquisition between a worker's token and its check is enough for
  both outcomes of CheckFence.
- `PlanSteps = 3` in `lifecycle` is the plan length of every intent of `agents/plans.ts`;
  the other runs use 1 or 2, where the first and the last step coincide or are next to each other.
- `MaxInterference = 2` in `cdr`: a client command, a restart or an expiry before and
  after the gates. Two missions: a retry that starts another one.
- `close`: with two of the four systems one answer comes before and one after a change
  of the other's adapter; the code treats all four alike, and `AbsenceIsNotZero` is proved for
  every number. The first books hold a match by reference with another amount, two rows of which
  one fits by its side only, a reference repeated on one side, rejected rows of four kinds and
  entries of all engines; in the second every engine given fails. The thresholds 10 and 100 stand
  for S/10,000 and S/100,000, and the amounts lie on both sides of each. An undated and an
  unchecked scope are the two ways a wrong scope takes. A year has three months instead of
  twelve: the code asks only for each of them once.
- `Apart`, a state constraint of `close` and of `trust`: parts that read nothing of each other are
  explored one at a time, in each from the state the others begin with. A state outside is
  still checked, only not left.
- `managed`: `drenyra-pi` is the host whose directory the manifest shares, `codex` any other.
  Two versions with different skills are an upgrade, a rollback and a package changed back;
  the pins of both are the same, as the program refuses to upgrade otherwise in the same
  place. One fault and one edit can fall between any two of the file operations; three
  instants tell apart an upgrade, its rollback and the next one. 3.7 million states, the
  largest run (about two minutes).
- `files`: two processes that overlap; five events are a mission taken to its gate and decided,
  or two missions under way.
- `books`: two of each kind suffice to mix them; a chain of three has a middle to lose.
- `trust`: three people are two approvers and one who is not; a key rotated under the same
  identifier; a version that reaches back, and one that does not, after one in force.
- `delivery`: three callers because a message delivered, failed and delivered again while a
  third overlaps needs them; the bounds count rows, executions and tokens.
- Symmetry is used over workers in `concurrent`, over processes and missions in `files`,
  scopes and ledgers in `books` and callers in `delivery`; none of these checks liveness.
- Deadlock is checked except in the configurations of MissionLifecycle (missions do end),
  AccountingBooks and Delivery, where callers stop at the bounds.

### Fairness, and why the code justifies it
- `MissionLifecycle!LifecycleFairSpec`: weak fairness of Execute for each mission (the CLI user
  and the composer's step loop send it again), and restarts cease. No fairness of the
  professional: nobody owes an approval.
- `MissionRuntime!FairSpec`: weak fairness of each invocation's next step (a store call
  returns or throws) and strong fairness of Expire (time passes; strong, since a call in
  progress postpones it).
- `CdrSuccessor!FairSpec`: weak fairness of each composition's step; strong fairness of
  the retry of each mission, of the answer "executed" and of open gates; crashes cease.
  These are premises about the user and the external system, not about the code: the
  property says that the code wastes none of them.
- The other modules have no fairness and no liveness property: an adapter may never answer,
  nobody owes a review, a rollback, a delivery or a checkpoint, and a process of the command
  line that dies is not restarted by anything.

## 4. What is proved

Every theorem holds for all values of the constants that satisfy the named
assumptions of the modules (`PlanStepsAssumption`, `RuntimeAssumption`, `CdrAssumption`,
`CandidateAssumption`, `ReviewAssumption`, `CloseAssumption`, `AnnualAssumption`, `CheckpointAssumption`,
`SkillsAssumption`, `ConfigAssumption`, `DeliveryAssumption`, `FileAssumption`: the types of the
bounds and inputs, and that the constants cover what the engines propose for the books), and
where stated one owner.

| Theorem | Statement | Argument |
| --- | --- | --- |
| `LifecycleTypeCorrect`, `GateSeesWholePlan`, `OnlyDecisionsComplete` | LifecycleSpec => []LifecycleTypeOK, []ApprovalSeesWholePlan, CompletionIsDecided | inductive `AtomicInv`: types and, for each mission, `PlanSeen` (a gated mission has the whole plan and a proposal). UNKNOWN and waits lose nothing of the count, so the invariant is carried through them; `AtomicStepEffect` reduces the seven actions to one change of one mission |
| `TypeCorrect` | Spec => []TypeOK of the runtime | `TypeInv` adds which call is suspended where (`CallAt`), as the stored command and key are only meaningful at some places |
| `CompletedResultIsLogged` | Spec => []CompletedIsLogged | `LogInv`: a worker at `complete` has its event in the log (`LogGrows`: nothing leaves the log) |
| `AppliedBound` | Spec => []AppliedOncePerCall, for a finite set of workers | `KeyInv`: effects of a key plus the workers that may still save under it are at most the number of workers; once the key is visible no other worker joins them |
| `RuntimeImplementsLifecycle` | Spec => ImplementsLifecycle, with one owner (`SingleOwner`) | `RefInv`: what a suspended worker read is still what the store holds (`Fresh`), because nobody else writes. Commutation lemmas show that `Admissible` and `Successor` look at nothing the abstraction forgets; `StepSimulates` maps Save to the abstract action and everything else to a stutter |
| `ProposalsAreCurrent` | Spec => []ProposalIsCurrent, for any number of workers | `GateInv`: the stored proposal is that of the version before, and every suspended write was decided for the snapshot that was read, whatever became of the stored one (`Decides`); a save replaces the whole snapshot by such a successor (`WriteIsCurrent`), so that even a lost update leaves no mixture |
| `InMemoryReplaysAnswer` | Spec => []InMemoryReplayAnswersPayload, for any number of workers | `ReplayInv`: in memory a completed record was put with its own payload and result at once; with `LogInv` the result is in the log |
| `HistoryIsLegal` | Spec => []LoggedHistoryIsLegal, with one owner | `HistInv`: the log is legal *and* ends at or below the stored snapshot, and strictly below a write that is half done (`Hist`). Neither part is inductive alone: an append is legal because the save before it was decided on the stored snapshot (`DecideInv`, `RefInv`). `AppendedHistory` is the step on sequences; `HalfDone` the case split of all actions |
| `LogTellsTheTruth` | Spec => []LogIsTheTruth, with one owner | `Truth`, from the same invariant: a save opens the gap of one event, its append closes it, only a fault leaves it |
| `ExpectedVersionsHonoured` | Spec => ExpectedVersionHonoured, with one owner | `DecideInv`: whoever is at save matched the version he had read; `RefInv`: which is still the stored one. The run `lost_update` shows that the hypothesis is needed |
| `FileStaysConsistent` | Spec => []FileIsConsistent | `FileInv`: the file *and every copy a process holds* is well formed (`StoresOK`: each log is legal, ends at its mission, and has the event of every recorded key), since any copy may be renamed over the file. Statuses nothing reaches (RETRYING) are excluded (`Reached`) |
| `LossNeedsOverlap` | Spec => []OnlyOverlapLoses | `Keeps`, of the same invariant: whatever counts as kept is in the file and in every copy that may yet be written |
| `ReadersAgree` | Spec => []RecoveryAgrees | from `StoresOK`: a legal log that ends at the stored snapshot; the last marker of an UNKNOWN is followed by what decided it |
| `CdrTypeCorrect` | Spec => []TypeOK of the composer | `TypeInv` adds that a composition under way has a started mission (`Bound`) and a read snapshot where it uses one (`HasRead`) |
| `OneMission` | with one composition at a time, until a key expires all candidate Bs belong to one mission | `OneInv`: the first key belongs to the mission of any composition past its first call and of every candidate B, and a composition about to claim knows its key is free |
| `ApprovalComesFirst` | Spec => []MissionApprovedFirst, with one composition at a time that dies between calls only (`CrashesBetweenCalls`), for any handler | `ApprovalInv`: the approval's key, unless somebody is between its claim and its write, names a mission that is `Sealed`: approved, in a status approval leads to, and with no write of an older snapshot under way. No step breaks a seal (`SealsStand`); `Backed` says what a composition may rely on at each place. The run `cdr_unapproved` shows that the hypothesis on crashes is needed |
| `OneSuccessor` | Spec => []SuccessorIsUnique, for an input that does not expect a mission that is over (`TargetOpen`) | the same invariant: who is about to materialize carries the snapshot every earlier attempt materialized (`Ready`), and whoever still has an approval ahead of him knows there is no candidate B yet (`NoneYet`); with `OneInv`. Without `TargetOpen` it is false: TLC finds a retry which accepts a mission completed after its first candidate B |
| `ApprovesWhatWasGated` | Spec => GatedVersionApproved, under the same hypotheses, for an input that fits the handler (`StepsLead`) | `PathInv`: a step that is done has left the mission at the version after its own or further, and at that very version in a status of the path (`Reached`), although an unconditional save may overwrite what clients did since the claim: a commit writes the version after the one it expected, which is beyond every done step. So a retry that skips the reconciliation finds the mission past it, two versions beyond the steps, and the mission never goes back behind what the gates saw (`Gated`); the approval expects three. TLC finds the hypothesis needed (a handler whose last step awaits the approval lets two client commands slip in behind the gates) and evaluates it for the instance (`HandlerLeads`) |
| `ReviewTypeCorrect`, `OnlyInspectedIsReviewed`, `LineageHolds`, `R3StaysBlocked` | ReviewSpec => []ReviewTypeOK and the three invariants of the review | one inductive invariant `ReviewInv`, which adds how many reviews a snapshot has at each status: none while it is open, one when it is decided. That count is what the blocker of R3 rests on; `TierOfAction` bounds the derived tier |
| `AbsenceHolds` | Spec => AbsenceIsNotZero | `CloseInv`: the systems a close has behind it are counted or missing, and those counted are among the offered; `Finish` completes only with none missing |
| `CloseReviewsInspected`, `CloseKeepsR3Blocked` | the same two invariants for candidates of the close | every candidate of a package is a fresh proposal, which `TakeUpKeeps` shows may enter the review; all other steps of the close leave the review alone |
| `FiscalReviewsInspected`, `FiscalKeepsR3Blocked` | the same two invariants for FiscalSpec | every step of the three parts side by side is one of the close or a stutter of it |
| `AdviceStays` | FiscalSpec => AdviceStaysWithItsReview | `FindingInv`: every report holds findings of the Guardian, and only findings of existing reports were disposed of; a report is appended, so its number is new. Two identities among the reviewers other than the challenger are counted with `TwoIndependent` |
| `ClosingZeroes` | FiscalSpec => []ClosingZeroesResults | `Packaged`: a complete package is what its books make of its scope. Sums are those of the community modules' folds: `SumIsFunction` shows by induction over finite sets (`SubsetsFrom`) that the fold is the sum, `PartRenumbered` that it does not depend on the numbering. The n-th closing entry does to an account what the n-th open account held (`ClosingMovesAll`) |
| `YearHolds` | FiscalSpec => []YearAddsUp | `AnnualInv`: each figure is of a year with every month once (`YearTaken`: as many inputs as months, among them every month, so by counting each once), which inputs collected later do not change. `SharesRound`: shares rounded one by one fall short of the share of the sum by less than one each |
| `DifferencesExplained` | FiscalSpec => []DifferencesExplainBooks | from `Packaged`. The greedy pass is a fold over positions: `FoldExists` builds it by induction over their number, `FallbackRuns` has it take one bank movement after the other, and `TakenKeeps` shows that each leaves pairs that fit, share no movement and leave out no two that fit (`Greedy`). `ReconcileSettles` puts both passes together; the two sides' sums then split into conflicts, pairs and what is alone (`SideSplits`), and pairs of different references cancel |
| `GivenAnswered` | FiscalSpec => []GivenIsAnswered | from `Packaged`: what a list of proposals holds is what its parts hold (`Joined`), each engine that does not fail has an entry for each input (`GroupAnswers`), and a proposal that cannot be undone is R3, whose fresh candidate has the dual-approval blocker (`NoReceiptForIrreversible`) |
| `TypeCorrect` (Checkpoint) | Spec => []TypeOK | the two lists are sequences of what operators may add |
| `LostForGood` | Spec => []TrustIsLostForGood | `TrustInv`: a receipt once accepted is intact and signed by the key its identifier resolves to (`AcceptedWasTrusted`), and that key of a refused one has expired or is revoked (`RefusedIsLost`). The first listed key of an identifier is the same after any addition and revocation, and time does not run back |
| `DualApproval` | Spec => []DualApprovalIsReal | the decision is about the present lists. `AllowedAsksAll`: an allowed checkpoint has an allowing result of every gate; `AuthorizedMeans`: an authorized identity has a well-formed assignment of the scope; `TwoDiffer` takes two identities from the counted approvals |
| `HistoryIsKept` | TrustSpec => HistoryStands | of any finite set of registered positions one is preferred to all others (`BestExists`, by a least counterexample among the prefixes of the registry), and it is the one `resolveAt` returns (`ResolvesToBest`); a registration adds one position at the end, which is preferred only with a higher version (`ResolutionStands`), and the first position of a version stays (`VersionStands`) |
| `PinsAreExact` | TrustSpec => []PinsHold | `PinsOK`: the entries of a pin are those of its definitions, which are of pairwise different skills or versions, since a list with a repeated identity has a fault (`CreatedPin`). A list has no faults of its own exactly if it is signed, in force and without repetition (`NoCandidateFaults`), and none against the pin exactly if each side has the other's (`NoPinFaults`, `PinPasses`) |
| `GrantsAreOwn` | Spec => OthersNeverGrant | lists that hold the same assignments of an identity have as many of them at each scope, with the same roles (`SameAtTarget`, a bijection between finite sets), so their decisions agree when no assignment is malformed (`SameDecision`); a malformed one allows nothing (`FaultsAllowNothing`) |
| `CheckpointsUndisturbed` | TrustSpec => [](DualApprovalIsReal /\ TrustIsLostForGood) | every step of the two parts side by side is one of the checkpoints or a stutter of theirs |
| `TypeCorrect` (ManagedConfig) | Spec => [](TypeOK /\ Planned) | what is replaced is among what was planned |
| `NobodysFileTaken` | Spec => ForeignNeverTouched | `TransitionInv`: between plan and end, unedited paths hold what the plan saw or their target (`Began`, `Replacing`), and the planned ones were absent or the program's own (`OwnedBefore`); one step per file operation |
| `NothingHalfDone` | Spec => AllOrNothing | the same invariant at the two ends of a transition |
| `RollbackStaysPossible` | Spec => []UpgradeCanBeUndone | `UndoInv`: the two snapshots of a manifest have dates of their own and, since no later install widened it, pins for every host it names (`Undoable`), also of the candidate under way; every date was drawn before now (`Dated`) |
| `RollbackGivesBack` | Spec => []RollbackRestores | `RestoreInv`: the paths an upgrade had taken over from itself (`undo`) are untouched, their hosts still named (`Untouched`), and hold the bytes of one of the two snapshots (`HeldIdle`); a transition under way plans the bytes of its candidate (`PlannedBytes`) and a rollback plans every such path that is not back already (`HeldBefore`). With `TransitionInv` it follows the paths through failed, crashed and repeated rollbacks: `EndRestore` |
| `HealthStays` | Spec => HealthySurvivesTransition | a healthy home with pins holds the recorded bytes in every managed path (`HealthyHolds`), files are in directories that exist (`Housed`), so the planner takes them all; `PlansAll` carries that, and that the candidate is readable and has all pins, to the moment the manifest is published. Its proof found two CASE expressions of the model with overlapping guards (initial files, state of a pin), which TLC had read in order; they are disjoint now |
| `TypeCorrect` (Delivery) | Spec => []TypeOK | one lemma for each of the three parts |
| `FenceExcludes` | Spec => []OneWorkerPasses | `FenceInv`, while no two acquired together: no token is above the stored one, the stored one has one holder, and one caller at most is acquiring, on what is still stored |
| `DeliveredAtMostOnce` | Spec => []DeliveredOnce | `OutboxInv`, of every payload that is not excused: one row at most, one caller about to insert it and none once it is there, one about to mark it and only while it is not delivered; what was delivered is so marked |
| `ExecutesAtMostOnce` | Spec => []ExecutedOnce | `ExecutionInv`, of every key that is not excused: one call at most works on it; no record before the claim, its own from then on, nothing executed before its hook; the record and the answers say what was executed |
| `EntriesAlwaysStand` | Spec => []EntriesStand | `EntriesInv`: every snapshot is `Sound` (typed, balanced, on registered evidence, under its receipt, a reversal of an entry that is there), which more evidence, receipts and entries leave true (`SoundIsKept`). Totals are sums of a function over the lines: those of reversed lines sum the same function as the other side of the lines they reverse, so that no induction is needed |
| `LossIsAlwaysDetected` | Spec => []LossIsDetected | `ChainInv`: the chain is numbered, linked and of one ledger. A copy that validates is numbered from one: else there is a first entry that is not (`FirstExists`, `NumberedInOrder`); so each entry stands where it stood |

`TypeOK` alone is not inductive in the runtime and in the composer: a
call suspended at `save` with no command would be typed and would save anything. Nor are
the properties of the installation: an arbitrary typed state may be in the middle of a
transition that was never planned. `ExpectedVersionHonoured` and the like are false without
one owner, which is why they are checked or proved under it only.

Only model-checked: liveness (`PlanIsStaged`, `ExecutingSettles`, `OperationConverges`), which
is out of the prover's reach. Every safety invariant and action property of the passing runs
is a theorem, under the hypotheses its row names.

## 5. Findings

Each is a run whose property quotes the repository and is violated by the code.

1. *Lost update* (`lost_update`). The expected version is compared with a snapshot read
   several awaits before an unconditional upsert.
2. *Candidate B without an approval* (`cdr_unapproved`). A key left EXECUTING by a crash
   is answered without error, and the composer looks at no status after it. Two concurrent
   composers reach the same answer without a crash; `cdr` therefore runs one composer and
   lets it crash between calls only.

Observations made while modelling, without a run, for the authors to judge.

On missions:
- The PostgreSQL upsert of an idempotency record keeps the first payload hash beside the
  second result after the key expired and was used again (`missions/store.postgres.ts:146`;
  `missions/store.ts:40-42` says otherwise).
- After the answer "not executed" a retry of the composer takes the RUNNING mission for a
  reconciled one (`cdr/successor.ts:123`).
- A rejected mission has no way back (`agents/handlers.ts:213`), although
  `contracts/mission-protocol.md:66` draws one and the projection offers "request-revision".
  The policy lists RETRYING, which nothing reaches.
- An execute resumes an UNKNOWN mission without reconciliation (`agents/handlers.ts:194`),
  although the comment at `missions/transitions.ts:89` says that it does not take part in the
  ordinary transitions.
- A COMPLETED put that fails after save and append is recorded FAILED (`missions/runtime.ts:405`).
- Fence tokens are not monotonic when two acquire together (`missions/fencing.ts:55`);
  `markFailed` after a delivery makes the message deliverable again; concurrent enqueues in
  memory make two rows; a FAILED connector record may hide an executed call. Nothing in the
  repository calls the outbox.

On candidates, the close and the year:
- The close signs "reviewing to accepted, by a professional" for candidates that are only
  proposed (`flow/close.ts:217`; header, line 12).
- A movement only the ledger has is drafted in its own direction, which repeats it
  (`bank-reconciliation/adjust.ts:73`; `report.test.ts:126` expects the difference to close).
- A repeated reference leads to no proposal and no risk of the package
  (`flow/close-wiring.ts:134`; comment, line 88).
- A correction keeps the tier of the bytes it replaces (`candidates/lifecycle.ts:213`); a
  draft's identity does not depend on its amount (`flow/close-wiring.ts:143`).
- No R3 candidate can ever lose the dual-approval blocker (`GuardianHoldsR3`), although
  `docs/design/design-02-monthly-close.md:98` lets two approvers clear it, and advice does
  not change a candidate. Deterministic blockers can be challenged, which
  `contracts/candidate.md:77` does not foresee. Two callers with records of their own can
  dispose of one finding in opposite ways.
- `buildAnnualDeclaration` compares nothing: base and rate are the caller's word and may
  disagree with the settlement (`annual-declaration/declaration.ts:55`). The monthly engine
  throws for a zero payment, so a year with such a month needs a hand-made zero one; the two
  write periods differently ("YYYYMM", "YYYY-MM").

On the installation:
- An install keeps the composition it finds but lists the hosts anew. One that finds a host
  the composition has no pin for (on the second run, the directory the first one made) leaves
  a manifest for which upgrade and rollback are refused from then on; hence "as long as
  nobody reinstalls". After a package update it also writes the new version into the
  manifest beside the old composition, whose mirror that field is meant to be
  (`cmd/commands/install.ts:116-135`).
- A crash between two renames leaves markers of the new version; a retried upgrade takes them
  for somebody's and keeps them, and a rollback does not restore them. `RollbackRestores`
  speaks of what an upgrade had taken over.
- Whether stored pins are the pinned composition is asked of the executing package, not of
  the one that stored them. Sync writes into detected hosts that the manifest does not name.
  An upgrade after a rollback reuses a sequence number. An edit between plan and rename is
  overwritten; nothing is locked.

On books, trust and skills:
- A changed receipt hash in a ledger entry is not detected by `validateLedger`
  (`contracts/ledger.md`: "Detect any tampering").
- `supersede` accepts an entry of another scope, `post` ignores the status, two
  revocations of one entry have the same identifier, SUPERSEDED is never assigned.
- With an empty list of trusted keys the receipt gate trusts the receipt's own key
  (`gates/receipt.ts:79-82` against its comment, 20-26); it does not compare the receipt with
  the mission (`contracts/receipt.md:76`). A key rotated under the same identifier never takes
  effect, as the first match counts.
- The command line's standard gates have no authorization gate: there any two identifiers
  pass R3 (`contracts/gate.md:57`). One malformed assignment denies everybody.
- A later-registered higher version whose validity reaches back changes what resolves in the
  past; `register` accepts a second text of a registered version, and the first one wins. A
  pin binds no signer, an empty pin is valid, and nothing in the repository uses pins.

## 6. What the models leave out

- Texts, identifiers, hashes, timestamps, audit logging, intent parameters. Payload
  hashes are the commands themselves; a hash stands for what is hashed, without collisions.
- A store call that throws took no effect: lost acknowledgements of a PostgreSQL write
  that did commit are not modelled, and fsync is taken at its word.
- A key does not expire while a call that claimed it is in progress (24 hours).
- The runtime always has its handler registry, as every caller in `src/` wires one.
- Cryptography: a signature verifies if it was made. A receipt of the close is the identity of
  its candidate; the validity of the existing ledger chain is a fact of the books.
- Formats and shapes: input of a wrong type or format is denied by the code and is no step;
  labels, explanations, the wording of risks, which of several reasons rejected a row, the
  report's `reconciled` flag.
- `assertSegregation`, which no code calls.

### Not modelled
- *Routing, review lenses, workload* (`routing/`, `review/`): scoring and text heuristics; no
  state, no ordering.
- *Fiscal policy, input predicates of `security/` and `tenant-isolation/`*: pure functions
  of one input.
- *MCP server* (`mcp/`): protocol framing and I/O around read-only tools.
- *Release, documentation and brand scripts* (`scripts/`): sequential maintenance of the
  repository's own files.
- *Frontend prototype*: static, with sample data, not connected to the runtime.
- *Vendor adapters and drivers of connectors*: none is in the repository; the driver modelled
  is that of the conformance test.

## 7. What could follow

1. An abstract specification of the installation (old, new, or mixed and foreign) which
   `ManagedConfig` implements, with liveness under a user who retries.
2. Lost acknowledgements of committed writes in `MissionRuntime`.

## 8. Running

In this directory: `tlc -config MissionSingleOwner.cfg MCMissionRuntime` and likewise
for the other rows of section 3 (`managed`, `books` and `delivery` take about two minutes on two
workers, the others one or less); `tlapm MissionRuntime_proofs.tla` and likewise for the
other proof modules.
