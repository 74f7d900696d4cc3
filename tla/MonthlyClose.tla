----------------------------- MODULE MonthlyClose -----------------------------
(***************************************************************************)
(* The monthly close (flow/close.ts, flow/close-wiring.ts) with the        *)
(* engines it wires together and the review of the candidates it makes.    *)
(*                                                                         *)
(* A close awaits one fetch per required system, then runs to its end in   *)
(* one step and answers with a package, a value nothing else is told of.   *)
(* Adapters are registered, fail and change their answers meanwhile, and   *)
(* professionals review candidates of the last package. Labels, texts and  *)
(* the signing of receipts are left out; a receipt is the identity of its  *)
(* candidate, for all of them say the same: reviewing to accepted.         *)
(***************************************************************************)
EXTENDS CandidateReview, BankReconciliation, CloseCalculations

CONSTANTS
  Dated,        \* the scopes whose period has a month that exists
  Systems,      \* REQUIRED_EVIDENCE_SYSTEMS, in their order
  Books         \* by name, what a caller may hand to a close besides its scope

VARIABLES
  adapter,      \* what the adapter of each system would answer now
  run,          \* the close in progress
  package,      \* the package of the last close, or NoPackage
  closed,       \* the name of its books, once complete (a history variable)
  offered       \* the systems whose evidence was there at some moment of the
                \* close in progress, or of the last one (a history variable)

closeVars == <<adapter, run, package, closed, offered>>
vars == <<reviewVars, closeVars>>

System == {Systems[i] : i \in DOMAIN Systems}

Evident(answers) == {system \in System : answers[system] = "evidence"}

\* No adapter, an incomplete answer, a complete one without items, or evidence.
Answer == {"unregistered", "incomplete", "empty", "evidence"}

Idle == [scope |-> "none"]
NoPackage == [status |-> "none"]

-----------------------------------------------------------------------------
(* Proposals: a subject, an amount and how reversible it is *)

Proposal(subject, amount, reversibility) ==
  [subject |-> subject, amount |-> amount, reversibility |-> reversibility]

\* Reconciliation takes place only where both row sets are given, and fails as
\* a whole, as each close engine does, for a month that does not exist: neither
\* the preflight nor propose looks at it.
Reconciles(scope, books) == books.rowsGiven /\ scope \in Dated

Differences(scope, books) ==
  IF Reconciles(scope, books)
  THEN Reconcile(MovementsOf(books.bank, "bank"), MovementsOf(books.ledger, "ledger"))
  ELSE Reconcile({}, {})

\* A draft's subject names its number, reference, source and side.
AdjustmentProposals(scope, books) ==
  LET drafts == Adjustments(Differences(scope, books))
  IN  [n \in DOMAIN drafts |->
         Proposal(<<"adjustment", n, drafts[n].reference, drafts[n].source, drafts[n].side>>,
                  drafts[n].amount, "partially-reversible")]

Group == {"depreciation", "provision", "isr", "closing"}

Reversibility(kind) ==
  CASE kind \in {"depreciation", "isr"} -> "irreversible"
    [] kind = "provision"               -> "partially-reversible"
    [] kind = "closing"                 -> "reversible"

\* What the engine of a group makes of the books; nothing where it has no input.
GroupResult(scope, books, group) ==
  CASE group \notin books.given -> Computed(<<>>)
    [] group \in books.given /\ scope \notin Dated -> Failed
    [] group \in books.given /\ scope \in Dated ->
         CASE group = "depreciation" -> Depreciation(books.assets, books.policy.depreciation)
           [] group = "provision"    -> Provisions(books.provisions, books.policy.provision)
           [] group = "isr"          -> ProvisionalIsr(books.isr, books.policy.isr)
           [] group = "closing"      -> CloseResultAccounts(books.balances, books.chart)

Entries(scope, books) ==
  LET Of(group) == GroupResult(scope, books, group).entries
  IN  Of("depreciation") \o Of("provision") \o Of("isr") \o Of("closing")

EntryProposals(scope, books) ==
  LET entries == Entries(scope, books)
  IN  [i \in DOMAIN entries |->
         Proposal(<<"entry", entries[i].kind, entries[i].n, entries[i].debit,
                    entries[i].credit, entries[i].amount>>,
                  entries[i].amount, Reversibility(entries[i].kind))]

\* The external proposals first, then the engines'.
AllProposals ==
  [scope \in Scope |-> [name \in DOMAIN Books |->
     Books[name].proposals \o AdjustmentProposals(scope, Books[name])
                           \o EntryProposals(scope, Books[name])]]

\* The books hold rows and lists of inputs, their external proposals are told
\* from an engine's, and the constants cover what the engines propose.
ASSUME CloseAssumption ==
  /\ Systems \in Seq(STRING)
  /\ \A name \in DOMAIN Books :
       /\ Books[name].bank \in Seq(Row) /\ Books[name].ledger \in Seq(Row)
       /\ Books[name].given \subseteq Group
       /\ Books[name].assets \in Seq([cost : Int, rate : Int])
       /\ Books[name].provisions
            \in Seq([kind : STRING, aging : Int, exposure : Int, rate : Int])
       /\ Books[name].balances \in Seq([account : Account, balance : Int])
       /\ Books[name].proposals
            \in Seq([subject : Subject, amount : Int, reversibility : STRING])
       /\ \A i \in DOMAIN Books[name].proposals : Books[name].proposals[i].subject[1] # "entry"
  /\ \A scope \in Scope, name \in DOMAIN Books :
       \A i \in DOMAIN AllProposals[scope][name] :
       LET p == AllProposals[scope][name][i]
       IN  /\ p.subject \in Subject /\ p.amount \in Int
           /\ p.reversibility \in {"reversible", "partially-reversible", "irreversible"}

-----------------------------------------------------------------------------
(* The package *)

CandidatesOf(scope, name) ==
  LET proposals == AllProposals[scope][name]
  IN  [i \in DOMAIN proposals |->
         Proposed(proposals[i].subject, scope,
                  [value |-> proposals[i].amount, jurisdiction |-> "PE",
                   reversibility |-> proposals[i].reversibility])]

\* Candidates without a blocker get a receipt, the others are risks, and so are
\* rejected rows and the groups whose engine failed.
ReceiptsUnlessConcern(candidates) ==                                \* a mutant
  {candidates[i].subject : i \in {j \in DOMAIN candidates : GuardianFindings(candidates[j]) = {}}}
Receipts(candidates) ==
  {candidates[i].subject : i \in {j \in DOMAIN candidates : Blockers(candidates[j]) = {}}}

BlockedCandidates(candidates) ==
  {candidates[i].subject : i \in {j \in DOMAIN candidates : Blockers(candidates[j]) # {}}}

RowRisks(scope, books) ==
  IF Reconciles(scope, books)
  THEN ({"bank"} \X RejectedRows(books.bank)) \union ({"ledger"} \X RejectedRows(books.ledger))
  ELSE {}

EngineRisks(scope, books) ==
  {group \in Group : ~GroupResult(scope, books, group).ok}
    \union IF books.rowsGiven /\ scope \notin Dated THEN {"reconciliation"} ELSE {}

Package(status, scope, used, missing, candidates, receipts, rows, engines, blocked, valid) ==
  [status |-> status, scope |-> scope, used |-> used, missing |-> missing,
   candidates |-> candidates, receipts |-> receipts, rows |-> rows, engines |-> engines,
   blocked |-> blocked, ledgerValid |-> valid]

Stopped(status, scope, used, missing) ==
  Package(status, scope, used, missing, <<>>, {}, {}, {}, {}, FALSE)

Complete(scope, used, name) ==
  LET candidates == CandidatesOf(scope, name)
  IN  Package("complete", scope, used, {}, candidates, Receipts(candidates),
              RowRisks(scope, Books[name]), EngineRisks(scope, Books[name]),
              BlockedCandidates(candidates), Books[name].chainValid)

-----------------------------------------------------------------------------
(* The close: preflight, one awaited fetch per system, then the package *)

Init ==
  /\ ReviewInit
  /\ adapter \in [System -> Answer]
  /\ run = Idle
  /\ package = NoPackage
  /\ closed = CHOOSE name \in DOMAIN Books : TRUE
  /\ offered = {}

Preflight(scope, name) ==
  /\ run = Idle
  /\ IF scope \in Checksummed
     THEN /\ run' = [scope |-> scope, books |-> name, next |-> 1, used |-> {}, missing |-> {}]
          /\ offered' = Evident(adapter)
          /\ UNCHANGED package
     ELSE /\ package' = Stopped("preflight-failed", scope, {}, {})
          /\ UNCHANGED <<run, offered>>
  /\ UNCHANGED <<reviewVars, adapter, closed>>

Fetching == run # Idle /\ run.next <= Len(Systems)

\* The answer of the system's adapter: evidence counts, all else is missing.
Usable(answer) == answer = "evidence"

Fetch ==
  /\ Fetching
  /\ LET system == Systems[run.next]
     IN  IF Usable(adapter[system])
         THEN run' = [run EXCEPT !.next = @ + 1, !.used = @ \union {system}]
         ELSE run' = [run EXCEPT !.next = @ + 1, !.missing = @ \union {system}]
  /\ UNCHANGED <<reviewVars, adapter, package, closed, offered>>

\* A registered adapter may throw: the close answers with no package.
FetchThrows ==
  /\ Fetching
  /\ adapter[Systems[run.next]] # "unregistered"
  /\ run' = Idle
  /\ UNCHANGED <<reviewVars, adapter, package, closed, offered>>

\* With all answers in, the rest of the close does not wait for anything.
Finish ==
  /\ run # Idle
  /\ run.next > Len(Systems)
  /\ package' = IF run.missing = {}
                THEN Complete(run.scope, run.used, run.books)
                ELSE Stopped("waiting-for-evidence", run.scope, run.used, run.missing)
  /\ closed' = IF run.missing = {} THEN run.books ELSE closed
  /\ run' = Idle
  /\ UNCHANGED <<reviewVars, adapter, offered>>

\* An adapter is registered, once and for all, loses its evidence or finds more.
AdapterChanges(system, answer) ==
  /\ adapter[system] # answer /\ answer # "unregistered"
  /\ adapter' = [adapter EXCEPT ![system] = answer]
  /\ offered' = IF run = Idle THEN offered ELSE offered \union Evident(adapter')
  /\ UNCHANGED <<reviewVars, run, package, closed>>

-----------------------------------------------------------------------------
(* Review of the package's candidates *)

TakeUpFromPackage ==
  /\ package.status = "complete"
  /\ \E i \in DOMAIN package.candidates : TakeUp(package.candidates[i])
  /\ UNCHANGED closeVars

Next ==
  \/ \E scope \in Scope, name \in DOMAIN Books : Preflight(scope, name)
  \/ Fetch
  \/ FetchThrows
  \/ Finish
  \/ \E system \in System, answer \in Answer : AdapterChanges(system, answer)
  \/ TakeUpFromPackage
  \/ ReviewNext /\ UNCHANGED closeVars

Spec == Init /\ [][Next]_vars

-----------------------------------------------------------------------------
(* Properties *)

\* The variables have their types; a close in progress knows the answers of the
\* systems before its next one.
TypeOK ==
  /\ ReviewTypeOK
  /\ adapter \in [System -> Answer]
  /\ run # Idle =>
       /\ run.scope \in Checksummed /\ run.books \in DOMAIN Books
       /\ run.next \in 1..(Len(Systems) + 1)
       /\ run.used \intersect run.missing = {}
       /\ run.used \union run.missing = {Systems[i] : i \in 1..(run.next - 1)}
  /\ package.status \in {"none", "preflight-failed", "waiting-for-evidence", "complete"}
  /\ package.status = "complete" => \A i \in DOMAIN package.candidates :
                                       package.candidates[i] \in Candidate
  /\ closed \in DOMAIN Books /\ offered \subseteq System

Completed == package.status = "complete"

\* What was reconciled for the last complete package.
Reconciled ==
  [scope \in Scope |-> [name \in DOMAIN Books |-> Differences(scope, Books[name])]]
MovementsGiven ==
  [scope \in Scope |-> [name \in DOMAIN Books |->
     IF Reconciles(scope, Books[name])
     THEN [bank   |-> MovementsOf(Books[name].bank, "bank"),
           ledger |-> MovementsOf(Books[name].ledger, "ledger")]
     ELSE [bank |-> {}, ledger |-> {}]]]
Found == Reconciled[package.scope][closed]
BankMovements == MovementsGiven[package.scope][closed].bank
LedgerMovements == MovementsGiven[package.scope][closed].ledger

\* Every movement is in exactly one class and at most one pair; one whose
\* reference is repeated on a side is a conflict, never matched or adjusted;
\* and no two movements that are left alone fit each other.
Classified(d, bank, ledger) ==
  LET alone == d.bankOnly \union d.ledgerOnly
  IN  /\ \A m \in bank \union ledger :
           Cardinality({p \in d.matched : m \in {p[1], p[2]}})
             + (IF m \in d.conflicts THEN 1 ELSE 0) + (IF m \in alone THEN 1 ELSE 0) = 1
      /\ \A side \in {bank, ledger} : \A m, n \in side :
           m # n /\ m.reference = n.reference
             => {m, n} \intersect (Sides(d.matched) \union alone) = {}
      /\ \A b \in d.bankOnly, l \in d.ledgerOnly : ~Fits(b, l)

Total(movements) == SumFunction([m \in movements |-> Signed(m)])

\* What conflicts, and amounts that differ under one reference, leave open
\* between the bank and the ledger.
LeftOpen(d, bank, ledger) ==
  Total(d.conflicts \intersect bank) - Total(d.conflicts \intersect ledger)
    + SumFunction([p \in {q \in d.matched : q[1].reference = q[2].reference} |->
                     Signed(p[1]) - Signed(p[2])])

\* Every movement has one place, and the difference between the books is in the
\* differences found: pairs matched by amount and day hide nothing, in either
\* direction (compare.ts, both passes; adjust.ts).
DifferencesExplainBooks ==
  Completed =>
    LET d      == Found
        bank   == BankMovements
        ledger == LedgerMovements
    IN  /\ Classified(d, bank, ledger)
        /\ Total(bank) - Total(ledger)
             = Total(d.bankOnly) - Total(d.ledgerOnly) + LeftOpen(d, bank, ledger)

\* Closing entries leave every result account at zero and move their sum into
\* retained earnings (close-results.ts; close/report.ts, the balance movement).
ClosingZeroesResults ==
  Completed /\ "closing" \in Books[closed].given /\ "closing" \notin package.engines =>
    LET entries == GroupResult(package.scope, Books[closed], "closing").entries
        balances == Books[closed].balances
        Balance(account) ==
          SumFunction([i \in DOMAIN balances |->
            IF account \in {balances[i].account, RetainedEarnings}
            THEN balances[i].balance ELSE 0])
    IN  \A account \in Account :
          Effect(entries, account) =
            IF account = RetainedEarnings THEN Balance(account) ELSE -Balance(account)

\* The inputs of a group that make an entry each.
InputsOf(books, group) ==
  CASE group = "depreciation" -> DOMAIN books.assets
    [] group = "provision"    -> DOMAIN books.provisions
    [] group = "isr"          -> {1}

\* What a complete close was given is answered in its package: a row is a
\* movement or a risk, every input of a group is a candidate or the group a risk,
\* a candidate has its receipt or is reported as blocked, and an entry that
\* cannot be undone is never receipted, whatever its amount (close.ts steps 3 to
\* 5; close-wiring.ts; materiality.ts, rule order; guardian.ts, dual approval).
GivenIsAnswered ==
  Completed =>
    LET subjects == {package.candidates[i].subject : i \in DOMAIN package.candidates}
    IN  /\ Books[closed].rowsGiven /\ "reconciliation" \notin package.engines =>
             /\ \A i \in DOMAIN Books[closed].bank :
                  MovementOf(Books[closed].bank[i], "bank") \in BankMovements
                    \/ <<"bank", Books[closed].bank[i].key>> \in package.rows
             /\ \A i \in DOMAIN Books[closed].ledger :
                  MovementOf(Books[closed].ledger[i], "ledger") \in LedgerMovements
                    \/ <<"ledger", Books[closed].ledger[i].key>> \in package.rows
        /\ \A group \in Books[closed].given \ {"closing"} :
             \/ group \in package.engines
             \/ \A n \in InputsOf(Books[closed], group) :
                  \E s \in subjects : s[1] = "entry" /\ s[2] = group /\ s[3] = n
        /\ subjects = package.receipts \union package.blocked
        /\ \A s \in package.receipts :
             s[1] = "entry" => Reversibility(s[2]) # "irreversible"

\* Absence is never zero: of every system a complete close counts, evidence was
\* there at some moment of that close, though not of all at one moment
\* (close.ts, step 2). Checked as the close completes.
AbsenceIsNotZero ==
  [][package' # package /\ package'.status = "complete"
       => package'.used = System /\ package'.used \subseteq offered]_vars

=============================================================================
