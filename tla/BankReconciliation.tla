-------------------------- MODULE BankReconciliation -------------------------
(***************************************************************************)
(* Bank reconciliation (bank-reconciliation/) as operators: which rows are *)
(* normalized into movements, how the movements of the bank and of the     *)
(* ledger are classified, and the adjustments drafted from what is left.   *)
(*                                                                         *)
(* A row's source key is its place in the order sourceKey is sorted by.    *)
(* What is wrong with the text of its date, side or amount, or an empty    *)
(* source key, is one defect.                                              *)
(***************************************************************************)
EXTENDS Integers, Sequences, FiniteSetsExt, SequencesExt

CONSTANTS
  RawReference,      \* references as they are written
  Normal(_)          \* normalizeReference: trimmed, collapsed, case-folded

Row == [key : Nat, foreign : BOOLEAN, defect : {"none", "date", "side", "fraction", "key"},
        reference : RawReference, amount : Int, date : Nat,
        side : {"inflow", "outflow"}]

\* A movement keeps its row's key, date and side, its reference normalized.
MovementOf(row, source) ==
  [key |-> row.key, reference |-> Normal(row.reference), amount |-> row.amount,
   date |-> row.date, side |-> row.side, source |-> source]

\* Rows of another RUC, malformed, with an empty reference or without a
\* positive amount are rejected.
WellFormed(row) ==
  ~row.foreign /\ row.defect = "none" /\ Normal(row.reference) # "" /\ row.amount > 0

\* So is a row that repeats the source key of one accepted before it.
Accepted(rows) ==
  {i \in DOMAIN rows :
     WellFormed(rows[i])
       /\ \A j \in 1..(i - 1) : WellFormed(rows[j]) => rows[j].key # rows[i].key}

\* normalizeRows: the accepted movements, and the keys of the rejected rows.
MovementsOf(rows, source) == {MovementOf(rows[i], source) : i \in Accepted(rows)}
RejectedRows(rows) == {rows[i].key : i \in DOMAIN rows \ Accepted(rows)}

-----------------------------------------------------------------------------
\* Movements of a reference.
With(movements, reference) == {m \in movements : m.reference = reference}

\* References with more than one movement on either side are conflicts: none
\* of their movements is matched.
ConflictingBothSides(bank, ledger) ==                               \* a mutant
  {m \in bank \union ledger :
     Cardinality(With(bank, m.reference)) > 1
       /\ Cardinality(With(ledger, m.reference)) > 1}
Conflicting(bank, ledger) ==
  {m \in bank \union ledger :
     Cardinality(With(bank, m.reference)) > 1
       \/ Cardinality(With(ledger, m.reference)) > 1}

\* A reference of exactly one movement on each side matches them.
ReferenceMatches(bank, ledger) ==
  {p \in bank \X ledger :
     /\ p[1].reference = p[2].reference
     /\ Cardinality(With(bank, p[1].reference)) = 1
     /\ Cardinality(With(ledger, p[1].reference)) = 1}

\* Without a reference in common the amount, the date and the side must agree.
FitsOnAmount(b, l) == b.amount = l.amount /\ b.date = l.date         \* a mutant
Fits(b, l) == b.amount = l.amount /\ b.date = l.date /\ b.side = l.side

Sides(pairs) == {p[1] : p \in pairs} \union {p[2] : p \in pairs}
InKeyOrder(movements) ==
  LET Number(m) == Cardinality({k \in movements : k.key <= m.key})
  IN  [n \in 1..Cardinality(movements) |-> CHOOSE m \in movements : Number(m) = n]

\* The greedy pass: each bank movement, in the order of its source key, takes
\* the first ledger movement that fits and is still free.
FallbackMatches(bank, ledger) ==
  LET Take(acc, b) ==
        LET fits == {l \in ledger \ Sides(acc) : Fits(b, l)}
        IN  IF fits = {} THEN acc
            ELSE acc \union {<<b, CHOOSE l \in fits : \A k \in fits : l.key <= k.key>>}
  IN  FoldLeft(Take, {}, InKeyOrder(bank))

\* reconcile: every movement is in a conflict, in a matched pair, or alone.
Reconcile(bank, ledger) ==
  LET conflicts == Conflicting(bank, ledger)
      first     == ReferenceMatches(bank, ledger)
      settled   == conflicts \union Sides(first)
      pairs     == first \union FallbackMatches(bank \ settled, ledger \ settled)
  IN  [conflicts  |-> conflicts,
       matched    |-> pairs,
       bankOnly   |-> (bank \ conflicts) \ Sides(pairs),
       ledgerOnly |-> (ledger \ conflicts) \ Sides(pairs)]

\* buildAdjustments: a draft for every movement that is alone, the bank's first.
\* Approval is required unless the caller says otherwise, and runMonthlyClose
\* does not.
Adjustments(reconciliation) ==
  InKeyOrder(reconciliation.bankOnly) \o InKeyOrder(reconciliation.ledgerOnly)

Signed(movement) == IF movement.side = "inflow" THEN movement.amount ELSE -movement.amount

=============================================================================
