-------------------------- MODULE MCAccountingBooks --------------------------
(* AccountingBooks for TLC: the lines callers try, right and wrong. *)
EXTENDS AccountingBooks, TLC

Line(account, side, cents) == [account |-> account, side |-> side, cents |-> cents]

MCDraft ==
  {<<>>,
   <<Line("10", "debit", 1), Line("40", "credit", 2)>>,
   <<Line("10", "debit", 0), Line("40", "credit", 0)>>,
   <<Line("", "debit", 1), Line("40", "credit", 1)>>,
   <<Line("10", "debit", 3), Line("40", "credit", 2), Line("10", "credit", 1)>>}

Interchangeable == Permutations(Scope) \union Permutations(Ledger)
=============================================================================
