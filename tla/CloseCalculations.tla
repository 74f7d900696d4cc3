-------------------------- MODULE CloseCalculations --------------------------
(***************************************************************************)
(* The close engines (close-calculations/) as operators on integer cents:  *)
(* depreciation, provisions, the provisional income tax and the closing of *)
(* result accounts. BigInt division truncates, and every dividend here is  *)
(* positive, so it is \div. An engine throws for the whole of its input,   *)
(* whichever element is wrong; Failed is that outcome.                     *)
(***************************************************************************)
EXTENDS Integers, Sequences, FiniteSets, SequencesExt

CONSTANTS
  Account,             \* PCGE account codes
  RetainedEarnings     \* RETAINED_EARNINGS_ACCOUNT, the code "59"

MaxRate == 10000       \* MAX_RATE_BP: 100%, in basis points

\* An entry: a kind, its number in its group, and the two accounts its amount
\* is debited and credited to (no engine makes an entry of more lines).
Entry(kind, n, debit, credit, amount) ==
  [kind |-> kind, n |-> n, debit |-> debit, credit |-> credit, amount |-> amount]

Failed == [ok |-> FALSE, entries |-> <<>>]
Computed(entries) == [ok |-> TRUE, entries |-> entries]

RateInBounds(bp) == bp > 0 /\ bp <= MaxRate
ShareOf(cents, bp) == (cents * bp) \div MaxRate

\* An entry of amount zero is an error in every group (NEGATIVE_AMOUNT).
Monthly(asset) == ShareOf(asset.cost, asset.rate) \div 12

Depreciation(assets, policy) ==
  IF {policy.expense, policy.accumulated} \subseteq policy.chart
       /\ \A i \in DOMAIN assets :
            assets[i].cost > 0 /\ RateInBounds(assets[i].rate) /\ Monthly(assets[i]) > 0
  THEN Computed([i \in DOMAIN assets |->
         Entry("depreciation", i, policy.expense, policy.accumulated, Monthly(assets[i]))])
  ELSE Failed

Provisions(inputs, policy) ==
  IF {policy.expense, policy.liability} \subseteq policy.chart
       /\ \A i \in DOMAIN inputs :
            /\ inputs[i].kind \in {"receivable", "inventory"}
            /\ inputs[i].aging >= 0
            /\ inputs[i].exposure > 0
            /\ RateInBounds(inputs[i].rate)
            /\ ShareOf(inputs[i].exposure, inputs[i].rate) > 0
  THEN Computed([i \in DOMAIN inputs |->
         Entry("provision", i, policy.expense, policy.liability,
               ShareOf(inputs[i].exposure, inputs[i].rate))])
  ELSE Failed

NoRatio == -1      \* priorYearRatioBp is null

\* The two paths of the payment on account, and the one the rule applies.
CoefficientPath(input) ==
  IF input.ratio = NoRatio THEN 0 ELSE ShareOf(input.netIncome, input.ratio)
PercentPath(input, policy) == ShareOf(input.monthlyIncome, policy.minimum)

Applied(input, policy) ==
  CASE input.rule = "coeficiente"  -> CoefficientPath(input)
    [] input.rule = "pct-ingresos" -> PercentPath(input, policy)
    [] input.rule = "greater-of"   ->
         IF CoefficientPath(input) > PercentPath(input, policy)
         THEN CoefficientPath(input) ELSE PercentPath(input, policy)

ProvisionalIsr(input, policy) ==
  IF /\ input.netIncome >= 0
     /\ input.monthlyIncome >= 0
     /\ RateInBounds(policy.minimum)
     /\ input.ratio # NoRatio => RateInBounds(input.ratio)
     /\ {policy.expense, policy.payable} \subseteq policy.chart
     /\ input.rule = "coeficiente" => input.ratio # NoRatio
     /\ Applied(input, policy) > 0
  THEN Computed(<<Entry("isr", 1, policy.expense, policy.payable, Applied(input, policy))>>)
  ELSE Failed

Magnitude(balance) == IF balance < 0 THEN -balance ELSE balance

\* The entry that closes a result account: a credit balance (below zero) with a
\* debit, a debit balance with a credit, retained earnings on the other side.
ClosingEntryReversed(n, b) ==                                       \* a mutant
  IF b.balance < 0
  THEN Entry("closing", n, RetainedEarnings, b.account, Magnitude(b.balance))
  ELSE Entry("closing", n, b.account, RetainedEarnings, Magnitude(b.balance))
ClosingEntry(n, b) ==
  IF b.balance < 0
  THEN Entry("closing", n, b.account, RetainedEarnings, Magnitude(b.balance))
  ELSE Entry("closing", n, RetainedEarnings, b.account, Magnitude(b.balance))

\* Accounts with nothing to close are passed over.
Open(balances) == {i \in DOMAIN balances : balances[i].balance # 0}

\* closeResultAccounts: an entry for each open account, numbered in their order.
CloseResultAccounts(balances, chart) ==
  LET open == Open(balances)
      Number(i) == Cardinality({j \in open : j <= i})
  IN  IF RetainedEarnings \in chart
           /\ \A i \in DOMAIN balances :
                balances[i].account \in chart \ {RetainedEarnings}
      THEN Computed([n \in 1..Cardinality(open) |->
             ClosingEntry(n, balances[CHOOSE i \in open : Number(i) = n])])
      ELSE Failed

-----------------------------------------------------------------------------
\* buildCloseReport: what entries do to an account, debits less credits. The
\* report's balance movement is this of retained earnings, with its sign turned.
Effect(entries, account) ==
  SumFunction([n \in DOMAIN entries |->
                 (IF entries[n].debit = account THEN entries[n].amount ELSE 0)
                   - (IF entries[n].credit = account THEN entries[n].amount ELSE 0)])
=============================================================================
