-------------------------- MODULE AnnualDeclaration --------------------------
(***************************************************************************)
(* The annual declaration (annual-declaration/): the net income of a year  *)
(* from its months, the income tax on a base, its settlement against the   *)
(* provisional payments, and the closing of the result accounts.           *)
(*                                                                         *)
(* Every operation is a function of its arguments; the caller collects     *)
(* them as they come, and keeps what an operation answers.  One that       *)
(* throws answers nothing and is no step.  The RUC and the year of an      *)
(* input are foreign to the scope or not; a period is a number.            *)
(***************************************************************************)
EXTENDS CloseCalculations

CONSTANTS
  Periods,        \* the months of a year: 12
  MonthInput,     \* monthly periods the caller may come by
  Cedula,         \* provisional payments the caller may come by
  Adjustment,     \* statutory additions and deductions
  Rate,           \* statutory rates, each with the ceiling its policy sets
  Balances,       \* what the result accounts may hold at the end of the year
  Chart,
  NoFigure

ASSUME AnnualAssumption ==
  /\ Periods \in Nat \ {0}
  /\ MonthInput \subseteq [period : Nat, foreign : BOOLEAN, closed : BOOLEAN, amount : Int]
  /\ Cedula \subseteq [period : Nat, foreign : BOOLEAN, amount : Int]
  /\ Adjustment \subseteq [additions : Nat, deductions : Nat]
  /\ Rate \subseteq [rate : Int, ceiling : Int]
  /\ Balances \subseteq Seq([account : Account, balance : Int])

VARIABLES
  months,         \* the months collected
  cedulas,        \* the provisional payments collected
  income,         \* the annual net income, or NoFigure
  liability,      \* the annual tax, or NoFigure
  settlement,     \* the last settlement, or NoFigure
  report,         \* the last report, or NoFigure
  payload         \* the last declaration, or NoFigure

annualVars == <<months, cedulas, income, liability, settlement, report, payload>>

AnnualInit ==
  /\ months = <<>> /\ cedulas = <<>>
  /\ income = NoFigure /\ liability = NoFigure /\ settlement = NoFigure
  /\ report = NoFigure /\ payload = NoFigure

Period == 1..Periods

Sum(inputs) == SumFunction([i \in DOMAIN inputs |-> inputs[i].amount])

\* None is of another RUC or year, and there is one for every month.
WholeYearAsSet(inputs) ==                                           \* a mutant
  LET present == {inputs[i].period : i \in DOMAIN inputs}
  IN  (\A i \in DOMAIN inputs : ~inputs[i].foreign) /\ Period \subseteq present
WholeYear(inputs) ==
  LET present == {inputs[i].period : i \in DOMAIN inputs}
  IN  /\ \A i \in DOMAIN inputs : ~inputs[i].foreign
      /\ Len(inputs) = Periods
      /\ Cardinality(present) = Periods
      /\ Period \subseteq present

-----------------------------------------------------------------------------
\* The caller comes by a month, again by one it has, or by a foreign one.
TakeMonth(m) ==
  /\ Len(months) <= Periods
  /\ months' = Append(months, m)
  /\ UNCHANGED <<cedulas, income, liability, settlement, report, payload>>

TakeCedula(c) ==
  /\ Len(cedulas) <= Periods
  /\ cedulas' = Append(cedulas, c)
  /\ UNCHANGED <<months, income, liability, settlement, report, payload>>

\* determineAnnualNetIncome: of twelve closed months.
DetermineAnnualNetIncome(adjustment) ==
  /\ WholeYear(months)
  /\ \A i \in DOMAIN months : months[i].closed
  /\ income' = [amount |-> Sum(months) + adjustment.additions - adjustment.deductions]
  /\ UNCHANGED <<months, cedulas, liability, settlement, report, payload>>

\* computeAnnualIsr, of the net income as its base.
ComputeAnnualIsr(policy) ==
  /\ income # NoFigure
  /\ policy.rate > 0 /\ policy.rate <= policy.ceiling
  /\ income.amount >= 0
  /\ liability' = [base |-> income.amount, rate |-> policy.rate,
                   isr |-> ShareOf(income.amount, policy.rate)]
  /\ UNCHANGED <<months, cedulas, income, settlement, report, payload>>

BalanceKind(balance) ==
  IF balance > 0 THEN "payable" ELSE IF balance < 0 THEN "in-favor" ELSE "zero"

\* computeAnnualSettlement: the tax, less the payments of all months.
ComputeAnnualSettlement ==
  /\ liability # NoFigure
  /\ WholeYear(cedulas)
  /\ settlement' = LET balance == liability.isr - Sum(cedulas)
                   IN  [isr |-> liability.isr, credit |-> Sum(cedulas),
                        balance |-> balance, kind |-> BalanceKind(balance)]
  /\ UNCHANGED <<months, cedulas, income, liability, report, payload>>

\* closeAnnualResults, as every close of result accounts, and buildAnnualReport:
\* the change of retained earnings, a credit counted up.
CloseAnnualResults(balances, before) ==
  LET result == CloseResultAccounts(balances, Chart)
  IN  /\ settlement # NoFigure
      /\ result.ok
      /\ report' = [balances |-> balances, settlement |-> settlement, before |-> before,
                    after |-> before - Effect(result.entries, RetainedEarnings)]
      /\ UNCHANGED <<months, cedulas, income, liability, settlement, payload>>

\* buildAnnualDeclaration copies what it is handed and compares nothing.
BuildAnnualDeclaration ==
  /\ settlement # NoFigure
  /\ payload' = [base |-> liability.base, rate |-> liability.rate,
                 isr |-> settlement.isr, credit |-> settlement.credit,
                 balance |-> settlement.balance, kind |-> settlement.kind]
  /\ UNCHANGED <<months, cedulas, income, liability, settlement, report>>

AnnualNext ==
  \/ \E m \in MonthInput : TakeMonth(m)
  \/ \E c \in Cedula : TakeCedula(c)
  \/ \E adjustment \in Adjustment : DetermineAnnualNetIncome(adjustment)
  \/ \E policy \in Rate : ComputeAnnualIsr(policy)
  \/ ComputeAnnualSettlement
  \/ \E balances \in Balances, before \in {-1, 0} : CloseAnnualResults(balances, before)
  \/ BuildAnnualDeclaration

-----------------------------------------------------------------------------
(* Properties *)

\* The payment, or the income, of a month.
Of(inputs, p) ==
  SumFunction([i \in {j \in 1..Periods : inputs[j].period = p} |-> inputs[i].amount])

\* A settlement credits every month once, whatever the caller came by: its
\* balance is the tax less the one payment of each month, and where each month
\* paid its share at the tax's own rate, the cents the months' rounding drops
\* are owed, fewer than there are months, and never a balance in favor. What
\* the year's result accounts held is in retained earnings afterwards, and a
\* declaration is of one settlement (settlement.ts, isr.ts, report.ts,
\* declaration.ts).
YearAddsUp ==
  /\ settlement # NoFigure =>
       /\ \A p \in Period : Cardinality({i \in 1..Periods : cedulas[i].period = p}) = 1
       /\ settlement.balance
            = settlement.isr - SumFunction([p \in Period |-> Of(cedulas, p)])
       /\ settlement.kind = "in-favor" <=> settlement.balance < 0
       /\ \A policy \in Rate :
            (/\ settlement.isr = ShareOf(Sum(SubSeq(months, 1, Periods)), policy.rate)
             /\ \A p \in Period : /\ Of(months, p) >= 0
                                  /\ Of(cedulas, p) = ShareOf(Of(months, p), policy.rate))
              => settlement.balance \in 0..(Periods - 1)
  /\ report # NoFigure =>
       report.after = report.before - SumFunction([i \in DOMAIN report.balances |->
                                                     report.balances[i].balance])
  /\ payload # NoFigure => payload.balance = payload.isr - payload.credit
=============================================================================
