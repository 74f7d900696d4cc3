----------------------------- MODULE MCFiscalClose -----------------------------
(***************************************************************************)
(* A small instance of FiscalClose: two of the four systems, two books,    *)
(* and thresholds of 10 and 100 cents in the place of S/10,000 and         *)
(* S/100,000. The first books hold what bank reconciliation can meet and   *)
(* entries of every engine, in the second the engines fail.  The year has  *)
(* three months.                                                           *)
(***************************************************************************)
EXTENDS FiscalClose

MCSystems == <<"vouchers", "bank-statements">>

MCNormal(raw) == IF raw \in {" R1", "r1"} THEN "r1" ELSE IF raw = " " THEN "" ELSE raw

R(key, reference, amount, date, side) ==
  [key |-> key, foreign |-> FALSE, defect |-> "none", reference |-> reference,
   amount |-> amount, date |-> date, side |-> side]

\* A match by reference with another amount; two rows that fit one by amount,
\* only one of them by its side; a reference twice at the bank; and rows that
\* are rejected: a key used twice, another RUC, a date, an empty reference.
BankRows == <<
  R(1, " R1", 5, 1, "inflow"), R(2, "r2", 3, 1, "outflow"), R(3, "r3", 3, 1, "inflow"),
  R(4, "r4", 12, 2, "inflow"), R(5, "r4", 7, 2, "inflow"), R(6, "r6", 200, 3, "outflow"),
  R(6, "r7", 1, 3, "inflow"), [R(8, "r8", 1, 3, "inflow") EXCEPT !.foreign = TRUE],
  [R(9, "r9", 1, 3, "inflow") EXCEPT !.defect = "date"]>>
LedgerRows == <<
  R(1, "r1", 4, 1, "inflow"), R(2, "s2", 3, 1, "inflow"), R(3, "r4", 7, 2, "inflow"),
  R(4, "s4", 8, 3, "inflow"), R(5, " ", 8, 3, "inflow"), R(6, "s6", 0, 3, "inflow")>>

Policy(minimum) ==
  [depreciation |-> [chart |-> Chart, expense |-> "68", accumulated |-> "12"],
   provision    |-> [chart |-> Chart, expense |-> "68", liability |-> "12"],
   isr          |-> [chart |-> Chart, expense |-> "88", payable |-> "40", minimum |-> minimum]]

B(rowsGiven, given, proposals, rate, ratio, aging) ==
  [rowsGiven |-> rowsGiven, bank |-> BankRows, ledger |-> LedgerRows, given |-> given,
   proposals |-> proposals, chart |-> Chart, policy |-> Policy(150), chainValid |-> rowsGiven,
   assets |-> <<[cost |-> 240, rate |-> rate]>>,
   provisions |-> <<[kind |-> "receivable", aging |-> aging, exposure |-> 60, rate |-> 1000],
                    [kind |-> "inventory", aging |-> 90, exposure |-> 500, rate |-> 4000]>>,
   isr |-> [netIncome |-> 400, monthlyIncome |-> 800, ratio |-> ratio, rule |-> "greater-of"],
   balances |-> <<[account |-> "70", balance |-> -150], [account |-> "12", balance |-> 0],
                  [account |-> "68", balance |-> 9], [account |-> "70", balance |-> 20]>>]

MCBooks ==
  [sound  |-> B(TRUE, Group, <<Proposal(<<"label", 1>>, 0, "reversible"),
                               Proposal(<<"label", 2>>, 9, "reversible")>>, 1000, 500, 30),
   broken |-> B(FALSE, Group \ {"closing"}, <<Proposal(<<"label", 1>>, 100, "reversible")>>,
                0, 20000, -1)]

MCBytes == {<<"label", 1>>, <<"label", 2>>}
MCSubject ==
  MCBytes \union {p.subject : p \in UNION {Range(AllProposals[scope][name]) :
                               scope \in Scope, name \in DOMAIN MCBooks}}

MCProposedAction ==
  {[value |-> 0, reversibility |-> "reversible", jurisdiction |-> "PE"],
   [value |-> 100, reversibility |-> "reversible", jurisdiction |-> "other"]}

\* A year whose months pay a tenth each, and lose nine cents in rounding; a
\* month twice, an open one and a foreign one; a month of the year that does not
\* exist, and one paid for twice.
Month(p, amount) == [period |-> p, foreign |-> FALSE, closed |-> TRUE, amount |-> amount]
MCMonthInput ==
  {Month(1, 19), Month(2, -5), Month(2, 9), Month(3, 15),
   [Month(3, 15) EXCEPT !.closed = FALSE], [Month(3, 15) EXCEPT !.foreign = TRUE]}

Payment(p, amount) == [period |-> p, foreign |-> FALSE, amount |-> amount]
MCCedula ==
  {Payment(1, 1), Payment(2, 0), Payment(3, 1), Payment(3, 9), Payment(4, 1),
   [Payment(3, 1) EXCEPT !.foreign = TRUE]}

MCAdjustment == {[additions |-> 0, deductions |-> 0], [additions |-> 4, deductions |-> 90]}
MCRate ==
  {[rate |-> 1000, ceiling |-> MaxRate], [rate |-> 2950, ceiling |-> MaxRate],
   [rate |-> 2950, ceiling |-> 2000]}
Held(profit) ==
  <<[account |-> "70", balance |-> -profit], [account |-> "12", balance |-> 3]>>
MCBalances == {Held(8), Held(0)}

\* Reviews and closes change nothing the other reads, so a review is followed
\* only from the packages of closes that found all evidence; findings only of
\* one proposal that one person decides, and a run ends with the outcome of a dual review;
\* and a year only by itself, its payments after its months and each in order.
ReviewApart == candidate # NoCandidate => run = Idle /\ Evident(adapter) = System
FindingsApart ==
  reports # <<>> =>
    /\ package = NoPackage /\ adapter = [system \in System |-> "evidence"]
    /\ origin.tier = 3 /\ origin.subject = <<"label", 1>>
    /\ origin.scope \notin Checksummed
    /\ \A i \in DOMAIN candidate.reviews :
         candidate.reviews[i].reviewer = CHOOSE p \in Person : TRUE
    /\ advice = Findings!NoAdvice /\ Cardinality(DOMAIN disposed) <= 1
AnnualApart ==
  months # <<>> \/ cedulas # <<>> =>
    /\ package = NoPackage /\ run = Idle /\ candidate = NoCandidate
    /\ adapter = [system \in System |-> "evidence"]
    /\ cedulas # <<>> => liability # NoFigure /\ Len(months) = Periods
    /\ NoFigure \in {report, payload}
    /\ \A inputs \in {months, cedulas} : \A i, j \in DOMAIN inputs :
         i < j => inputs[i].period <= inputs[j].period
Apart == ReviewApart /\ FindingsApart /\ AnnualApart
=============================================================================
