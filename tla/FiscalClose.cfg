\* Two systems, two books, two reviewers, and three scopes: one whose month does
\* not exist, one that fails the preflight.
SPECIFICATION FiscalSpec
CONSTANTS
  Subject <- MCSubject
  Person = {p1, p2}
  Scope = {valid, undated, unchecked}
  Checksummed = {valid, undated}
  Dated = {valid, unchecked}
  MediumValue = 10
  HighValue = 100
  NoCandidate = NoCandidate
  Bytes <- MCBytes
  ProposedAction <- MCProposedAction
  RawReference = {" R1", "r1", "r2", "r3", "r4", "r6", "r7", "r8", "r9", "s2", "s4", "s6", " "}
  Normal <- MCNormal
  Account = {"12", "40", "59", "68", "70", "88"}
  RetainedEarnings = "59"
  Systems <- MCSystems
  Books <- MCBooks
  Identity = {p1, p2, p3}
  MaxReports = 2
  Periods = 3
  MonthInput <- MCMonthInput
  Cedula <- MCCedula
  Adjustment <- MCAdjustment
  Rate <- MCRate
  Balances <- MCBalances
  Chart = {"12", "40", "59", "68", "70", "88"}
  NoFigure = NoFigure
CONSTRAINT Apart
INVARIANTS
  DifferencesExplainBooks
  ClosingZeroesResults
  
  ReviewedWasInspected
  
  YearAddsUp
PROPERTY AdviceStaysWithItsReview
