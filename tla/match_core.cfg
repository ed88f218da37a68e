\* Every batch of three credits and three settlements over small facts.
CONSTANTS
  c1 = c1
  c2 = c2
  c3 = c3
  s1 = s1
  s2 = s2
  s3 = s3
  Credit = {c1, c2, c3}
  Settlement = {s1, s2, s3}
  CreditFacts <- MCCreditFacts
  SettlementFacts <- MCSettlementFacts
  DaysBefore = 1
  DaysAfter = 1
  MaxGroupSize = 2
SPECIFICATION Spec
INVARIANT MoneyIsConserved TwinsStayOpen OpenCaseKeepsItsCandidates ContestHasNoWinner
SYMMETRY Symmetric
