SPECIFICATION FairSpec
CONSTANTS
  NV = 3
  DW = 4
  MCSums = {6, 7, 8, 9, 10, 13}
  MCLazySums = {7}
  Vars <- MCVars
  Values <- MCValues
  Budgets <- MCBudgets
  Solutions <- MCSolutions
  Narrow <- MCNarrow
INVARIANTS
  TypeOK
  TrailFits
  EmittedLegal
  UnsatJustified
  NothingLost
PROPERTY SearchEnds
