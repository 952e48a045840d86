SPECIFICATION FairSpec
CONSTANTS
  Vars <- MCVars
  Sessions <- MCSessions
INVARIANTS
  SatRight
  UnsatRight
  PropagationComplete
PROPERTY SolveEnds
