SPECIFICATION FairSpec
CONSTANTS
  root = root
  sub = sub
  w1 = w1
  w2 = w2
  Supers <- Tree
  Workers <- Team
  Children <- TreeChildren
  Strategy <- TreeStrategy
  Parents <- TreeParents
  Directives <- TreeDirectives
  MaxRestarts = 2
  Window = 1
  Capacity <- TreeCapacity
  MaxTime = 2
  MaxJobs <- TreeJobs
  MaxFails <- TreeFails
  MaxLife = 3
INVARIANTS
  TypeOK
  FreshMailbox
  RestartRateBounded
  FatalJustified
PROPERTY FailedComesBack
CHECK_DEADLOCK FALSE
