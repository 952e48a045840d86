SPECIFICATION Spec
CONSTANTS
  root = root
  sub = sub
  w1 = w1
  w2 = w2
  Supers = {sub}
  Workers <- Team
  Children <- TeamChildren
  Strategy <- AllStrategy
  Parents <- NoParents
  Directives <- StopFirst
  MaxLife = 2
  MaxRestarts = 2
  Window = 1
  Capacity <- TeamCapacity
  MaxTime = 2
  MaxJobs <- OneJob
  MaxFails <- OneJob
INVARIANT StoppedStaysDead
CHECK_DEADLOCK FALSE
