SPECIFICATION FairSpec
CONSTANTS
  parser = parser
  sink = sink
  prog = prog
  Actors = {sink}
  Main = prog
  Subs <- OneSubs
  Capacity <- OneCapacity
  Declared <- OneDeclared
  MaxSent <- OneSent
  MaxStops = 1
PROPERTY DestructorReturns
CHECK_DEADLOCK FALSE
