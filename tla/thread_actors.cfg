SPECIFICATION FairSpec
CONSTANTS
  parser = parser
  sink = sink
  prog = prog
  Actors = {parser, sink}
  Main = prog
  Subs <- PipeSubs
  Capacity <- PipeCapacity
  Declared <- PipeDeclared
  MaxSent <- PipeSent
  MaxStops = 1
INVARIANTS
  TypeOK
  WaiterSeesNothing
  EndsOnlyWhenStopped
  InOrder
PROPERTIES
  NoLateHandler
  KeepsContract
  MailHandled
  StopEndsThread
CHECK_DEADLOCK FALSE
