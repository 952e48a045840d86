SPECIFICATION FairSpec
CONSTANTS
  prod = prod
  mid = mid
  tail = tail
  item = item
  Actors = {prod, mid, tail}
  Types = {item}
  Subs <- MCSubs
  Capacity <- MCCapacity
  MaxGen <- MCMaxGen
  MaxSent <- MCMaxSent
INVARIANTS
  TypeOK
  SingleLoop
  StopIsFinal
  InOrder
PROPERTIES
  KeepsContract
  StartedRuns
  MailHandled
CHECK_DEADLOCK FALSE
