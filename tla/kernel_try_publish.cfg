SPECIFICATION Spec
CONSTANTS
  prod = prod
  mid = mid
  tail = tail
  item = item
  Actors = {prod, mid}
  Types = {item}
  Subs <- LiveSubs
  Capacity <- LiveCapacity
  MaxGen <- LiveMaxGen
  MaxSent <- LiveMaxSent
INVARIANT TryPublishHonest
CHECK_DEADLOCK FALSE
