SPECIFICATION FairSpec
CONSTANTS
  ping = ping
  pong = pong
  prog = prog
  w1 = w1
  w2 = w2
  Actors = {ping, pong}
  Workers = {w1, w2}
  Main = prog
  Subs <- PairSubs
  MaxSent <- PairSent
  StopsAll = TRUE
INVARIANTS
  TypeOK
  HandleInOnePlace
  WakesToMessage
PROPERTIES
  KeepsContract
  MailHandled
  StopEndsWorkers
CHECK_DEADLOCK FALSE
