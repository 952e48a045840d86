SPECIFICATION FairSpec
CONSTANTS
  ping = ping
  pong = pong
  prog = prog
  w1 = w1
  w2 = w2
  Actors = {ping}
  Workers = {w1, w2}
  Main = prog
  Subs <- OneSubs
  MaxSent <- OneSent
  StopsAll = FALSE
PROPERTY StoppedActorReturns
CHECK_DEADLOCK FALSE
