SPECIFICATION FairSpec
CONSTANTS
  FrameLimits = {2, 40}
  KMaxBmc = 3
  KMaxInd = 3
  Designs <- MCDesigns
INVARIANTS
  FramesHold
  ObligationsMissInit
  VerdictsTrue
PROPERTY Settles
