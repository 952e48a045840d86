SPECIFICATION Spec
CONSTANTS
  FrameLimits = {40}
  KMaxBmc = 12
  KMaxInd = 8
  Designs <- Winding
INVARIANT InterpolationSound
