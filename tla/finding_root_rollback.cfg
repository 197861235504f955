SPECIFICATION Spec
CONSTANTS
  k1 = k1
  k2 = k2
  g1 = g1
  g2 = g2
  Key = {k1, k2}
  Generation = {g1, g2}
  Policy <- MCPolicy
  MaxRoots = 3
  MaxReleases = 2
  MaxRotations = 2
  Consistent = TRUE

PROPERTY RootNeverBack
