SPECIFICATION Spec
CONSTANTS
  g1 = g1
  g2 = g2
  Gates = {g1, g2}
  Paths = {f1}
  Bundles <- MCBundles
  Fixtures <- MCFixtures
  NaN = NaN
INVARIANTS TypeOK RunIsWarranted SizeIsBound RunHasItsArtifact
PROPERTIES WriteOnce
CHECK_DEADLOCK FALSE
