SPECIFICATION Spec
CONSTANTS
  alice = alice
  bob = bob
  mallory = mallory
  Pair = {alice, bob, mallory}
  AllowedPair <- MCAllowed
  Request = {r1, r2}
  VerifyTtl = 2
  MaxEntries = 1
  MaxTime = 3
SYMMETRY Symmetry
INVARIANTS TypeOK RevocationTakesEffect FailsClosed MemoryIsBounded
CHECK_DEADLOCK FALSE
