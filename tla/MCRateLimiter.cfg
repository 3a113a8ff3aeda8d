SPECIFICATION Spec
CONSTANTS
  Key = {ip1, ip2, ip3}
  MaxAttempts = 2
  Window = 2
  MaxKeys = 2
  MaxTime = 4
SYMMETRY Symmetry
INVARIANTS TypeOK WindowBound
PROPERTY RefusalIsEarned
CHECK_DEADLOCK FALSE
