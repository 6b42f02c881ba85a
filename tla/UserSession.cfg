SPECIFICATION Spec
CONSTANTS
  Calls = {p1, p2}
  Caches = {redis}
  Ops = {"validate", "refresh", "revoke", "logout", "advance", "bump"}
  TTL = 2
  Expiry = 3
  Grace = 1
  MaxClock = 3
  MaxGen = 2
  MaxBumps = 1
  MaxFaults = 1
CHECK_DEADLOCK FALSE
SYMMETRY Symmetry
INVARIANTS
  TypeOK
  RevocationPrompt
PROPERTIES
  BoundedStaleness
