SPECIFICATION Spec
CONSTANTS
  r1 = r1
  r2 = r2
  Requests = {r1, r2}
  Playground = {}
  Subs <- TwoSubs
  Overflow = {1}
  Total = 2
  Quotas <- Amounts
  Period = 1
  MaxClock = 1
  MaxFaults = 1
  AdminResets = {"keep"}
  StaleNow = TRUE
SYMMETRY Symmetry
CHECK_DEADLOCK FALSE
INVARIANTS
  SeenResetsAreSafe
  UsedWithinTotal
  ReceiptIsTruth
  EvidenceKept
PROPERTIES
  TerminalFrozen
