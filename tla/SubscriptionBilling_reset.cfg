SPECIFICATION Spec
CONSTANTS
  r1 = r1
  r2 = r2
  Requests = {r1, r2}
  Playground = {}
  Subs <- OneSub
  Overflow = {1}
  Total = 3
  Quotas <- Amounts
  Period = 2
  MaxClock = 2
  MaxFaults = 0
  AdminResets = {"keep"}
  StaleNow = FALSE
CHECK_DEADLOCK FALSE
INVARIANTS
  RefundsOwnPeriod
