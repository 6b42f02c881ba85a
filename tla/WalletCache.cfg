SPECIFICATION Spec
CONSTANTS
  Threads = {t1, t2}
  Ops = {"reserve", "debit", "credit", "read"}
  Amounts = {1, 2}
  Start = 2
  Evictions = TRUE
  MaxOps = 4
  MaxFaults = 2
CHECK_DEADLOCK FALSE
SYMMETRY Symmetry
INVARIANTS
  TypeOK
  SpendableBacked
