SPECIFICATION Spec
CONSTANTS
  Workers = {w1, w2}
  Pre = 2
  Actuals = {2, 3}
  None = None
  Others = TRUE
  MaxPolls = 3
  MaxFaults = 2
INVARIANTS TypeOK ReadyIsExact OneOutcome PartialIsFenced
PROPERTIES BillingEnds
CHECK_DEADLOCK FALSE
