SPECIFICATION Spec
CONSTANTS
  Requests = {r1, r2}
  Users <- PairUsers
  Kinds = {"text", "task"}
  Quotas <- PairQuotas
  Actuals <- PairActuals
  TrustQuota = 2
  MaxRetries = 1
  Fee = 1
  MaxFaults = 1
CHECK_DEADLOCK FALSE
INVARIANTS
  NeverOverRefunds
  CleanMeansAccounted
SYMMETRY Symmetry
