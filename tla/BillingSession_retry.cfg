SPECIFICATION Spec
CONSTANTS
  Requests = {r1}
  Users <- OneUser
  Kinds = {"task"}
  Quotas <- PairQuotas
  Actuals <- ActualSet
  TrustQuota = 2
  MaxRetries = 1
  Fee = 0
  MaxFaults = 1
CHECK_DEADLOCK FALSE
INVARIANTS
  ChargedOnce
