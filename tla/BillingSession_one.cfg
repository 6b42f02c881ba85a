SPECIFICATION FairSpec
CONSTANTS
  Requests = {r1}
  Users <- AllUsers
  Kinds = {"text", "task"}
  Quotas <- QuotaSet
  Actuals <- ActualSet
  TrustQuota = 2
  MaxRetries = 1
  Fee = 1
  MaxFaults = 2
CHECK_DEADLOCK FALSE
INVARIANTS
  TypeOK
  ChargedAsSettled
  BooksMatch
  FailedCostsOnlyFee
PROPERTIES
  UncertainIsFrozen
  HoldsEnd
