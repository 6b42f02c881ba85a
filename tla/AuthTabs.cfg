SPECIFICATION FairSpec
CONSTANTS
  Tabs = {t1, t2}
  Sids = {a, b}
  First = a
  None = None
  RaceDelays = 1
  MaxMoves = 3
  MaxFaults = 1
CHECK_DEADLOCK FALSE
INVARIANTS
  NoFalseReuse
  SignOutRevokes
  ReloadPerLogin
PROPERTIES
  SignedOutStaysOut
  CallsEnd
  RevokedIsNoticed
