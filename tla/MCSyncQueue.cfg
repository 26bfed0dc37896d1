SPECIFICATION Spec
CONSTANTS
  j1 = j1
  j2 = j2
  one1 = one1
  batch1 = batch1
  refresh1 = refresh1
  None = None
  Jobs = {j1, j2}
  Calls = {one1, batch1, refresh1}
  KindOf <- MCKindOf
  JobOf <- MCJobOf
CONSTRAINT OneHazard
INVARIANTS
  OneSyncPerJob
  GuardExact
  PauseReachesSync
  SyncedStays
CHECK_DEADLOCK FALSE
