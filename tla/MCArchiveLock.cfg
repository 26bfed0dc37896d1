SPECIFICATION Spec
CONSTANTS
  d1 = d1
  d2 = d2
  sync1 = sync1
  retry1 = retry1
  direct2 = direct2
  None = None
  Devices = {d1, d2}
  Sessions = {sync1, retry1, direct2}
  DeviceOf <- MCDeviceOf
  KindOf <- MCKindOf
  JobOf <- MCJobOf
  Skew <- MCSkew
  TTL = 3
  HEARTBEAT = 1
  STALE = 2
  MaxTime = 2
CONSTRAINT OneHazardAtMost
INVARIANTS
  Exclusion
  ReleasesOwnLock
  NoOrphan
  HeartbeatFindsOwnLock
CHECK_DEADLOCK FALSE
