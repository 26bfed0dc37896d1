SPECIFICATION FairSpec
CONSTANTS
  d1 = d1
  d2 = d2
  job1 = job1
  batch1 = batch1
  job2 = job2
  None = None
  Devices <- MCDevices
  Calls <- MCCalls
  DeviceOf <- MCDeviceOf
  KindOf <- MCKindOf
  MaxSockets <- MCMaxSockets
CONSTRAINT OneHazard
INVARIANTS
  NoIdleSlot
  GrantedHoldsSlot
PROPERTIES
  WaiterIsAdmitted
  SlotComesBack
CHECK_DEADLOCK FALSE
