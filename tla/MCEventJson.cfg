SPECIFICATION FairSpec
CONSTANTS
  d1 = d1
  d2 = d2
  imp1 = imp1
  imp2 = imp2
  meta1 = meta1
  scan1 = scan1
  scan2 = scan2
  edit1 = edit1
  edit2 = edit2
  sync1 = sync1
  None = None
  Old = Old
  Absent = Absent
  Procs = {imp1, meta1, edit1}
  Devices = {d1}
  DeviceOf <- OneDevice
  KindOf <- MCKindOf
PROPERTIES
  AtomicDocument
  ChainNeverJams
CHECK_DEADLOCK FALSE
