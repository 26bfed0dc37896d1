SPECIFICATION Spec
CONSTANTS
  d1 = d1
  j1 = j1
  j2 = j2
  j3 = j3
  img = img
  img1 = img1
  a = a
  a_1 = a_1
  a_2 = a_2
  a_1_1 = a_1_1
  rawA = rawA
  rawB = rawB
  rawF = rawF
  rawB2 = rawB2
  x1 = x1
  x2 = x2
  Torn = Torn
  None = None
  Devices = {d1}
  Jobs = {j1, j2, j3}
  Items = {img, img1}
  Names = {a, a_1, a_2, a_1_1}
  Contents = {rawA, rawB, rawB2, rawF, x1, x2}
  DeviceOf <- MCDeviceOf
  ItemsOf <- MCItemsOf
  NameOf <- MCNameOf
  SuffixOf <- MCSuffixOf
  RawOf <- MCRawOf
  XmpOf <- MCXmpOf
  MaxRuns <- MCMaxRuns
  EditsOf <- MCEditsOf
  MaxJobs = 2
  Foreign <- MCForeign
CONSTRAINT Bounded
INVARIANTS
  NothingTorn
  OneNamePerFile
  XmpBesideItsRaw
PROPERTIES
  NothingOverwritten
  SyncedIsArchived
  ManifestKept
CHECK_DEADLOCK FALSE
