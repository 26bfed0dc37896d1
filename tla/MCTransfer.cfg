CONSTANTS
  first = first
  second = second
  new = new
  known = known
  small = small
  middle = middle
  large = large
  Torn = Torn
  None = None
  Calls = {first, second}
  Modes <- ModesV
  Files = {new, known}
  Batches <- BatchesV
  Contents = {small, middle, large}
  SizeOf <- SizeV
  OnDrive <- OnDriveV
  EditOf <- EditV
  Before <- BeforeV
  OtherOf <- OtherV
  MaxSuffix = 2
  MaxErrors = 1
  MaxFaults = 2
SPECIFICATION Spec
PROPERTIES OkIsWhole NothingOverwritten TransferEnds
CHECK_DEADLOCK FALSE
