CONSTANTS
  direct = direct
  quick = quick
  card = card
  disk = disk
  fileA = fileA
  fileB = fileB
  name = name
  name_1 = name_1
  Torn = Torn
  None = None
  Ops = {direct, quick}
  Quick = {quick}
  Direct = {direct}
  Sources = {card, disk}
  Cards = {card}
  SourceOf <- SourceV
  Files <- FilesV
  ListOf <- ListV
  Names = {name, name_1}
  NameOf <- NameV
  SuffixOf <- SuffixV
  SizeOf <- SizeV
  Before <- BeforeV
  Concurrency = 2
  MaxRetries = 1
  MaxFaults = 1
SPECIFICATION Spec
INVARIANTS CommittedIsAccounted NothingTorn ResultsAreTrue
PROPERTIES NothingOverwritten OpEnds
CHECK_DEADLOCK FALSE
