CONSTANTS
  root = root
  comp = comp
  ali = ali
  zain = zain
  new1 = new1
  new2 = new2
  old1 = old1
  old2 = old2
  NoFolder = NoFolder
  Scopes = {root, comp}
  Photographers = {ali, zain}
  Imports = {new1, new2, old1, old2}
  Already = {old1, old2}
  ScopeOf <- ScopeV
  ByOf <- ByV
  Plans <- PlansV
  MaxSeq = 3
  MaxRuns = 2
  MaxFaults = 1
SPECIFICATION SeqSpec
INVARIANTS SeqTypeOK NothingHidden IntentFollows  OneFolderEach
CHECK_DEADLOCK FALSE
