SPECIFICATION FairTerm
CONSTANTS
  Cols = 3
  Rows = 2
  FetchCycles = 1
  DataCycles = 2
  BranchCycles = 1
  CharCycles = 8
  ScrollCycles = 120
  CountUnit = 20
  Counts = 8
  Programs = {"focal", "driver", "sleeper"}
  Keystrokes <- MCKeystrokes
  QCap = 2
  MaxOut = 6
INVARIANTS NoCellLost DoneMeansReady Teletype KeysWhole
PROPERTY Fires
CHECK_DEADLOCK FALSE
