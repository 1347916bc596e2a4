SPECIFICATION FairDriver
CONSTANTS
  Cols = 2
  Rows = 2
  Space = Space
  NL = NL
  QCap = 3
  ScrollTicks = 2
  MaxOut = 7
INVARIANTS DriverTypeOK NothingSwallowed HandlerNeverSpins
PROPERTIES Implements Finishes
CHECK_DEADLOCK FALSE
