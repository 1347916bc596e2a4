SPECIFICATION ArithSpec
CONSTANTS
  Bits = 6
  DBEND = 5
  Programs <- MCPrograms
INVARIANTS Product Quotient Root Spells
CHECK_DEADLOCK FALSE
