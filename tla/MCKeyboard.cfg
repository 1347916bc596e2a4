SPECIFICATION FairKeyboard
CONSTANTS
  QSize = 4
  MaxKeys = 7
INVARIANTS KeyTypeOK InOrder MaskedHolds
PROPERTY Collected
CHECK_DEADLOCK FALSE
