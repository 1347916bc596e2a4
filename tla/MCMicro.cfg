SPECIFICATION MicroSpec
CONSTANTS
  PageSize = 16
  AddrMod = 64
  MaskMod = 8
  Devices <- MCDevices
  Programs <- MCPrograms
  DataInit <- MCData
  BitAnd <- MCAnd
  BitIor <- MCIor
  BitXor <- MCXor
INVARIANTS MicroTypeOK ArHoldsPc
PROPERTIES PartsNowhereElse Answered
CHECK_DEADLOCK FALSE
