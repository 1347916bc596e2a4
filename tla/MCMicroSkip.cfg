SPECIFICATION MicroSpec
CONSTANTS
  PageSize = 16
  AddrMod = 64
  MaskMod = 8
  Devices <- MCDevices
  Programs <- MCSkipPrograms
  DataInit <- MCData
  BitAnd <- MCAnd
  BitIor <- MCIor
  BitXor <- MCXor
PROPERTY ImplementsIsa
CHECK_DEADLOCK FALSE
