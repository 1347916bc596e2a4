SPECIFICATION FairSim
CONSTANTS
  PageSize = 16
  AddrMod = 64
  MaskMod = 8
  Devices <- MCDevices
  Programs <- MCPrograms
  DataInit <- MCData
  HandlerCells <- MCHandlerCells
  BitAnd <- MCAnd
  BitIor <- MCIor
  BitXor <- MCXor
INVARIANT TypeOK
PROPERTIES Transparent ReturnsMatch Woken Served
CHECK_DEADLOCK FALSE
