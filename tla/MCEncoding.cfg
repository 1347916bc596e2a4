SPECIFICATION EncSpec
CONSTANT Sources <- MCSources
INVARIANTS AsWritten AsNamed SameMachine
CHECK_DEADLOCK FALSE
