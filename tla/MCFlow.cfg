SPECIFICATION FairFlow
CONSTANTS
  Scripts <- MCScripts
  Typed <- MCTyped
  Modes = {TRUE, FALSE}
  MaxTyped = 2
INVARIANTS RunsAsWritten Balanced
PROPERTY Ends
CHECK_DEADLOCK FALSE
