SPECIFICATION LinesSpec
CONSTANT TypedLines <- MCTypedLines
INVARIANTS AsMkprog ListsBack Retyped
CHECK_DEADLOCK FALSE
