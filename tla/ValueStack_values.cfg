SPECIFICATION MCSpec
CONSTANTS
  NRegs = 3
  MaxTemps = 1
  Widths = {TRUE, FALSE}
  LdArgs = {0}
  MaxStack = 3
  MaxLoc = 2
  MaxDeref = 1
INVARIANTS  ValuesHeld UsesRight
CHECK_DEADLOCK FALSE
