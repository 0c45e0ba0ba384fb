\* One container and one PUT are enough to lose the user's environment.
CONSTANTS
  Rows = {c1}
  Names = {n1}
  Ids = {1}
  Deletes = {}
  Updates = {u1}
  None = None
  Kinds = {FALSE}
  MaxRestarts = 1
  MaxFaults = 0
  MaxRemovals = 0
SPECIFICATION Spec
INVARIANTS UserValuesWin
CHECK_DEADLOCK FALSE
