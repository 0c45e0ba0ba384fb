\* A Proxmox node, two containers, a DELETE and a PUT, one fault, one removal.
CONSTANTS
  Rows = {c1, c2}
  Names = {n1, n2}
  Ids = {1, 2}
  Deletes = {d1}
  Updates = {u1}
  None = None
  Kinds = {FALSE}
  MaxRestarts = 1
  MaxFaults = 1
  MaxRemovals = 1
SPECIFICATION Spec
SYMMETRY Symmetry
INVARIANTS TypeOK LeaksAreExplained RowsDescribeTheirGuest OutcomeIsShown RestartIsNotUndone
CHECK_DEADLOCK FALSE
