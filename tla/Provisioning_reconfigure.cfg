\* A Docker node: one container, one PUT, and enough ids for every re-creation.
CONSTANTS
  Rows = {c1}
  Names = {n1}
  Ids = {1, 2, 3, 4}
  Deletes = {}
  Updates = {u1}
  None = None
  Kinds = {TRUE}
  MaxRestarts = 1
  MaxFaults = 0
  MaxRemovals = 0
SPECIFICATION Spec
INVARIANTS ReconfiguredIsReachable
CHECK_DEADLOCK FALSE
