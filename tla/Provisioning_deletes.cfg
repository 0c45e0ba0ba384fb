\* Two containers, two DELETEs at the same time, no PUT, on either kind of node;
\* ids for every Docker container that can be made.
CONSTANTS
  Rows = {c1, c2}
  Names = {n1, n2}
  Ids = {1, 2, 3, 4}
  Deletes = {d1, d2}
  Updates = {}
  None = None
  Kinds = {TRUE, FALSE}
  MaxRestarts = 0
  MaxFaults = 1
  MaxRemovals = 1
SPECIFICATION Spec
SYMMETRY Symmetry
INVARIANTS OverlappingDeletesHold
PROPERTIES DeleteSparesOthers
CHECK_DEADLOCK FALSE
