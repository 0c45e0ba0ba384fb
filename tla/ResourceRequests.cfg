\* Three requests, two reviews; the container is made twice; one fault.
CONSTANTS
  Requests = {q1, q2, q3}
  Reviews = {r1, r2}
  Values = {0, 1, 2}
  Default = 1
  None = None
  MaxRows = 2
  MaxFaults = 1
SPECIFICATION Spec
SYMMETRY Symmetry
INVARIANTS TypeOK OnlyTheApproved LatestIsInForce
PROPERTIES ReviewsAreFinal
CHECK_DEADLOCK FALSE
