\* One runner and one job are enough to overwrite a cancellation.
CONSTANTS
  Jobs = {j1}
  Runners = {r1}
  None = None
  MaxFaults = 0
  MaxStops = 1
SPECIFICATION Spec
PROPERTIES CancelledSticks
CHECK_DEADLOCK FALSE
