\* One job, two runners; two faults, one signal, and runners are restarted.
CONSTANTS
  Jobs = {j1}
  Runners = {r1, r2}
  None = None
  MaxFaults = 2
  MaxStops = 1
SPECIFICATION FairSpec
PROPERTIES SettlesOrIsAbandoned
CHECK_DEADLOCK FALSE
