\* Two runners, two jobs, one fault and one signal.
CONSTANTS
  Jobs = {j1, j2}
  Runners = {r1, r2}
  None = None
  MaxFaults = 1
  MaxStops = 1
SPECIFICATION Spec
SYMMETRY Symmetry
INVARIANTS TypeOK SpawnedAtMostOnce VerdictIsTheExit RunningIsAttended NoOvertaking
PROPERTIES VerdictsAreFinal RefinesLifecycle
CHECK_DEADLOCK FALSE
