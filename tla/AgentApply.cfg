\* Five sites, two changes, two accidents and one death of the agent.
CONSTANTS
  Contents = {"a", "b", "bad"}
  Rejected = {"bad"}
  Configs <- Sites
  Shipped = Shipped
  Torn = Torn
  None = None
  MAX_PASSES = 2
  MaxChanges = 2
  MaxFaults = 2
  MaxCrashes = 1
SPECIFICATION Spec
INVARIANTS TypeOK LastKnownGood DownNeedsTwoMishaps
PROPERTIES CatchesUp KeepsKnownGood
