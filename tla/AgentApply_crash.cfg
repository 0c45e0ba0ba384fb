\* Two sites and one death of the agent are enough to accept a rejected file.
CONSTANTS
  Contents = {"a", "b", "bad"}
  Rejected = {"bad"}
  Configs <- Sites
  Shipped = Shipped
  Torn = Torn
  None = None
  MAX_PASSES = 2
  MaxChanges = 1
  MaxFaults = 0
  MaxCrashes = 1
SPECIFICATION Spec
INVARIANTS SuccessMeansTested
