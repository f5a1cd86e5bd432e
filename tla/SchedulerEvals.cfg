SPECIFICATION Spec
CONSTANTS
  Account <- MCAccount
  Owner <- MCOwner
  OwnerOf <- MCOwnerOf
  NoOwner = "none"
  MaxDay = 2
  NukeCaps = {0}
  EvalCaps = {1, 2}
  DepthFirst = TRUE
  StartClass = {"eval"}
  StaggerTimes = 2
  MaxTraded = 1
INVARIANTS EvalCap WaitOnlyForTakenSlots
