SPECIFICATION Spec
CONSTANTS
  Account <- MCAccount
  Owner <- MCOwner
  OwnerOf <- MCOwnerOf
  NoOwner = "none"
  MaxDay = 1
  NukeCaps = {1, 2}
  EvalCaps = {0}
  DepthFirst = TRUE
  StartClass = {"nuke"}
  StaggerTimes = 2
  MaxTraded = 1
INVARIANTS NukeCap HoldersKeepTheirSlot RecoveryFirst
