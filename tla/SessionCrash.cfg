SPECIFICATION Spec
CONSTANTS
  Account = {1}
  MaxNukes = 1
  WinDays = 1
  PayoutsTarget = 2
  Room = 1
  MaxDay = 2
  MaxAttempts = 2
  Events = {"snapshot", "timeout", "readfail", "crash"}
INVARIANTS NoStacking
