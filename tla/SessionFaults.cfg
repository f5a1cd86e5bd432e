SPECIFICATION Spec
CONSTANTS
  Account = {1, 2}
  MaxNukes = 1
  WinDays = 1
  PayoutsTarget = 2
  Room = 2
  MaxDay = 2
  MaxAttempts = 2
  Events = {"reject", "timeout", "readfail", "liquidate", "delist", "toggle"}
INVARIANTS OneAttemptPerDay NukeOrderCap BookedOnce
