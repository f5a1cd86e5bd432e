SPECIFICATION LiveSpec
CONSTANTS
  Account = {1}
  MaxNukes = 1
  WinDays = 2
  PayoutsTarget = 2
  Room = 2
  MaxDay = 3
  MaxAttempts = 3
  Events = {"reject", "liquidate", "delist", "payout", "toggle"}
INVARIANTS Accounted
PROPERTIES PayoutHolds ClosedGetsBooked
