CONSTANTS
  Nil = Nil
  DayLength = 3
  ApplyAt = 1
  MaxRetries = 1
  Losses = {"request", "answer"}
  MaxTime = 4
  MaxPlan = 1
  MaxAsks = 1
  MaxFaults = 2
  MaxRows = 1
SPECIFICATION LoopSpec
INVARIANTS LoopInv NightCovered NotBlinded
PROPERTIES LoopProgress
CHECK_DEADLOCK FALSE
