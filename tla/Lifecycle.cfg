SPECIFICATION Spec
CONSTANTS
  FirstPhase = {"eval", "funded"}
  Trail = 200
  EvalTarget = 155
  EvalStop = 105
  NukeTarget = 320
  RecoveryTarget = 420
  FlipTarget = 17
  Dll = 100
  PassProfit = 300
  MinDays = 3
  WinDayMin = 15
  WinDays = 2
  PayoutsTarget = 2
  PayoutCap = 200
  Fee = {1, 3}
  Slip = {4}
  FlatGain = {16}
  FlatLoss = {60}
  ManualGain = {210}
  ManualLoss = {}
  MaxManual = 1
  MaxDay = 5
INVARIANTS
  OwnDeathIsReal StopAboveLimit WinsAreTheFirms
  ClosedGetsBlown RowIsPass
