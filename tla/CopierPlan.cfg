SPECIFICATION Spec
CONSTANTS
  Leader = {1, 2, 3, 4, 5, 6}
  Mirror = {11, 12, 13, 14, 15}
  None = None
  OwnerOf <- MCOwner
  Signal <- MCSignal
  FirmOf <- MCFirm
  FundedLeader = {3}
  Fleet <- MCFleet
  EvalSlots = 1
  CloneIntake = 1
  ApexIntake = 1
  NukeSlots = 1
  Pipeline <- MCPipeline
  MaxWaiting = 1
  ApexRoom = 1
  MaxDay = 2
  MaxEvents = 2
INVARIANTS Resolves BuysOnlyForTheDead
PROPERTIES PulledLawful TwinsApart
CHECK_DEADLOCK FALSE
