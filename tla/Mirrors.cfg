SPECIFICATION LiveSpec
CONSTANTS
  Mirror = {"clone", "apex"}
  Leader = {"lead"}
  None = None
  Firm <- MCFirm
  FirstPhase <- MCFirstPhase
  Unlisted <- MCUnlisted
  Earlier = {0, 5}
  Outcome <- MCOutcome
  FreshDays = 1
  MaxDay = 2
  MaxEvents = 1
INVARIANTS Inv
PROPERTIES DriftBorn TradesWorkedOff
CHECK_DEADLOCK FALSE
