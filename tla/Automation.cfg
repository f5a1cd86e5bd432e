SPECIFICATION Spec
CONSTANTS
  Proc = {1, 2}
  User = {a, b}
  a = a
  b = b
  Keys <- MCKeys
  Week <- MCWeek
  None = none
  MaxToggles = 1
  Until = 3
INVARIANTS Inv
PROPERTIES WindowsServed TicksReturn
CHECK_DEADLOCK FALSE
