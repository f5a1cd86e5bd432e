CONSTANTS
  a = a
  b = b
  c = c
  x = x
  Torn = Torn
  None = None
  loop = loop
  once = once
  Writers = {loop, once}
  Acct = {a, b, c, x}
  Known = {a, b, c}
  Gid = {1, 2, 3, 4}
  Cfg = {1, 2}
  Payloads <- MCPayloads
  FirstRows <- MCFirstRows
  StartAlways = FALSE
  Faults = {"blackout", "slowquit", "copyfail", "sqlfail", "slowboot", "readfail", "crash", "bootdrop", "update", "edit", "position", "start", "quit", "busy", "apperror"}
  MaxRuns = 2
  MaxEvents = 1
SPECIFICATION Spec
INVARIANTS Inv Idempotent
PROPERTIES AppliedExact CopierReturns RunEnds Rearranges
CHECK_DEADLOCK FALSE
