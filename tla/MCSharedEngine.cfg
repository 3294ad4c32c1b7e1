SPECIFICATION Spec
CONSTANTS
  Threads = {t1, t2}
  Fields = {f, g}
  Counter = n
  None = None
  MaxCalls = 1
INVARIANT AdditionsKept
CHECK_DEADLOCK FALSE
