SPECIFICATION FairSpec
CONSTANTS
  a = a
  b = b
  c = c
  Threads = {t1, t2}
  Members = {a, b, c}
  Scores = {1, 2}
  Hash <- MCHash
  Word = 256
  None = None
  MaxCalls = 3
INVARIANTS MapsAgree ReadsAgree
PROPERTY CallsReturn
CHECK_DEADLOCK FALSE
