CONSTANTS
  a = a
  b = b
  c = c
  d = d
  x = x
  Globals = {a, b, c, d, x}
  Others = {}
  Collected <- MCFive
  Dependencies <- MCOneMentionEach
SPECIFICATION OrderSpec
CHECK_DEADLOCK FALSE
INVARIANTS
  ChainsOrdered
