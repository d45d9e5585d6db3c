CONSTANTS
  a = a
  b = b
  c = c
  d = d
  x = x
  Globals = {a, b, c, d}
  Others = {x}
  Collected <- MCFour
  Dependencies <- MCMentionOne
SPECIFICATION OrderFairSpec
CHECK_DEADLOCK FALSE
INVARIANTS
  Permutation
  ShortChainsOrdered
