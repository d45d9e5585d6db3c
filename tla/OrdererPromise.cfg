CONSTANTS
  a = a
  b = b
  c = c
  d = d
  x = x
  Globals = {a, b, c}
  Others = {}
  Collected <- MCThree
  Dependencies <- MCMentionTwo
SPECIFICATION OrderSpec
CHECK_DEADLOCK FALSE
INVARIANTS
  DependsFirst
