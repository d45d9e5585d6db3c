CONSTANTS
  j1 = j1
  j2 = j2
  j3 = j3
  main = main
  w1 = w1
  Jobs = {j1, j2}
  Waiters = {main}
  Main = main
  Rounds = 2
  U32 = 8
SPECIFICATION Spec
CHECK_DEADLOCK FALSE
INVARIANTS
  NoEarlyReturn
