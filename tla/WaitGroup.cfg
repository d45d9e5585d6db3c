CONSTANTS
  j1 = j1
  j2 = j2
  j3 = j3
  main = main
  w1 = w1
  Jobs = {j1, j2, j3}
  Waiters = {main, w1}
  Main = main
  Rounds = 1
  U32 = 8
SPECIFICATION FairSpec
CHECK_DEADLOCK FALSE
INVARIANTS
  TaskCountExact
  NoEarlyReturn
PROPERTIES
  RegisteredWaitersReturn
