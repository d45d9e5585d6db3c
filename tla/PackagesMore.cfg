CONSTANTS
  main = main
  a = a
  b = b
  Pkgs = {main, a, b}
  Main = main
  Programs <- MCPrograms
  Faults <- MCFaults
SPECIFICATION FairSpec
CHECK_DEADLOCK FALSE
INVARIANTS
  Complete
