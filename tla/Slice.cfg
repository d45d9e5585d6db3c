CONSTANTS
  t1 = t1
  t2 = t2
  v1 = v1
  v2 = v2
  v3 = v3
  a1 = a1
  a2 = a2
  Nil = Nil
  Threads = {t1, t2}
  Vars = {v1, v2, v3}
  Arrays = {a1, a2}
  MaxCap = 2
  SharesNil = TRUE
SPECIFICATION Spec
SYMMETRY Symmetry
INVARIANTS
  CountExact
  WindowLive
PROPERTIES
  FreedOnce
