CONSTANTS
  t1 = t1
  t2 = t2
  r1 = r1
  r2 = r2
  r3 = r3
  o1 = o1
  o2 = o2
  Nil = Nil
  Threads = {t1}
  Roots = {r1, r2}
  Objects = {o1, o2}
  InnerSource = TRUE
SPECIFICATION Spec
CHECK_DEADLOCK FALSE
INVARIANTS
  NoDanglingAccess
