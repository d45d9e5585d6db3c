CONSTANTS
  main = main
  f = f
  h = h
  meth = meth
  finit = finit
  x = x
  y = y
  z = z
  c = c
  xinit = xinit
  pm = pm
  pf = pf
  px = px
  Nil = Nil
  Defs = {main, f, h, meth, finit, x, y, z, c, xinit}
  Kind <- MCKind
  Order <- MCOrder
  Work <- MCWork
  Programs <- MCPrograms
  Globals = {x, y, z}
  Others = {c}
  Collected = {}
  Dependencies = {}
SPECIFICATION SpecIR
CHECK_DEADLOCK FALSE
INVARIANTS
  Closed
  OnlyNeeded
  InitKept
  OrderedAreLeft
  InitialisedBefore
PROPERTIES
  Ends
