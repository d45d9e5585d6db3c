SPECIFICATION Spec
CONSTANTS
    r1 = r1
    r2 = r2
    Refs = {r1, r2}
    Traits = {t1, t2}
    Anys = {a1, a2}
    Objects = {o1, o2, o3}
    Boxes = {b1, b2}
    Types <- MCTypes
    Values = {0}
    TypeOf <- MCTypeOf
    Nil = Nil
SYMMETRY MCSymmetry
INVARIANTS
    CountExact
    TagsTrue
    BoxesOwned
CHECK_DEADLOCK FALSE
