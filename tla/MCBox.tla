-------------------------------- MODULE MCBox -------------------------------
EXTENDS Box, TLC

CONSTANTS r1, r2

MCTypes == {"circle", "square"}
MCTypeOf == r1 :> "circle" @@ r2 :> "square"
MCSymmetry == Permutations(Objects) \union Permutations(Boxes)
                  \union Permutations(Traits) \union Permutations(Anys)
=============================================================================
