SPECIFICATION Spec
CONSTANTS
    one = one
    two = two
    Programs <- MCPrograms
    Slices = {one, two}
    Arrays <- MCArrays
    Cells <- MCCells
    Vals <- MCVals
    Nil = Nil
    Unset = Unset
    Spare = Spare
    First = First
    MaxLen = 2
    N = 2
PROPERTY OperandsFirst
VIEW View
CHECK_DEADLOCK FALSE
