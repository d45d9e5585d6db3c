SPECIFICATION Spec
CONSTANTS
    main = main
    other = other
    first = first
    second = second
    third = third
    Threads = {main, other}
    Main = main
    Handles = {first, second, third}
    HolderOf <- MCHolderOf
    Signals <- MCSignals
    Messages = {oops}
    Empty = Empty
    Nil = Nil
    Budgets <- MCBudgets
INVARIANTS
    DeferOnce
    LastDetaches
PROPERTIES
    DeferReverse
    PanicRecovered
    PanicEnds
CHECK_DEADLOCK FALSE
