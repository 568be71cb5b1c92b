SPECIFICATION Spec
CONSTANTS
    MaxSize = 3
    Data = {d1, d2, d3, d4}
    Nil = Nil
INVARIANTS
    Consistent
    OnlyFullPanics
    FullMeansFull
PROPERTIES
    ImplementsPendingMap
