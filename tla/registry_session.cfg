\* register, promote and rollback in any order, with crashes anywhere.
SPECIFICATION SessionSpec
CONSTANTS
    A = A
    B = B
    C = C
    Contents <- MCContents
    Genesis = Genesis
    NoHead = NoHead
    Torn = Torn
    Generations = 2
SYMMETRY MCSymmetry
INVARIANTS
    LineageRooted
