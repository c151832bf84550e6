SPECIFICATION Spec
CONSTANTS
    c1 = c1
    c2 = c2
    Callers <- MCTwo
    FileSize = 4
    BlockSize = 2
    Counts = {0, 3}
INVARIANTS TypeOK CopyContiguous 
SYMMETRY MCSymmetry
