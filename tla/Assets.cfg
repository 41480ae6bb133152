SPECIFICATION Spec
CONSTANTS
    Nodes = {d1, d2, d3}
    Nothing = Nothing
    Size = 2
SYMMETRY NodesSymmetry
CHECK_DEADLOCK FALSE
INVARIANT TypeOK
INVARIANT AtRestWhole
