SPECIFICATION Spec
CONSTANTS
    root = root
    d1 = d1
    d2 = d2
    d3 = d3
    n1 = n1
    n2 = n2
    Root = root
    Dirs = {d1, d2, d3}
    Names = {n1, n2}
    Nowhere = Nowhere
SYMMETRY Symmetry
PROPERTIES WorkingDirectoryKept ChangesWhereWorking
