SPECIFICATION Spec
CONSTANTS
    p1 = p1
    p2 = p2
    n1 = n1
    n2 = n2
    Procs <- MCProcs
    Names <- MCNames
    Options <- MCOptions
SYMMETRY Symmetry
INVARIANTS TypeOK NothingLeft UndoIsWhatWasDone
PROPERTIES OthersKept
