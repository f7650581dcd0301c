SPECIFICATION Spec
CONSTANTS
    p1 = p1
    p2 = p2
    Procs <- MCProcs
    MaxVersion = 3
    MaxPowerLosses = 1
SYMMETRY MCSymmetry
INVARIANTS
    UpdaterInv
PROPERTIES
    AnswerIsTrue
