SPECIFICATION WriteSpec
CONSTANTS
    Writers = {w1, w2}
    Original = original
    None = none
SYMMETRY MCSymmetry
INVARIANTS ErrorLeavesNothing ModeKept
PROPERTIES ImplementsRegister
