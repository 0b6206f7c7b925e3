SPECIFICATION Spec
CONSTANTS
    Starts <- PawnlessStarts
    Slots = 2
INVARIANT PawnlessScore
