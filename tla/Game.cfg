SPECIFICATION Spec
CONSTANTS
    Starts <- GameStarts
    Slots = 2
INVARIANTS
    Coherent
    UndoRestores
    ChecksAreKnown
    LegalityAgrees
    RepetitionExact
    CacheTellsTruth
    OnDemandComplete
    SeeTellsWinners
