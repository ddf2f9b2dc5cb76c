CONSTANTS
    Quantum = 4
    MaxTime = 2
SPECIFICATION Spec
INVARIANTS NothingLost ClaimFindsWork
PROPERTIES JobServed WfiReturns
