CONSTANTS
    Words = {0, 4}
    Modulus = 3
    Depth = 3
    LoopWords = {0}
    AmoWords = {0}
    DmaWords = {0}
SPECIFICATION LrScSpec
INVARIANTS ReservationFresh
