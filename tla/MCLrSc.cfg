CONSTANTS
    Words = {0, 4, 8}
    Modulus = 3
    Depth = 3
    LoopWords = {0, 4}
    AmoWords = {8}
    DmaWords = {8}
SPECIFICATION LrScSpec
INVARIANTS NoLostUpdate ReservationFresh
