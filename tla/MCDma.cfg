CONSTANTS
    Rom <- RomRange
    Ram <- RamRange
    Space = 7
    BurstSize = 2
    Counts = {0, 1, 2, 3}
    Bytes = {0, 1}
SPECIFICATION Spec
INVARIANTS IrqHasReport
PROPERTIES DoneMeansCopied OnlyTargets StartAnswered
CHECK_DEADLOCK FALSE
