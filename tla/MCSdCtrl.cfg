CONSTANTS
    Rom <- RomRange
    Ram <- RamRange
    Space = 8
    Bytes = {0, 1}
    BlockSize = 2
    Image <- TwoBlocks
    Blocks = {0, 1, 2}
    HasCard = TRUE
SPECIFICATION SdSpec
INVARIANTS IrqIsReport
PROPERTIES DoneMeansRead ReadServed
CHECK_DEADLOCK FALSE
