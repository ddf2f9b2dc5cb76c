SPECIFICATION Spec
CONSTANTS
    Half = 16
    Samples <- MCSamples
INVARIANTS RvcMeaning EveryBitCounts ImmediateInPlace MulDivExact
