CONSTANTS
    NumSources = 4
    WordBits = 4
    MaxPrio = 2
    MaxWrite = 4
SPECIFICATION Spec
INVARIANTS LineExact ScanAgrees
