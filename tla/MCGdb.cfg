SPECIFICATION Spec
CONSTANTS
    RomSize = 2
    RamBase = 2
    RamSize = 3
    Space = 6
    Content <- MCContent
    StopOnEbreak = TRUE
    ResetPc = 0
    Handler = 2
    Jumps <- MCJumps
    Stores <- MCStores
    BpAddrs <- MCBpAddrs
    MaxBurst = 1
INVARIANTS ServedWhileStopped StepRetiresOne ContinueStopsAtEbreak BpsRestore NoMutualWait DirectAgrees
CHECK_DEADLOCK FALSE
PROPERTY StopAnswered
