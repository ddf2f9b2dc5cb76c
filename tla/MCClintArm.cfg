CONSTANTS
    Half = 3
    MsipWrites = {0, 1, 2, 3}
SPECIFICATION ArmSpec
INVARIANT LinesExact
PROPERTIES ArmQuiet AlarmFires
