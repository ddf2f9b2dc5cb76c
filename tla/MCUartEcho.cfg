CONSTANTS
    Data = {1, 2}
    FIFO_SIZE = 2
    MaxBytes = 5
SPECIFICATION EchoSpec
INVARIANTS UartLineExact NoneStranded
PROPERTY StreamImplemented
