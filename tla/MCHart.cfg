CONSTANTS
    Code = {r}
    ResetPC = r
    NullPC = r
    Ints = {1, 11}
    Lines = {11}
    Excs = {2}
    TvecModes = {1}
    StatusWrites <- StatusChoices
    Csrs = {"mstatus", "sstatus", "mie", "sie", "mideleg", "medeleg", "mip", "sip",
            "mtvec", "stvec", "mepc", "sepc", "mcause", "scause"}
SPECIFICATION CtxSpec
VIEW HartView
INVARIANTS TypeOK ContextKept BurstBound
PROPERTIES Isolation ModeDiscipline ReturnResumes
