SPECIFICATION Spec
CONSTANTS
    Procs <- ThreeProcs
    ProcType <- Types123
    COUNTER = 1
    NR_PROCS = 4
    NR_MSG_HARDWARE = 0
    Msgs = {m1}
INVARIANT NoMutualWait
