SPECIFICATION SystemSpec
CONSTANTS
    Procs <- BootedProcs
    ProcType <- BootedTypes
    COUNTER = 2
    NR_PROCS = 5
    NR_MSG_HARDWARE = 0
    Msgs = {m1}
INVARIANT TaskNeverRefused
PROPERTY ClientsServed
