SPECIFICATION Spec
CONSTANTS
    Procs <- TwoProcs
    ProcType <- Types12
    COUNTER = 1
    NR_PROCS = 4
    NR_MSG_HARDWARE = 1
    Msgs = {m1, m2}
INVARIANTS MsgTypeOK HardwarePool SleepersListed ListedOnce NoMissedRendezvous
PROPERTIES ImplementsProc ImplementsRendezvous MutualWaitOnlyByBigSend
