SPECIFICATION ProcSpec
CONSTANTS
    Procs <- MixedProcs
    ProcType <- MixedTypes
    COUNTER = 2
INVARIANTS QueueSound TopPriority AtMostOneDropped
PROPERTIES WorkConserving SharesProcessor
