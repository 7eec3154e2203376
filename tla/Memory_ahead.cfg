SPECIFICATION Spec
CONSTANTS
    PAGING_PAGES = 8
    TablePages = 4
    BootTables = 1
    StartPage = 1
    EndPage = 7
    CountLimit = 8
    UserPages <- TwoAndTwo
    InitialShares <- KernelCodeFirst
    LinearPages = 32
    Pointers <- Buffers
    Versions = {}
    MaxShares = 1
INVARIANT HangsOnlyWhenFull
