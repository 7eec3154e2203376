SPECIFICATION Spec
CONSTANTS
    PAGING_PAGES = 8
    TablePages = 4
    BootTables = 2
    StartPage = 1
    EndPage = 7
    CountLimit = 8
    UserPages <- OneAndTwo
    InitialShares <- KernelCode
    LinearPages = 32
    Pointers <- Buffers
    Versions = {1}
    MaxShares = 3
INVARIANTS
    MemTypeOK
    CountsCover
    WritableIsPrivate
    HangsOnlyWhenFull
PROPERTIES WritesSucceed ImplementsPrivatePages
