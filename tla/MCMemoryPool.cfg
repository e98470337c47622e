SPECIFICATION Spec
CONSTANTS
    BlockCount = 4
    BlockSize  = 2
    IntModulus = 8
    Pointers  <- MCPointers
    Contents  <- MCContents
INVARIANTS
    TypeOK
    FreeListExact
    OutstandingExact
PROPERTIES
    ImplementsPool
