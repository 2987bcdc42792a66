SPECIFICATION Spec
CHECK_DEADLOCK FALSE
CONSTANTS
    MaxHeap = 160
    CHUNKSIZE = 48
    Packages = {"mm", "segregated", "segregated2", "explicit", "book", "uw", "binarytree", "naive", "my"}
    PkgInit <- MCinit
    PkgMalloc <- MCmalloc
    PkgCalloc <- MCcalloc
    PkgFree <- MCfree
    PkgRealloc <- MCrealloc
    HasCalloc <- MCHasCalloc
    NumIds = 3
    NumOps <- MCNumOps
    Sizes = {4, 28}
INVARIANTS
    Accepted
    Sound
    Coalesced
    Listed
    Accounted
PROPERTIES
    FailsOnlyFull
    Promised
    
