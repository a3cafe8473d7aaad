SPECIFICATION BcSpec
CONSTANTS
    MAX_STORES = 2
    Addr = {0, 1}
    MAX_CACHED_BLOCKS = 2
    MaxData = 1
    ReadFails = TRUE
    WriteFails = TRUE
    HoldAcross = TRUE
INVARIANTS
    OneBufferPerBlock
    OnlySpoiltLost
PROPERTIES PutSaves
