SPECIFICATION ExtSpec
CONSTANTS
    MAX_STORES = 1
    Addr = {2, 4, 6, 8, 10, 12, 14}
    MAX_CACHED_BLOCKS = 2
    MaxData = 1
    ReadFails = FALSE
    WriteFails = FALSE
    HoldAcross = FALSE
    SegSz = 4
    Kilo = 8
    DescPerSeg = 2
    Volumes <- MCVolumes
    MaxBlk = 7
INVARIANT CacheTransparent
CHECK_DEADLOCK FALSE
