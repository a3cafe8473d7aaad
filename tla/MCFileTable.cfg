SPECIFICATION FtSpec
CONSTANTS
    NUM_FSNODES = 4
    NUM_OPEN_FILES = 2
    FDS_PER_PROC = 2
    Proc = {0, 1}
    Paths <- MCPaths
    Modes <- MCModes
    FILENAME_SIZE = 8
    node_names <- MCNames
    msg <- MCMsg
    BufSize = 4
    Children <- MCChildren
    Offsets <- MCOffsets
    MaxCursor = 3
CHECK_DEADLOCK FALSE
INVARIANTS
    RefCountExact
    DescriptorsExact
    OpensNamedFile
    
