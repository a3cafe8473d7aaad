SPECIFICATION Spec
CONSTANTS
    MAX_STORETYPES = 2
    MAX_STORES = 2
    TypeNames <- MCTypeNames
    Names <- MCNames
    Configs <- MCConfigs
    LbaLow = 2
    LbaTop = 2
    Lbas = {1, 3, 5}
    Data = {0, 1}
    Polls = 2
    MaxCount = 2
    MaxCalls = 2
PROPERTIES
    RefinesSectors
    CallsReturn
CHECK_DEADLOCK FALSE
