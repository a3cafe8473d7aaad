SPECIFICATION Spec
CONSTANTS
    NumLen = 3
    HexLen = 2
    IntMin <- MCIntMin
    Port = {1, 2}
    FifoSize = 2
    Formats <- MCFormats
    Alphabet <- MCAlphabet
    MaxPart = 3
    Values <- MCValues
INVARIANTS
    LineExact
    ParseByGrammar
    NumbersReadBack
PROPERTY EverythingPrinted
CHECK_DEADLOCK FALSE
