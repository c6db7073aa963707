SPECIFICATION Spec
CONSTANTS
    Include <- MCInclude
    Files <- MCFiles
    MaxMatchDepth = 3
    ByteBits = 3
    WordBits = 9
    Octets <- MCOctets
    Minute = 4
    Hour = 12
    Day = 48
    Chars <- MCChars
    Dash = 5
    Blank = 6
    Keys <- MCKeys
    Hash <- MCHash
    Equal <- MCEqual
    Smallest = 4
    Sizes = {2, 4, 5}
    InsertTail = FALSE
    MaxInserts = 5
    Pieces <- MCPieces
    Polite <- MCPolite
    Comments <- MCComments
    MaxPolite = 5
    MaxPieces = 3
    Items <- MCItems
    HostItems <- MCHostItems
    MaxItems = 3
    HostChars <- MCHostChars
    MaxString = 3
    Addresses <- MCAddresses
    MaxSpan = 150
    MapTexts <- MCMapTexts
    MaxName = 2
INVARIANTS ConfigurationsRead StringsMatch TablesFind
CHECK_DEADLOCK FALSE
