SPECIFICATION ExchangeSpec
CONSTANTS
    Base = 4
    HighSurrogates = {12}
    LowSurrogates = {13}
    Replacement = 15
    FloatStep = 2
    messages <- MCMessages
    structs <- MCStructs
    fixedArrays <- MCFixedArrays
    messageFullNames <- MCMessageFullNames
    Types <- MCTypes
    Nesting <- MCNesting
    GoValues <- MCGoValues
    Sendings <- MCSendings
    ForeignBodies <- MCForeignBodies
    MaxCut = 26
    Characters <- MCCharacters
    Refusals = {1, 26, 101}
    ProtocolVersions = {0, 100}
    AccountCodes <- Codes
    SessionKeys = {0, 7}
    WarpTokens <- MCWarpTokens
    Times = {5, 3000}
    WorldID = 2
    oidWorldMultiplier = 1000
    LengthLimit = 100
INVARIANT LoginEchoFits
CHECK_DEADLOCK FALSE
