SPECIFICATION FairProcessSpec
CONSTANTS
    Conns = {s1, s2, s3}
    Environments <- MCEnvironments
    Files <- MCFiles
    NoFile = NoFile
    BadFile = BadFile
    Empty = ""
    Atoi <- MCAtoi
    ParseBool <- MCParseBool
    Levels <- MCLevels
INVARIANT TypeOK
INVARIANT WaitGroupExact
INVARIANT StoreOutlivesHandlers
INVARIANT EnvWins
INVARIANT RunsAsAsked
INVARIANT PanicsOnlyBeyondSecond
PROPERTY ShutdownCompletes
CHECK_DEADLOCK FALSE
