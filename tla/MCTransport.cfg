SPECIFICATION TransportSpec
CONSTANTS
    none = none
    block = block
    largest = largest
    wrapping = wrapping
    Messages = {none, block, largest, wrapping}
    Hello = Hello
    Garbage = Garbage
    SizeOf <- MCSizeOf
    BlockSize = 3
    OpcodeSize = 3
    LengthLimit = 8
    MaxSends = 3
    Word = 8
    rabbitA <- MCrabbitA
    Keyed <- MCKeyed
INVARIANTS TransportTypeOK KeystreamUsedOnce CutIsLast CountersInStep
PROPERTY PipeSpec
CHECK_DEADLOCK FALSE
