SPECIFICATION Spec
CONSTANTS
    FrameLen = 2
    PipeSize = 2
    MaxFrames = 4
    NalLen = 3
    StdinSize = 1
    StdoutSize = 4
    SockSize = 1
INVARIANTS
    TypeOK
    AlignedFramesAreWhole
    PacketsAreNals
PROPERTIES
    WriterGoesOn
    FramesArrive
CHECK_DEADLOCK FALSE
