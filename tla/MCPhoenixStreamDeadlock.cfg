SPECIFICATION Spec
CONSTANTS
    NalLen = 3
    StdinSize = 1
    StdoutSize = 4
    SockSize = 1
    MaxFrames = 6
PROPERTY
    NoReadWriteDeadlock
CHECK_DEADLOCK FALSE
