SPECIFICATION Spec
CONSTANTS
    b1 = b1
    b2 = b2
    b3 = b3
    b4 = b4
    b5 = b5
    Buf <- MCBuf
    ShmFrame = ShmFrame
    NoFrame = NoFrame
    RingSize = 2
    IndexMod = 4
INVARIANTS
    TypeOK
    BuffersAreHeld
PROPERTIES
    EveryBufferFreed
