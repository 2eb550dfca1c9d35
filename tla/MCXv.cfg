SPECIFICATION XvSpec
CONSTANTS
    SeqMod = 4
    Window = 2
    DimMod = 8
    IntMod = 192
    Amounts = {20, 100}
INVARIANTS
    TypeOK
    EachGetsItsReply
    ImageTypeOK
    SamplesAreRight
    ReadsInside
    PlanesApart
\* Without WriteToClient a client that has asked waits for ever.
CHECK_DEADLOCK FALSE
