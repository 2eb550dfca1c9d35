SPECIFICATION Spec
CONSTANTS
    f1 = f1
    f2 = f2
    NoFrame = NoFrame
    Frame <- MCFrame
    RingSize = 2
    IndexMod = 4
INVARIANTS
    TypeOK
    RingBounded
    EntriesFilled
    NoSlotRace
    NoLostWakeup
    WakeupsBounded
PROPERTIES
    ImplementsQueue
