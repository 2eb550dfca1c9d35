SPECIFICATION Spec
CONSTANTS
    g1 = g1
    g2 = g2
    s1 = s1
    Sender <- MCSender
    GhostSender <- MCGhostSender
    GhostLimit = 2
    PacketLimit = 2
    QueueSize = 5
    WindowSize = 1
    Numbers = 2
    MaxPackets = 2
    Room = 2
INVARIANTS
    TypeOK
    GhostFramesAreWhole
    ScreenIsCurrent
    SegmentsReleased
PROPERTIES
    WaitersAreServed
    ForeignersAreTurnedAway
CHECK_DEADLOCK FALSE
