CONSTANTS
    Clients = {c1}
    Messages = {m1, m2, m3}
    Rooms = {k1, k2}
    k1 = k1
    k2 = k2
    otherClient = c1
    otherMessage = m1
    TaskOf <- OneRoomTaskOf
    RoomOf <- OneRoomRoomOf
    sendBufferSize = 1
    Connected = Connected
    CloseFrame = CloseFrame
    NoEvent = NoEvent
SPECIFICATION FairSpec
CHECK_DEADLOCK FALSE
PROPERTIES
    BroadcastsEnd
    SkippedAreDisconnected
    GoroutinesEnd
