CONSTANTS
    Clients = {c1}
    Messages = {m1, m2}
    Rooms = {k1, k2}
    k1 = k1
    k2 = k2
    otherClient = c1
    otherMessage = m1
    TaskOf <- OneRoomTaskOf
    RoomOf <- OneRoomRoomOf
    sendBufferSize = 1
    Connected = Connected
    CloseFrame = CloseFrame
    NoEvent = NoEvent
SPECIFICATION Spec
CHECK_DEADLOCK FALSE
INVARIANT ConnectedArrives
