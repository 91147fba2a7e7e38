CONSTANTS
    Clients = {c1, c2}
    Messages = {m1, m2, m3}
    Rooms = {k1, k2}
    k1 = k1
    k2 = k2
    otherClient = otherClient
    otherMessage = m3
    TaskOf <- TwoRoomsTaskOf
    RoomOf <- TwoRoomsRoomOf
    sendBufferSize = 1
    Connected = Connected
    CloseFrame = CloseFrame
    NoEvent = NoEvent
SPECIFICATION Spec
CHECK_DEADLOCK FALSE
SYMMETRY TwoRoomsSymmetry
INVARIANTS
    TypeOK
    MemberWhileOpen
    VisitsOpenChannels
    NoEmptyRooms
    NoSilentLoss
PROPERTY ImplementsRoom
