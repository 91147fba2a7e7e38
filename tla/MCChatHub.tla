------------------------------ MODULE MCChatHub ------------------------------
(* TLC instances of ChatHub: one room, or one busy and one other room.        *)
EXTENDS ChatHub, TLC

CONSTANTS k1, k2, otherClient, otherMessage

OneRoomTaskOf == [c \in Clients |-> k1]
OneRoomRoomOf == [m \in Messages |-> k1]
TwoRoomsTaskOf == [c \in Clients |-> IF c = otherClient THEN k2 ELSE k1]
TwoRoomsRoomOf == [m \in Messages |-> IF m = otherMessage THEN k2 ELSE k1]

\* Clients and messages of the busy room are interchangeable.
OneRoomSymmetry == Permutations(Clients) \cup Permutations(Messages)
TwoRoomsSymmetry ==
    Permutations(Clients \ {otherClient})
        \cup Permutations(Messages \ {otherMessage})
==============================================================================
