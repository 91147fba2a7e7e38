---------------------------- MODULE ChatHubProofs -----------------------------
(* What keeps the hub from a panic in the middle of a broadcast, for any       *)
(* number of clients, rooms and messages: channels are closed by whoever      *)
(* removes the client from its room, under the write lock, which nobody takes *)
(* while a broadcast goes through the members.                                *)
EXTENDS ChatHub, TLAPS

\* A client is in no room but the one it asked for.
OwnRoomOnly == \A k \in Rooms : \A c \in Members(k) : TaskOf[c] = k

\* The channel of a client that was never registered is open.
OpenBeforeRegister ==
    \A c \in Clients : handler[c] \in {"none", "upgraded"} => ~send[c].closed

\* writePump writes nothing but events.
WritesEvents == \A c \in Clients : writer[c] = "writing" => current[c] # NoEvent

\* The inductive invariant.
Inv ==
    /\ TypeOK /\ WritesEvents
    /\ MemberWhileOpen /\ OwnRoomOnly /\ OpenBeforeRegister
    /\ VisitsOpenChannels /\ NoEmptyRooms

\* What register does to the rooms.
LEMMA RegisterJoins ==
    ASSUME Inv, NEW c \in Clients, register(c)
    PROVE  /\ \A k \in Rooms :
                  Members(k)' = IF k = TaskOf[c] THEN Members(k) \cup {c} ELSE Members(k)
           /\ DOMAIN rooms' \subseteq Rooms
           /\ \A k \in DOMAIN rooms' : rooms'[k] \subseteq Clients /\ rooms'[k] # {}
<1> DEFINE K == TaskOf[c]
           all == Members(K) \cup {c}
<1>1. K \in Rooms
  BY HubAssumption
<1>2. /\ DOMAIN rooms' = DOMAIN rooms \cup {K}
      /\ \A k \in DOMAIN rooms' : rooms'[k] = IF k = K THEN all ELSE rooms[k]
  BY DEF register
<1>3. /\ DOMAIN rooms \subseteq Rooms
      /\ \A k \in DOMAIN rooms : rooms[k] \subseteq Clients /\ rooms[k] # {}
  BY DEF Inv, TypeOK, NoEmptyRooms
<1>4. all \subseteq Clients /\ all # {}
  BY <1>3 DEF Members
<1>5. \A k \in Rooms : Members(k)' = IF k = K THEN all ELSE Members(k)
  BY <1>2 DEF Members
<1> HIDE DEF K, all
<1>6. /\ DOMAIN rooms' \subseteq Rooms
      /\ \A k \in DOMAIN rooms' : rooms'[k] \subseteq Clients /\ rooms'[k] # {}
  BY <1>1, <1>2, <1>3, <1>4
<1> QED
  BY <1>5, <1>6 DEF K, all

\* What unregister does to the rooms and the channels.
LEMMA UnregisterLeaves ==
    ASSUME Inv, NEW c \in Clients, unregister(c)
    PROVE  /\ \A k \in Rooms :
                  Members(k)' = IF k = TaskOf[c] THEN Members(k) \ {c} ELSE Members(k)
           /\ DOMAIN rooms' \subseteq Rooms
           /\ \A k \in DOMAIN rooms' : rooms'[k] \subseteq Clients /\ rooms'[k] # {}
           /\ send' \in [Clients -> [buffer: Seq(Event), closed: BOOLEAN]]
           /\ \A d \in Clients :
                  /\ send'[d].buffer = send[d].buffer
                  /\ send'[d].closed =
                        (send[d].closed \/ (d = c /\ c \in Members(TaskOf[c])))
<1>1. TaskOf[c] \in Rooms /\ send \in [Clients -> [buffer: Seq(Event), closed: BOOLEAN]]
  BY HubAssumption DEF Inv, TypeOK
<1>2. CASE c \notin Members(TaskOf[c])
  <2>1. UNCHANGED <<rooms, send>>
    BY <1>2 DEF unregister
  <2> QED
    BY <1>1, <1>2, <2>1 DEF Inv, TypeOK, NoEmptyRooms, Members
<1>3. CASE c \in Members(TaskOf[c])
  <2> DEFINE K == TaskOf[c]
             rest == Members(K) \ {c}
  <2>1. /\ rooms' = [room \in {r \in DOMAIN rooms : r # K \/ rest # {}} |->
                        IF room = K THEN rest ELSE rooms[room]]
        /\ send' = [send EXCEPT ![c].closed = TRUE]
    BY <1>3 DEF unregister
  <2>2. /\ DOMAIN rooms' = {r \in DOMAIN rooms : r # K \/ rest # {}}
        /\ \A k \in DOMAIN rooms' : rooms'[k] = IF k = K THEN rest ELSE rooms[k]
    BY <2>1
  <2>3. /\ DOMAIN rooms \subseteq Rooms
        /\ \A k \in DOMAIN rooms : rooms[k] \subseteq Clients /\ rooms[k] # {}
    BY DEF Inv, TypeOK, NoEmptyRooms
  <2>4. /\ DOMAIN rooms' \subseteq Rooms
        /\ \A k \in DOMAIN rooms' : rooms'[k] \subseteq Clients /\ rooms'[k] # {}
    BY <2>2, <2>3 DEF Members
  <2>5. \A k \in Rooms : Members(k)' = IF k = K THEN rest ELSE Members(k)
    BY <2>2 DEF Members
  <2>6. /\ send' \in [Clients -> [buffer: Seq(Event), closed: BOOLEAN]]
        /\ \A d \in Clients :
               /\ send'[d].buffer = send[d].buffer
               /\ send'[d].closed = IF d = c THEN TRUE ELSE send[d].closed
    BY <1>1, <2>1
  <2>7. \A d \in Clients : send[d].closed \in BOOLEAN
    BY <1>1
  <2> HIDE DEF K, rest
  <2> QED
    BY <1>3, <2>4, <2>5, <2>6, <2>7 DEF K, rest
<1> QED
  BY <1>2, <1>3

InRoomStates == {"registered", "connected", "reading", "unregister"}
Channel == [buffer: Seq(Event), closed: BOOLEAN]

\* A step that touches neither the rooms nor the broadcasts, closes no channel
\* and takes nobody's handler in or out of its time in the room.
LEMMA QuietSteps ==
    ASSUME Inv, TypeOK', WritesEvents', UNCHANGED <<rooms, castVars>>,
           \A c \in Clients :
               /\ send'[c].closed = send[c].closed
               /\ (handler'[c] \in InRoomStates /\ ~send[c].closed) <=>
                      (handler[c] \in InRoomStates /\ ~send[c].closed)
               /\ handler'[c] \in {"none", "upgraded"} => handler[c] \in {"none", "upgraded"}
    PROVE  Inv'
<1>1. /\ \A k : Members(k)' = Members(k)
      /\ UNCHANGED <<rooms, cast, todo>>
  BY DEF Members, castVars
<1>2. MemberWhileOpen'
  BY <1>1 DEF Inv, MemberWhileOpen, InRoomStates
<1>3. OwnRoomOnly' /\ OpenBeforeRegister' /\ VisitsOpenChannels' /\ NoEmptyRooms'
  BY <1>1, HubAssumption
  DEF Inv, TypeOK, OwnRoomOnly, OpenBeforeRegister, VisitsOpenChannels, NoEmptyRooms
<1> QED
  BY <1>2, <1>3 DEF Inv

\* An event goes into a buffer that has room for it.
LEMMA EnqueueFits ==
    ASSUME TypeOK, NEW c \in Clients, NEW event \in Event, ~Full(c), Enqueue(c, event)
    PROVE  /\ send' \in [Clients -> Channel]
           /\ \A d \in Clients : /\ Len(send'[d].buffer) <= sendBufferSize
                                 /\ send'[d].closed = send[d].closed
<1> DEFINE buffer == Append(send[c].buffer, event)
<1>1. /\ send \in [Clients -> Channel]
      /\ \A d \in Clients : Len(send[d].buffer) <= sendBufferSize
      /\ sendBufferSize \in Nat
  BY HubAssumption DEF TypeOK, Channel
<1>2. send[c].buffer \in Seq(Event)
  BY <1>1 DEF Channel
<1>3. buffer \in Seq(Event) /\ Len(buffer) <= sendBufferSize
  BY <1>1, <1>2 DEF Full
<1>4. send' = [send EXCEPT ![c].buffer = buffer]
  BY DEF Enqueue
<1> HIDE DEF buffer
<1>5. /\ send' \in [Clients -> Channel]
      /\ \A d \in Clients : /\ send'[d].buffer = IF d = c THEN buffer ELSE send[d].buffer
                            /\ send'[d].closed = send[d].closed
  BY <1>1, <1>3, <1>4 DEF Channel
<1> QED
  BY <1>1, <1>3, <1>5

\* The handler of a client, but for the two sections under the lock.
LEMMA ServeQuietly ==
    ASSUME Inv, NEW c \in Clients,
           \/ Upgrade(c) \/ UpgradeFails(c) \/ SendConnected(c) \/ SendPanics(c)
           \/ StartPumps(c) \/ ReadFails(c)
    PROVE  Inv'
<1>1. UNCHANGED <<rooms, castVars, current, wire>>
  BY DEF Upgrade, UpgradeFails, SendConnected, SendPanics, StartPumps, ReadFails
<1>2. /\ send' \in [Clients -> Channel]
      /\ \A d \in Clients : /\ Len(send'[d].buffer) <= sendBufferSize
                            /\ send'[d].closed = send[d].closed
  <2>1. CASE SendConnected(c)
    BY <2>1, EnqueueFits DEF Inv, SendConnected, Event
  <2>2. CASE UNCHANGED send
    BY <2>2 DEF Inv, TypeOK, Channel
  <2> QED
    BY <2>1, <2>2 DEF Upgrade, UpgradeFails, SendPanics, StartPumps, ReadFails
<1>3. \E to \in {"upgraded", "connected", "reading", "unregister", "done", "panicked"} :
          /\ handler' = [handler EXCEPT ![c] = to]
          /\ (to \in InRoomStates /\ ~send[c].closed) <=>
                 (handler[c] \in InRoomStates /\ ~send[c].closed)
          /\ to = "upgraded" => handler[c] = "none"
  BY DEF Upgrade, UpgradeFails, SendConnected, SendPanics, StartPumps, ReadFails, Step,
         InRoomStates
<1>4. /\ writer' \in [Clients -> {"none", "select", "writing", "exited"}]
      /\ conn' \in [Clients -> {"none", "open", "gone", "closed"}]
  BY DEF Inv, TypeOK, Upgrade, UpgradeFails, SendConnected, SendPanics, StartPumps, ReadFails
<1>5. handler \in [Clients -> {"none", "upgraded", "registered", "connected",
                               "reading", "unregister", "done", "panicked"}]
  BY DEF Inv, TypeOK
<1>6. TypeOK'
  BY <1>1, <1>2, <1>3, <1>4, <1>5 DEF Inv, TypeOK, castVars, Channel
<1>7. WritesEvents'
  <2>1. \A d \in Clients : writer'[d] = "writing" => writer[d] = "writing"
    BY DEF Inv, TypeOK, Upgrade, UpgradeFails, SendConnected, SendPanics, StartPumps, ReadFails
  <2> QED
    BY <1>1, <2>1 DEF Inv, WritesEvents
<1> QED
  BY <1>1, <1>2, <1>3, <1>5, <1>6, <1>7, QuietSteps

\* writePump, and the peer.
LEMMA PumpQuietly ==
    ASSUME Inv, NEW c \in Clients, Pump(c) \/ PeerLeaves(c)
    PROVE  Inv'
<1> USE DEF Pump, Receive, WriteEvent, WriteFails, ChannelClosed, PeerLeaves, ExitWriter
<1>1. UNCHANGED <<rooms, castVars, handler>>
  OBVIOUS
<1>2. /\ writer' \in [Clients -> {"none", "select", "writing", "exited"}]
      /\ conn' \in [Clients -> {"none", "open", "gone", "closed"}]
  BY DEF Inv, TypeOK
<1>3. /\ send \in [Clients -> Channel] /\ wire \in [Clients -> Seq(Event \cup {CloseFrame})]
      /\ current \in [Clients -> Event \cup {NoEvent}]
      /\ \A d \in Clients : Len(send[d].buffer) <= sendBufferSize
      /\ sendBufferSize \in Nat
  BY HubAssumption DEF Inv, TypeOK, Channel
<1>4. ASSUME Receive(c)
      PROVE  /\ send' \in [Clients -> Channel]
             /\ \A d \in Clients : /\ Len(send'[d].buffer) <= sendBufferSize
                                   /\ send'[d].closed = send[d].closed
             /\ current' \in [Clients -> Event \cup {NoEvent}]
  <2> DEFINE rest == Tail(send[c].buffer)
             event == Head(send[c].buffer)
  <2>1. send[c].buffer \in Seq(Event) /\ send[c].buffer # <<>>
    BY <1>3, <1>4 DEF Channel
  <2>2. rest \in Seq(Event) /\ Len(rest) <= sendBufferSize /\ event \in Event
    BY <1>3, <2>1
  <2>3. send' = [send EXCEPT ![c].buffer = rest] /\ current' = [current EXCEPT ![c] = event]
    BY <1>4
  <2> HIDE DEF rest, event
  <2>4. /\ send' \in [Clients -> Channel]
        /\ \A d \in Clients : /\ send'[d].buffer = IF d = c THEN rest ELSE send[d].buffer
                              /\ send'[d].closed = send[d].closed
    <3>1. [send[c] EXCEPT !.buffer = rest] \in Channel
      BY <1>3, <2>2 DEF Channel
    <3>2. send' = [send EXCEPT ![c] = [send[c] EXCEPT !.buffer = rest]]
      BY <2>3
    <3> QED
      BY <1>3, <3>1, <3>2 DEF Channel
  <2> QED
    BY <1>3, <2>2, <2>3, <2>4
<1>5. ASSUME ~Receive(c)
      PROVE  UNCHANGED send /\ current' \in [Clients -> Event \cup {NoEvent}]
  BY <1>3, <1>5
<1>6. ASSUME NEW frame \in Event \cup {CloseFrame}, Wire(c, frame)
      PROVE  wire' \in [Clients -> Seq(Event \cup {CloseFrame})]
  <2>1. wire[c] \in Seq(Event \cup {CloseFrame})
    BY <1>3
  <2>2. Append(wire[c], frame) \in Seq(Event \cup {CloseFrame})
    BY <2>1
  <2> QED
    BY <1>3, <1>6, <2>2 DEF Wire
<1>7. wire' \in [Clients -> Seq(Event \cup {CloseFrame})]
  <2>1. CASE WriteEvent(c)
    <3>1. current[c] \in Event /\ Wire(c, current[c])
      BY <1>3, <2>1 DEF Inv, WritesEvents
    <3> QED
      BY <1>6, <3>1
  <2>2. CASE ChannelClosed(c)
    BY <1>6, <2>2
  <2> QED
    BY <1>3, <2>1, <2>2
<1>8. WritesEvents'
  <2>1. CASE Receive(c)
    <3>1. Head(send[c].buffer) \in Event
      BY <1>3, <2>1 DEF Channel
    <3>2. Head(send[c].buffer) # NoEvent
      BY <3>1, HubAssumption DEF Event
    <3> QED
      BY <1>3, <2>1, <3>2 DEF Inv, WritesEvents
  <2>2. CASE ~Receive(c)
    BY <2>2 DEF Inv, TypeOK, WritesEvents
  <2> QED
    BY <2>1, <2>2
<1>9. TypeOK'
  BY <1>1, <1>2, <1>3, <1>4, <1>5, <1>7 DEF Inv, TypeOK, castVars, Channel
<1> QED
  BY <1>1, <1>4, <1>5, <1>8, <1>9, QuietSteps

\* Nobody holds the read lock while a client is registered.
LEMMA RegisterPreserves ==
    ASSUME Inv, NEW c \in Clients, Register(c)
    PROVE  Inv'
<1>1. /\ register(c) /\ readers = {}
      /\ handler[c] = "upgraded" /\ handler' = [handler EXCEPT ![c] = "registered"]
      /\ UNCHANGED <<send, writer, conn, current, wire, cast, todo, stale, audience>>
  BY DEF Register, Lockable, Step, castVars
<1>2. handler \in [Clients -> {"none", "upgraded", "registered", "connected",
                               "reading", "unregister", "done", "panicked"}]
  BY DEF Inv, TypeOK
<1>3. \A m \in Messages : cast[m] # "rlocked"
  BY <1>1 DEF readers
<1>4. TypeOK' /\ NoEmptyRooms'
  BY <1>1, <1>2, RegisterJoins DEF Inv, TypeOK, NoEmptyRooms
<1>5. \A d \in Clients : TaskOf[d] \in Rooms
  BY HubAssumption
<1>6. \A k \in Rooms :
          Members(k)' = IF k = TaskOf[c] THEN Members(k) \cup {c} ELSE Members(k)
  BY <1>1, RegisterJoins
<1>7. MemberWhileOpen'
  <2>1. ASSUME NEW d \in Clients
        PROVE  (d \in Members(TaskOf[d]))' <=> d = c \/ d \in Members(TaskOf[d])
    BY <1>5, <1>6
  <2>2. ~send[c].closed
    BY <1>1 DEF Inv, OpenBeforeRegister
  <2> QED
    BY <1>1, <1>2, <2>1, <2>2 DEF Inv, MemberWhileOpen
<1>8. OwnRoomOnly'
  BY <1>6 DEF Inv, OwnRoomOnly
<1> QED
  BY <1>1, <1>2, <1>3, <1>4, <1>7, <1>8
  DEF Inv, WritesEvents, OpenBeforeRegister, VisitsOpenChannels

\* Nor while one is removed, by its own handler or by a broadcast.
LEMMA UnregisterPreserves ==
    ASSUME Inv, NEW c \in Clients, unregister(c), Lockable,
           UNCHANGED <<writer, conn, current, wire>>,
           \A d \in Clients : handler'[d] = handler[d] \/
               (d = c /\ handler[d] = "unregister" /\ handler'[d] = "done"),
           handler' \in [Clients -> {"none", "upgraded", "registered", "connected",
                                     "reading", "unregister", "done", "panicked"}],
           cast' \in [Messages -> {"none", "rlocked", "evicting", "done"}],
           \A m \in Messages : cast'[m] = "rlocked" => cast[m] = "rlocked",
           {todo', stale', audience'} \subseteq [Messages -> SUBSET Clients]
    PROVE  Inv'
<1>1. \A d \in Clients : TaskOf[d] \in Rooms
  BY HubAssumption
<1>2. \A k \in Rooms : Members(k)' = IF k = TaskOf[c] THEN Members(k) \ {c} ELSE Members(k)
  BY UnregisterLeaves
<1>3. \A d \in Clients :
          send'[d].closed = (send[d].closed \/ (d = c /\ c \in Members(TaskOf[c])))
  BY UnregisterLeaves
<1>4. TypeOK' /\ NoEmptyRooms'
  BY UnregisterLeaves DEF Inv, TypeOK, NoEmptyRooms
<1>5. MemberWhileOpen'
  <2>1. ASSUME NEW d \in Clients
        PROVE  (d \in Members(TaskOf[d]))' <=> d # c /\ d \in Members(TaskOf[d])
    BY <1>1, <1>2
  <2>2. \A d \in Clients \ {c} : handler'[d] = handler[d]
    OBVIOUS
  <2>3. c \notin Members(TaskOf[c]) =>
            handler'[c] \notin InRoomStates \/ send[c].closed
    BY DEF Inv, MemberWhileOpen, InRoomStates
  <2> QED
    BY <1>3, <2>1, <2>2, <2>3 DEF Inv, MemberWhileOpen, InRoomStates
<1>6. OwnRoomOnly'
  BY <1>2 DEF Inv, OwnRoomOnly
<1>7. OpenBeforeRegister'
  <2>1. c \in Members(TaskOf[c]) => handler[c] \notin {"none", "upgraded"}
    BY DEF Inv, MemberWhileOpen
  <2> QED
    BY <1>3, <2>1 DEF Inv, OpenBeforeRegister
<1>8. VisitsOpenChannels'
  BY DEF Lockable, readers, VisitsOpenChannels
<1> QED
  BY <1>4, <1>5, <1>6, <1>7, <1>8 DEF Inv, WritesEvents

\* A broadcast visits the members it found, and nobody leaves meanwhile.
LEMMA BroadcastPreserves ==
    ASSUME Inv, NEW m \in Messages, Broadcast(m)
    PROVE  Inv'
<1>1. /\ RoomOf[m] \in Rooms /\ Members(RoomOf[m]) \subseteq Clients
      /\ cast \in [Messages -> {"none", "rlocked", "evicting", "done"}]
      /\ todo \in [Messages -> SUBSET Clients] /\ stale \in [Messages -> SUBSET Clients]
      /\ audience \in [Messages -> SUBSET Clients]
  BY HubAssumption DEF Inv, TypeOK, Members
<1>2. ASSUME UNCHANGED <<rooms, clientVars>>, TypeOK', VisitsOpenChannels',
             \A c \in Clients : send'[c].closed = send[c].closed
      PROVE  Inv'
  <2>1. \A k : Members(k)' = Members(k)
    BY <1>2 DEF Members
  <2> QED
    BY <1>2, <2>1
    DEF Inv, clientVars, WritesEvents, MemberWhileOpen, OwnRoomOnly, OpenBeforeRegister,
        NoEmptyRooms
<1>3. CASE BeginBroadcast(m)
  <2>1. /\ UNCHANGED <<rooms, send, clientVars, stale>>
        /\ cast' = [cast EXCEPT ![m] = "rlocked"]
        /\ todo' = [todo EXCEPT ![m] = Members(RoomOf[m])]
        /\ audience' = [audience EXCEPT ![m] = Members(RoomOf[m])]
    BY <1>3 DEF BeginBroadcast
  <2>2. TypeOK'
    BY <1>1, <2>1 DEF Inv, TypeOK, clientVars
  <2>3. \A k : Members(k)' = Members(k)
    BY <2>1 DEF Members
  <2>4. \A c \in Members(RoomOf[m]) : TaskOf[c] = RoomOf[m] /\ ~send[c].closed
    BY <1>1 DEF Inv, OwnRoomOnly, MemberWhileOpen
  <2>5. VisitsOpenChannels'
    BY <1>1, <2>1, <2>3, <2>4 DEF Inv, VisitsOpenChannels
  <2> QED
    BY <1>2, <2>1, <2>2, <2>5
<1>4. ASSUME NEW c \in Clients, Visit(m, c)
      PROVE  Inv'
  <2>1. /\ UNCHANGED <<rooms, clientVars, cast, audience>>
        /\ c \in todo[m] /\ todo' = [todo EXCEPT ![m] = @ \ {c}]
        /\ stale' \in [Messages -> SUBSET Clients]
    BY <1>1, <1>4 DEF Visit
  <2>2. /\ send' \in [Clients -> Channel]
        /\ \A d \in Clients : /\ Len(send'[d].buffer) <= sendBufferSize
                              /\ send'[d].closed = send[d].closed
    <3>1. CASE ~Full(c) /\ Enqueue(c, m)
      BY <3>1, EnqueueFits DEF Inv, Event
    <3>2. CASE UNCHANGED send
      BY <3>2 DEF Inv, TypeOK, Channel
    <3> QED
      BY <1>4, <3>1, <3>2 DEF Visit
  <2>3. TypeOK'
    BY <1>1, <2>1, <2>2 DEF Inv, TypeOK, clientVars, Channel
  <2>4. \A k : Members(k)' = Members(k)
    BY <2>1 DEF Members
  <2>5. \A l \in Messages : todo'[l] \subseteq todo[l]
    BY <1>1, <2>1
  <2>6. VisitsOpenChannels'
    <3> SUFFICES ASSUME NEW l \in Messages, cast[l] = "rlocked", NEW d \in todo'[l]
                 PROVE  d \in Members(RoomOf[l]) /\ ~send'[d].closed
      BY <2>1, <2>4 DEF VisitsOpenChannels
    <3>1. d \in Clients /\ d \in Members(RoomOf[l]) /\ ~send[d].closed
      BY <1>1, <2>5 DEF Inv, VisitsOpenChannels
    <3> QED
      BY <2>2, <3>1
  <2> QED
    BY <1>2, <2>1, <2>2, <2>3, <2>6
<1>5. CASE EndIteration(m)
  <2>1. /\ UNCHANGED <<rooms, send, clientVars, todo, stale, audience>>
        /\ cast' \in [Messages -> {"none", "rlocked", "evicting", "done"}]
        /\ \A l \in Messages : cast'[l] = "rlocked" => cast[l] = "rlocked"
    BY <1>1, <1>5 DEF EndIteration
  <2>2. TypeOK'
    BY <2>1 DEF Inv, TypeOK, clientVars
  <2>3. \A k : Members(k)' = Members(k)
    BY <2>1 DEF Members
  <2>4. VisitsOpenChannels'
    BY <2>1, <2>3 DEF Inv, VisitsOpenChannels
  <2> QED
    BY <1>2, <2>1, <2>2, <2>4
<1>6. ASSUME NEW c \in Clients, Evict(m, c)
      PROVE  Inv'
  <2>1. /\ unregister(c) /\ Lockable
        /\ UNCHANGED <<handler, writer, conn, current, wire, todo, audience>>
        /\ stale' \in [Messages -> SUBSET Clients]
        /\ cast' \in [Messages -> {"none", "rlocked", "evicting", "done"}]
        /\ \A l \in Messages : cast'[l] = "rlocked" => cast[l] = "rlocked"
    BY <1>1, <1>6 DEF Evict, clientVars
  <2> QED
    BY <1>1, <2>1, UnregisterPreserves DEF Inv, TypeOK
<1> QED
  BY <1>3, <1>4, <1>5, <1>6 DEF Broadcast

\* The invariant holds in every state of every execution.
THEOREM HubInvariance == Spec => []Inv
<1>1. Init => Inv
  <2> SUFFICES ASSUME Init PROVE Inv
    OBVIOUS
  <2>1. \A k : Members(k) = {}
    BY DEF Init, Members
  <2>2. /\ \A c \in Clients : send[c] = [buffer |-> <<>>, closed |-> FALSE]
        /\ send \in [Clients -> Channel]
    BY DEF Init, Channel
  <2>3. TypeOK
    BY <2>2, HubAssumption DEF Init, TypeOK, Channel
  <2> QED
    BY <2>1, <2>2, <2>3
    DEF Init, Inv, WritesEvents, MemberWhileOpen, OwnRoomOnly, OpenBeforeRegister,
        VisitsOpenChannels, NoEmptyRooms
<1>2. Inv /\ [Next]_vars => Inv'
  <2> SUFFICES ASSUME Inv, [Next]_vars PROVE Inv'
    OBVIOUS
  <2>1. ASSUME NEW c \in Clients, Serve(c)
        PROVE  Inv'
    <3>1. CASE ReaderUnregisters(c)
      <4>1. /\ unregister(c) /\ Lockable
            /\ handler[c] = "unregister" /\ handler' = [handler EXCEPT ![c] = "done"]
            /\ UNCHANGED <<writer, conn, current, wire, cast, todo, stale, audience>>
        BY <3>1 DEF ReaderUnregisters, Step, castVars
      <4> QED
        BY <4>1, UnregisterPreserves DEF Inv, TypeOK
    <3> QED
      BY <2>1, <3>1, RegisterPreserves, ServeQuietly DEF Serve
  <2>2. ASSUME NEW c \in Clients, Pump(c) \/ PeerLeaves(c)
        PROVE  Inv'
    BY <2>2, PumpQuietly
  <2>3. ASSUME NEW m \in Messages, Broadcast(m)
        PROVE  Inv'
    BY <2>3, BroadcastPreserves
  <2>4. CASE UNCHANGED vars
    <3>1. UNCHANGED <<rooms, send, handler, writer, conn, current, wire, castVars>>
      BY <2>4 DEF vars, clientVars
    <3>2. TypeOK' /\ WritesEvents'
      BY <3>1 DEF Inv, TypeOK, WritesEvents, castVars
    <3> QED
      BY <3>1, <3>2, QuietSteps
  <2> QED
    BY <2>1, <2>2, <2>3, <2>4 DEF Next
<1> QED
  BY <1>1, <1>2, PTL DEF Spec

\* Types are kept and no channel holds more than its capacity.
THEOREM HubTyping == Spec => []TypeOK
<1>1. Inv => TypeOK
  BY DEF Inv
<1> QED
  BY <1>1, HubInvariance, PTL

\* Membership and an open channel are the same thing, whoever ends them
\* (websocket.go:89-100, 113-127).
THEOREM Membership == Spec => []MemberWhileOpen
<1>1. Inv => MemberWhileOpen
  BY DEF Inv
<1> QED
  BY <1>1, HubInvariance, PTL

\* A broadcast never sends on a closed channel (websocket.go:91).
THEOREM OpenChannels == Spec => []VisitsOpenChannels
<1>1. Inv => VisitsOpenChannels
  BY DEF Inv
<1> QED
  BY <1>1, HubInvariance, PTL

\* The map of rooms keeps no entry nobody is in (websocket.go:124-126).
THEOREM RoomsAreDropped == Spec => []NoEmptyRooms
<1>1. Inv => NoEmptyRooms
  BY DEF Inv
<1> QED
  BY <1>1, HubInvariance, PTL
==============================================================================
