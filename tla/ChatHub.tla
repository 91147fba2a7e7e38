------------------------------- MODULE ChatHub -------------------------------
(* The per-task chat rooms: internal/services/websocket/websocket.go.         *)
(*                                                                            *)
(* A client has two goroutines: the handler of its request (ServeTask, which  *)
(* turns into readPump) and writePump.  A broadcast runs in the goroutine of  *)
(* the request that stored the message (HandleCreateTaskMessage).  They share *)
(* the rooms under an RWMutex, and the buffered channel `send` of each client.*)
(*                                                                            *)
(* A section under mu.Lock() runs alone, so it is one step, taken when nobody *)
(* holds mu.RLock(); a broadcast holds the read lock over one step per        *)
(* client.  Pings, deadlines and the message limit only decide when a read or *)
(* a write fails: that is nondeterministic.                                   *)
EXTENDS Naturals, Sequences, FiniteSets

CONSTANTS
    Clients,            \* websocket connections
    Messages,           \* stored chat messages, broadcast once each
    Rooms,              \* task ids
    TaskOf,             \* the room each client asked for
    RoomOf,             \* the task each message belongs to
    sendBufferSize,     \* capacity of a client's send channel
    Connected,          \* the task_chat.connected event
    CloseFrame,         \* the close control frame
    NoEvent             \* writePump holds no event

ASSUME HubAssumption ==
    /\ TaskOf \in [Clients -> Rooms]
    /\ RoomOf \in [Messages -> Rooms]
    /\ sendBufferSize \in Nat \ {0}
    /\ Connected \notin Messages
    /\ {CloseFrame, NoEvent} \cap (Messages \cup {Connected}) = {}

VARIABLES
    rooms,      \* s.rooms: the clients of each room that has an entry
    handler,    \* where the handler of each client is
    writer,     \* where writePump is
    conn,       \* the connection
    send,       \* the send channel: its buffer and whether it is closed
    current,    \* the event writePump took and is writing
    wire,       \* history: the events and the close frame the peer got
    cast,       \* where the broadcast of each message is
    todo,       \* the clients a broadcast has yet to visit
    stale,      \* staleClients: the clients it found full
    audience    \* history: the clients of the room when it took the read lock

clientVars == <<handler, writer, conn, current, wire>>
castVars == <<cast, todo, stale, audience>>
vars == <<rooms, send, clientVars, castVars>>

Event == Messages \cup {Connected}

Init ==
    /\ rooms = [k \in {} |-> {}]
    /\ handler = [c \in Clients |-> "none"]
    /\ writer = [c \in Clients |-> "none"]
    /\ conn = [c \in Clients |-> "none"]
    /\ send = [c \in Clients |-> [buffer |-> <<>>, closed |-> FALSE]]
    /\ current = [c \in Clients |-> NoEvent]
    /\ wire = [c \in Clients |-> <<>>]
    /\ cast = [m \in Messages |-> "none"]
    /\ todo = [m \in Messages |-> {}]
    /\ stale = [m \in Messages |-> {}]
    /\ audience = [m \in Messages |-> {}]

------------------------------------------------------------------------------
(* The lock, the channels and the rooms.                                      *)

readers == {m \in Messages : cast[m] = "rlocked"}

\* Variant: register and unregister take the read lock too.
LockableByReaders == TRUE

Lockable == readers = {}

Members(k) == IF k \in DOMAIN rooms THEN rooms[k] ELSE {}

\* Variant: one event too many.
FullOffByOne(c) == Len(send[c].buffer) > sendBufferSize

Full(c) == Len(send[c].buffer) >= sendBufferSize

Enqueue(c, event) == send' = [send EXCEPT ![c].buffer = Append(@, event)]

\* register, with the write lock held.
register(c) ==
    LET k == TaskOf[c]
    IN rooms' = [room \in DOMAIN rooms \cup {k} |->
                    IF room = k THEN Members(k) \cup {c} ELSE rooms[room]]

\* Variant: the member stays in its room.
unregisterKeepsMember(c) ==
    /\ send' = [send EXCEPT ![c].closed = TRUE]
    /\ UNCHANGED rooms

\* Variant: the entry of an empty room stays.
unregisterKeepsRoom(c) ==
    /\ rooms' = [room \in DOMAIN rooms |-> rooms[room] \ {c}]
    /\ send' = [send EXCEPT ![c].closed = TRUE]

\* unregister, with the write lock held: nothing if c is no member.
unregister(c) ==
    LET k == TaskOf[c]
        rest == Members(k) \ {c}
    IN \/ /\ c \notin Members(k)
          /\ UNCHANGED <<rooms, send>>
       \/ /\ c \in Members(k)
          /\ rooms' = [room \in {r \in DOMAIN rooms : r # k \/ rest # {}} |->
                          IF room = k THEN rest ELSE rooms[room]]
          /\ send' = [send EXCEPT ![c].closed = TRUE]

------------------------------------------------------------------------------
(* ServeTask and readPump.                                                    *)

Step(c, from, to) ==
    /\ handler[c] = from
    /\ handler' = [handler EXCEPT ![c] = to]

\* upgrader.Upgrade: the peer sees the connection open from here on.
Upgrade(c) ==
    /\ Step(c, "none", "upgraded")
    /\ conn' = [conn EXCEPT ![c] = "open"]
    /\ UNCHANGED <<rooms, send, writer, current, wire, castVars>>

UpgradeFails(c) ==
    /\ Step(c, "none", "done")
    /\ UNCHANGED <<rooms, send, writer, conn, current, wire, castVars>>

Register(c) ==
    /\ Lockable
    /\ Step(c, "upgraded", "registered")
    /\ register(c)
    /\ UNCHANGED <<send, writer, conn, current, wire, castVars>>

\* connClient.send <- connected: waits for room in the buffer.
SendConnected(c) ==
    /\ ~send[c].closed
    /\ ~Full(c)
    /\ Step(c, "registered", "connected")
    /\ Enqueue(c, Connected)
    /\ UNCHANGED <<rooms, writer, conn, current, wire, castVars>>

\* The same send on a channel a broadcast has closed: a run-time panic, also
\* if it was waiting.  gin's recovery ends the request; no pump ever starts.
SendPanics(c) ==
    /\ send[c].closed
    /\ Step(c, "registered", "panicked")
    /\ UNCHANGED <<rooms, send, writer, conn, current, wire, castVars>>

\* go writePump(); readPump().
StartPumps(c) ==
    /\ Step(c, "connected", "reading")
    /\ writer' = [writer EXCEPT ![c] = "select"]
    /\ UNCHANGED <<rooms, send, conn, current, wire, castVars>>

\* Variant: readPump without its deferred unregister.
ReadFailsAndReturns(c) ==
    /\ Step(c, "reading", "done")
    /\ UNCHANGED <<rooms, send, writer, conn, current, wire, castVars>>

\* ReadMessage fails: the peer left, sent too much or sent no pong in time,
\* or writePump closed the connection.
ReadFails(c) ==
    /\ Step(c, "reading", "unregister")
    /\ UNCHANGED <<rooms, send, writer, conn, current, wire, castVars>>

\* The deferred unregister; the handler returns.
ReaderUnregisters(c) ==
    /\ Lockable
    /\ Step(c, "unregister", "done")
    /\ unregister(c)
    /\ UNCHANGED <<writer, conn, current, wire, castVars>>

------------------------------------------------------------------------------
(* writePump.                                                                 *)

\* event, ok := <-c.send, with ok.
Receive(c) ==
    /\ writer[c] = "select"
    /\ send[c].buffer # <<>>
    /\ current' = [current EXCEPT ![c] = Head(send[c].buffer)]
    /\ send' = [send EXCEPT ![c].buffer = Tail(@)]
    /\ writer' = [writer EXCEPT ![c] = "writing"]
    /\ UNCHANGED <<rooms, handler, conn, wire, castVars>>

\* A write that succeeds; a peer that is gone gets nothing.
Wire(c, frame) ==
    wire' = IF conn[c] = "open"
            THEN [wire EXCEPT ![c] = Append(@, frame)] ELSE wire

\* WriteJSON succeeds.
WriteEvent(c) ==
    /\ writer[c] = "writing"
    /\ Wire(c, current[c])
    /\ current' = [current EXCEPT ![c] = NoEvent]
    /\ writer' = [writer EXCEPT ![c] = "select"]
    /\ UNCHANGED <<rooms, send, handler, conn, castVars>>

\* Returning from writePump closes the connection.
ExitWriter(c) ==
    /\ writer' = [writer EXCEPT ![c] = "exited"]
    /\ current' = [current EXCEPT ![c] = NoEvent]
    /\ conn' = [conn EXCEPT ![c] = "closed"]
    /\ UNCHANGED <<rooms, send, handler, castVars>>

\* Variant: an error of WriteJSON is ignored.
WriteFailsAndGoesOn(c) ==
    /\ writer[c] = "writing"
    /\ writer' = [writer EXCEPT ![c] = "select"]
    /\ current' = [current EXCEPT ![c] = NoEvent]
    /\ UNCHANGED <<rooms, send, handler, conn, wire, castVars>>

\* WriteJSON or a ping fails: the peer is gone or does not read in time.
WriteFails(c) ==
    /\ writer[c] \in {"writing", "select"}
    /\ ExitWriter(c)
    /\ UNCHANGED wire

\* The channel is closed and drained: a Close frame, and the end.
ChannelClosed(c) ==
    /\ writer[c] = "select"
    /\ send[c].closed
    /\ send[c].buffer = <<>>
    /\ ExitWriter(c)
    /\ Wire(c, CloseFrame)

PeerLeaves(c) ==
    /\ conn[c] = "open"
    /\ conn' = [conn EXCEPT ![c] = "gone"]
    /\ UNCHANGED <<rooms, send, handler, writer, current, wire, castVars>>

------------------------------------------------------------------------------
(* BroadcastTaskMessage.                                                      *)

\* mu.RLock() and the start of the iteration.
BeginBroadcast(m) ==
    /\ cast[m] = "none"
    /\ cast' = [cast EXCEPT ![m] = "rlocked"]
    /\ todo' = [todo EXCEPT ![m] = Members(RoomOf[m])]
    /\ audience' = [audience EXCEPT ![m] = Members(RoomOf[m])]
    /\ UNCHANGED <<rooms, send, clientVars, stale>>

\* Variant: a full client is skipped and kept.
VisitAndForget(m, c) ==
    /\ cast[m] = "rlocked"
    /\ c \in todo[m]
    /\ todo' = [todo EXCEPT ![m] = @ \ {c}]
    /\ IF Full(c) THEN UNCHANGED send ELSE Enqueue(c, m)
    /\ UNCHANGED <<rooms, clientVars, cast, stale, audience>>

\* Variant: a plain send, which waits for room in the buffer.
VisitAndWait(m, c) ==
    /\ cast[m] = "rlocked"
    /\ c \in todo[m]
    /\ ~Full(c)
    /\ todo' = [todo EXCEPT ![m] = @ \ {c}]
    /\ Enqueue(c, m)
    /\ UNCHANGED <<rooms, clientVars, cast, stale, audience>>

\* One client of the room: the event goes into its buffer, or it is stale.
Visit(m, c) ==
    /\ cast[m] = "rlocked"
    /\ c \in todo[m]
    /\ todo' = [todo EXCEPT ![m] = @ \ {c}]
    /\ \/ /\ ~Full(c)
          /\ Enqueue(c, m)
          /\ UNCHANGED stale
       \/ /\ Full(c)
          /\ stale' = [stale EXCEPT ![m] = @ \cup {c}]
          /\ UNCHANGED send
    /\ UNCHANGED <<rooms, clientVars, cast, audience>>

\* Variant: nobody unregisters the stale clients.
EndIterationOnly(m) ==
    /\ cast[m] = "rlocked"
    /\ todo[m] = {}
    /\ cast' = [cast EXCEPT ![m] = "done"]
    /\ UNCHANGED <<rooms, send, clientVars, todo, stale, audience>>

\* mu.RUnlock().
EndIteration(m) ==
    /\ cast[m] = "rlocked"
    /\ todo[m] = {}
    /\ cast' = [cast EXCEPT ![m] = IF stale[m] = {} THEN "done" ELSE "evicting"]
    /\ UNCHANGED <<rooms, send, clientVars, todo, stale, audience>>

\* s.unregister(client) for one of the stale clients.
Evict(m, c) ==
    /\ Lockable
    /\ cast[m] = "evicting"
    /\ c \in stale[m]
    /\ unregister(c)
    /\ stale' = [stale EXCEPT ![m] = @ \ {c}]
    /\ cast' = [cast EXCEPT ![m] = IF stale[m] = {c} THEN "done" ELSE @]
    /\ UNCHANGED <<clientVars, todo, audience>>

------------------------------------------------------------------------------

Serve(c) ==
    \/ Upgrade(c) \/ UpgradeFails(c) \/ Register(c)
    \/ SendConnected(c) \/ SendPanics(c) \/ StartPumps(c)
    \/ ReadFails(c) \/ ReaderUnregisters(c)

Pump(c) == Receive(c) \/ WriteEvent(c) \/ WriteFails(c) \/ ChannelClosed(c)

Broadcast(m) ==
    \/ BeginBroadcast(m)
    \/ \E c \in Clients : Visit(m, c) \/ Evict(m, c)
    \/ EndIteration(m)

Next ==
    \/ \E c \in Clients : Serve(c) \/ Pump(c) \/ PeerLeaves(c)
    \/ \E m \in Messages : Broadcast(m)

Spec == Init /\ [][Next]_vars

\* Goroutines that can run do, and a read on a dead connection fails: by the
\* pong deadline at the latest.  Nothing makes a client come, stay or leave, a
\* broadcast begin, or a read or a write on a live connection fail.
ServeFairly(c) ==
    /\ WF_vars(Register(c))
    /\ WF_vars(SendConnected(c))
    /\ WF_vars(SendPanics(c))
    /\ WF_vars(StartPumps(c))
    /\ WF_vars(conn[c] # "open" /\ ReadFails(c))
    /\ WF_vars(ReaderUnregisters(c))
PumpFairly(c) ==
    /\ WF_vars(Receive(c))
    /\ WF_vars(WriteEvent(c) \/ (writer[c] = "writing" /\ WriteFails(c)))
    /\ WF_vars(ChannelClosed(c))
BroadcastFairly(m) ==
    /\ WF_vars(EndIteration(m))
    /\ \A c \in Clients : WF_vars(Visit(m, c)) /\ WF_vars(Evict(m, c))

FairSpec ==
    /\ Spec
    /\ \A c \in Clients : ServeFairly(c) /\ PumpFairly(c)
    /\ \A m \in Messages : BroadcastFairly(m)

------------------------------------------------------------------------------
(* Properties.                                                                *)

\* Every variable holds what its declaration says, and no channel more events
\* than its capacity.
TypeOK ==
    /\ DOMAIN rooms \subseteq Rooms
    /\ \A k \in DOMAIN rooms : rooms[k] \subseteq Clients
    /\ handler \in [Clients -> {"none", "upgraded", "registered", "connected",
                               "reading", "unregister", "done", "panicked"}]
    /\ writer \in [Clients -> {"none", "select", "writing", "exited"}]
    /\ conn \in [Clients -> {"none", "open", "gone", "closed"}]
    /\ send \in [Clients -> [buffer: Seq(Event), closed: BOOLEAN]]
    /\ \A c \in Clients : Len(send[c].buffer) <= sendBufferSize
    /\ wire \in [Clients -> Seq(Event \cup {CloseFrame})]
    /\ current \in [Clients -> Event \cup {NoEvent}]
    /\ cast \in [Messages -> {"none", "rlocked", "evicting", "done"}]
    /\ {todo, stale, audience} \subseteq [Messages -> SUBSET Clients]

\* Between register and unregister a client is a member exactly while its
\* channel is open, whoever closes it: readPump, or any of several broadcasts
\* that found it full (websocket.go:89-100, 113-127, 130).
MemberWhileOpen ==
    \A c \in Clients :
        c \in Members(TaskOf[c]) <=>
            /\ handler[c] \in {"registered", "connected", "reading", "unregister"}
            /\ ~send[c].closed

\* No broadcast sends on a closed channel: what it has yet to visit are
\* members, although clients come and go (the send at line 91 would panic).
VisitsOpenChannels ==
    \A m \in Messages :
        cast[m] = "rlocked" =>
            \A c \in todo[m] : c \in Members(RoomOf[m]) /\ ~send[c].closed

\* s.rooms keeps no entry for a room that everybody left.
NoEmptyRooms == \A k \in DOMAIN rooms : rooms[k] # {}

\* What c is being sent and will be sent, and what it was sent before.
Coming(c) ==
    (IF current[c] = NoEvent THEN <<>> ELSE <<current[c]>>) \o send[c].buffer
Stream(c) == wire[c] \o Coming(c)

Occurrences(m, c) ==
    Cardinality({i \in 1..Len(Stream(c)) : Stream(c)[i] = m})

\* A message reaches exactly the clients that were in its room, each once;
\* one that misses it is on the way out: about to be evicted, closed, or its
\* connection has failed.
NoSilentLoss ==
    \A m \in Messages, c \in Clients :
        /\ c \notin audience[m] \ todo[m] => Occurrences(m, c) = 0
        /\ c \in audience[m] \ todo[m] =>
               \/ Occurrences(m, c) = 1
               \/ /\ Occurrences(m, c) = 0
                  /\ \/ c \in stale[m]
                     \/ send[c].closed
                     \/ conn[c] # "open"
        /\ c \in audience[m] => TaskOf[c] = RoomOf[m]

\* What the peer of c was sent and will be sent, its room and its stream, in the
\* terms of ChatRoom.
Place(c) ==
    IF handler[c] \in {"none", "upgraded"} THEN "out"
    ELSE IF c \in Members(TaskOf[c]) THEN "in" ELSE "gone"

RoomView(c) ==
    LET ending == send[c].closed \/ \E m \in Messages : c \in stale[m]
        broken == conn[c] \in {"gone", "closed"}
    IN [place |-> Place(c),
        settled |-> {m \in Messages : cast[m] # "none" /\ c \notin todo[m]},
        queue |-> IF broken THEN <<>> ELSE Coming(c),
        received |-> wire[c],
        stream |-> IF broken THEN "broken" ELSE IF ending THEN "ending" ELSE "whole"]

roomView == [c \in Clients |-> RoomView(c)]

Room == INSTANCE ChatRoom WITH
    view <- roomView,
    Addressed <- [c \in Clients |-> {m \in Messages : RoomOf[m] = TaskOf[c]}],
    Greeting <- Connected,
    Farewell <- CloseFrame

\* Through locks, channels, pumps and evictions every client sees a room that
\* it joins, whose messages it gets once each in the order they were queued,
\* and that it leaves for good, having missed none before its stream ended;
\* the close frame comes last: see ChatRoom (websocket.go:57-171).
ImplementsRoom == Room!Spec

\* No client, however slow or stuck, keeps a broadcast, and with it the answer
\* to the request that sent the message, from ending.
BroadcastsEnd == \A m \in Messages : cast[m] = "rlocked" ~> cast[m] = "done"

\* A client that missed a message is disconnected, so that it reconnects and
\* lists the messages instead of going on with a gap; unless its handler
\* panicked, and with it the only owner of the connection.
SkippedAreDisconnected ==
    \A m \in Messages, c \in Clients :
        c \in stale[m] ~> (conn[c] = "closed" \/ handler[c] = "panicked")

\* Once a connection is dead both goroutines of its client end and the room
\* forgets it.
GoroutinesEnd ==
    \A c \in Clients :
        (handler[c] = "reading" /\ conn[c] # "open") ~>
            /\ handler[c] = "done"
            /\ writer[c] = "exited"
            /\ c \notin Members(TaskOf[c])

\* handlers_chat_ws_test.go:50-55, which has one connection and no broadcasts: a
\* peer that connects gets the connected event.  As long as its connection is
\* open it has the event, or the event is on its way, or the handler has yet to
\* send it.
ConnectedArrives ==
    \A c \in Clients :
        conn[c] = "open" =>
            \/ handler[c] \in {"upgraded", "registered"}
            \/ \E i \in 1..Len(Stream(c)) : Stream(c)[i] = Connected
==============================================================================
