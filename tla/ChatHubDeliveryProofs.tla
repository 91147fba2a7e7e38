------------------------- MODULE ChatHubDeliveryProofs -------------------------
(* What the hub does with a message, for any number of clients, rooms and      *)
(* messages and any capacity: a member of the room gets it once, or is on its  *)
(* way out; and every client sees the room that ChatRoom describes.  Where an  *)
(* event may be, in a buffer, in the hands of a writePump or on the wire, is   *)
(* accounted for against what the broadcasts have done.                        *)
EXTENDS ChatHubProofs, RoomViews, Functions, FiniteSetTheorems,
        SequenceTheorems

\* What c was or will be sent, as a set.
Held(c) == IF current[c] = NoEvent THEN {} ELSE {current[c]}
Sent(c) == Range(wire[c]) \cup Held(c) \cup Range(send[c].buffer)

\* Nothing is in two places, or twice in one.
OnceEach(c) ==
    /\ IsInjective(wire[c]) /\ IsInjective(send[c].buffer)
    /\ Range(wire[c]) \cap Range(send[c].buffer) = {}
    /\ Held(c) \cap (Range(wire[c]) \cup Range(send[c].buffer)) = {}

\* How far the two goroutines of c may be apart.
Stages(c) ==
    /\ writer[c] # "writing" => current[c] = NoEvent
    /\ writer[c] # "none" => conn[c] # "none"
    /\ handler[c] = "none" => conn[c] = "none"
    /\ handler[c] \notin {"none", "done"} => conn[c] # "none"
    /\ handler[c] \in {"none", "upgraded", "registered", "connected"} =>
           writer[c] = "none" /\ wire[c] = <<>>
    /\ handler[c] \in {"none", "upgraded", "registered"} =>
           Connected \notin Range(send[c].buffer)
    /\ CloseFrame \in Range(wire[c]) => writer[c] = "exited"

\* m is where the broadcast put it, or c misses it and is on its way out.
Accounted(m, c) ==
    /\ m \in Sent(c) => c \in audience[m] \ todo[m]
    /\ c \in audience[m] \ todo[m] =>
           \/ m \in Sent(c)
           \/ c \in stale[m] \/ send[c].closed \/ conn[c] # "open"
    /\ c \in audience[m] =>
           TaskOf[c] = RoomOf[m] /\ handler[c] \notin {"none", "upgraded"}
    /\ c \in stale[m] => c \in Members(TaskOf[c]) \/ send[c].closed

\* A broadcast visits whom it found, and found nobody before it began.
CastsAreSound ==
    \A m \in Messages :
        /\ todo[m] \subseteq audience[m]
        /\ cast[m] = "none" => audience[m] = {}

\* The inductive invariant of the delivery, next to Inv.
Delivery ==
    /\ CastsAreSound
    /\ \A c \in Clients : OnceEach(c) /\ Stages(c)
    /\ \A m \in Messages, c \in Clients : Accounted(m, c)

------------------------------------------------------------------------------
(* Sequences.                                                                 *)

\* A sequence that takes an element it does not have.
LEMMA AppendNew ==
    ASSUME NEW S, NEW f \in Seq(S), NEW x \in S, x \notin Range(f), IsInjective(f)
    PROVE  /\ IsInjective(Append(f, x))
           /\ Range(Append(f, x)) = Range(f) \cup {x}
<1> DEFINE g == Append(f, x)
<1>1. /\ DOMAIN f = 1..Len(f) /\ Len(f) \in Nat
      /\ DOMAIN g = 1..(Len(f) + 1) /\ g[Len(f) + 1] = x
      /\ \A i \in 1..Len(f) : g[i] = f[i]
  OBVIOUS
<1> HIDE DEF g
<1>2. /\ \A i \in DOMAIN g : (i \in DOMAIN f /\ g[i] = f[i]) \/ (i = Len(f) + 1 /\ g[i] = x)
      /\ \A i \in DOMAIN f : i \in DOMAIN g /\ g[i] = f[i]
      /\ Len(f) + 1 \in DOMAIN g
  BY <1>1
<1>3. Range(g) \subseteq Range(f) \cup {x} /\ Range(f) \cup {x} \subseteq Range(g)
  BY <1>1, <1>2 DEF Range
<1>4. IsInjective(g)
  BY <1>2 DEF Range, IsInjective
<1> QED
  BY <1>3, <1>4 DEF g

\* One whose first element is taken.
LEMMA TakeHead ==
    ASSUME NEW S, NEW f \in Seq(S), f # <<>>, IsInjective(f)
    PROVE  /\ IsInjective(Tail(f))
           /\ Range(f) = {Head(f)} \cup Range(Tail(f))
           /\ Head(f) \notin Range(Tail(f))
<1>1. /\ Len(f) \in Nat \ {0} /\ DOMAIN f = 1..Len(f)
      /\ DOMAIN Tail(f) = 1..(Len(f) - 1)
      /\ \A i \in DOMAIN Tail(f) : Tail(f)[i] = f[i + 1]
      /\ Head(f) = f[1]
  OBVIOUS
<1>2. \A i \in DOMAIN f : i = 1 \/ (i - 1 \in DOMAIN Tail(f) /\ f[i] = Tail(f)[i - 1])
  BY <1>1
<1>3. \A i \in DOMAIN Tail(f) : i + 1 \in DOMAIN f /\ i + 1 # 1
  BY <1>1
<1>4. IsInjective(Tail(f))
  BY <1>1, <1>3 DEF IsInjective
<1>5. Range(f) = {Head(f)} \cup Range(Tail(f))
  <2>1. Range(f) \subseteq {Head(f)} \cup Range(Tail(f))
    BY <1>1, <1>2 DEF Range
  <2>2. {Head(f)} \cup Range(Tail(f)) \subseteq Range(f)
    BY <1>1, <1>3 DEF Range
  <2> QED
    BY <2>1, <2>2
<1>6. Head(f) \notin Range(Tail(f))
  BY <1>1, <1>3 DEF IsInjective, Range
<1> QED
  BY <1>4, <1>5, <1>6

\* Two sequences one after the other.
LEMMA ConcatDisjoint ==
    ASSUME NEW S, NEW f \in Seq(S), NEW g \in Seq(S),
           IsInjective(f), IsInjective(g), Range(f) \cap Range(g) = {}
    PROVE  /\ f \o g \in Seq(S) /\ IsInjective(f \o g)
           /\ Range(f \o g) = Range(f) \cup Range(g)
<1>1. /\ f \o g \in Seq(S) /\ DOMAIN (f \o g) = 1..(Len(f) + Len(g))
      /\ Len(f) \in Nat /\ Len(g) \in Nat
      /\ DOMAIN f = 1..Len(f) /\ DOMAIN g = 1..Len(g)
      /\ \A i \in 1..(Len(f) + Len(g)) :
            (f \o g)[i] = IF i <= Len(f) THEN f[i] ELSE g[i - Len(f)]
  OBVIOUS
<1>2. /\ \A i \in DOMAIN f : i \in DOMAIN (f \o g) /\ (f \o g)[i] = f[i]
      /\ \A i \in DOMAIN g : /\ i + Len(f) \in DOMAIN (f \o g)
                             /\ (f \o g)[i + Len(f)] = g[i]
  BY <1>1
<1>3. \A i \in DOMAIN (f \o g) :
          \/ i \in DOMAIN f /\ (f \o g)[i] = f[i]
          \/ /\ i - Len(f) \in DOMAIN g /\ (f \o g)[i] = g[i - Len(f)]
             /\ i > Len(f)
  BY <1>1
<1>4. Range(f \o g) = Range(f) \cup Range(g)
  <2>1. Range(f \o g) \subseteq Range(f) \cup Range(g)
    BY <1>3 DEF Range
  <2>2. Range(f) \subseteq Range(f \o g)
    BY <1>2 DEF Range
  <2>3. Range(g) \subseteq Range(f \o g)
    BY <1>2 DEF Range
  <2> QED
    BY <2>1, <2>2, <2>3
<1>5. IsInjective(f \o g)
  <2> SUFFICES ASSUME NEW i \in DOMAIN (f \o g), NEW j \in DOMAIN (f \o g),
                      (f \o g)[i] = (f \o g)[j]
               PROVE  i = j
    BY DEF IsInjective
  <2>1. CASE i \in DOMAIN f /\ (f \o g)[i] = f[i]
    <3>1. CASE j \in DOMAIN f /\ (f \o g)[j] = f[j]
      BY <2>1, <3>1 DEF IsInjective
    <3>2. CASE j - Len(f) \in DOMAIN g /\ (f \o g)[j] = g[j - Len(f)]
      BY <2>1, <3>2 DEF Range
    <3> QED
      BY <1>3, <3>1, <3>2
  <2>2. CASE /\ i - Len(f) \in DOMAIN g /\ (f \o g)[i] = g[i - Len(f)]
             /\ i > Len(f)
    <3>1. CASE j \in DOMAIN f /\ (f \o g)[j] = f[j]
      BY <2>2, <3>1 DEF Range
    <3>2. CASE j - Len(f) \in DOMAIN g /\ (f \o g)[j] = g[j - Len(f)]
      <4>1. i - Len(f) = j - Len(f)
        BY <2>2, <3>2 DEF IsInjective
      <4> QED
        BY <1>1, <4>1
    <3> QED
      BY <1>3, <3>1, <3>2
  <2> QED
    BY <1>3, <2>1, <2>2
<1> QED
  BY <1>1, <1>4, <1>5

------------------------------------------------------------------------------
(* The steps of a client, while the broadcasts stand still.                   *)

LEMMA Types ==
    ASSUME Inv, NEW c \in Clients
    PROVE  /\ send[c].buffer \in Seq(Event) /\ send[c].closed \in BOOLEAN
           /\ wire[c] \in Seq(Event \cup {CloseFrame})
           /\ current[c] \in Event \cup {NoEvent}
           /\ NoEvent \notin Event /\ CloseFrame \notin Event
           /\ Connected \in Event \ Messages /\ Messages \subseteq Event
  BY HubAssumption DEF Inv, TypeOK, Event

\* What is known of a client that a step leaves alone.
LEMMA Bystander ==
    ASSUME NEW c \in Clients, OnceEach(c), Stages(c),
           /\ handler'[c] = handler[c] /\ writer'[c] = writer[c]
           /\ conn'[c] = conn[c] /\ current'[c] = current[c]
           /\ wire'[c] = wire[c] /\ send'[c].buffer = send[c].buffer
    PROVE  OnceEach(c)' /\ Stages(c)' /\ Sent(c)' = Sent(c)
  BY DEF OnceEach, Stages, Sent, Held

\* What c may do to what a broadcast left of it: it loses nothing while its
\* connection is open, it is not reopened, and it leaves its room closed.
Keeps(c) ==
    /\ \A m \in Messages : /\ m \in Sent(c)' => m \in Sent(c)
                           /\ m \in Sent(c) => m \in Sent(c)' \/ conn'[c] # "open"
    /\ send[c].closed => send'[c].closed
    /\ conn[c] # "open" => conn'[c] # "open" \/ handler[c] = "none"
    /\ handler'[c] \in {"none", "upgraded"} => handler[c] \in {"none", "upgraded"}
    /\ c \in Members(TaskOf[c]) => (c \in Members(TaskOf[c]))' \/ send'[c].closed

LEMMA ClientStep ==
    ASSUME Delivery, UNCHANGED castVars,
           \A c \in Clients : OnceEach(c)' /\ Stages(c)' /\ Keeps(c)
    PROVE  Delivery'
<1>1. UNCHANGED <<cast, todo, stale, audience>>
  BY DEF castVars
<1>2. ASSUME NEW m \in Messages, NEW c \in Clients PROVE Accounted(m, c)'
  BY <1>1 DEF Delivery, Accounted, Keeps
<1> QED
  BY <1>1, <1>2 DEF Delivery, CastsAreSound

\* The same for one client that moves while the rooms stay as they are.
LEMMA LocalStep ==
    ASSUME Delivery, NEW c \in Clients, UNCHANGED <<castVars, rooms>>,
           \A d \in Clients \ {c} :
               /\ handler'[d] = handler[d] /\ writer'[d] = writer[d]
               /\ conn'[d] = conn[d] /\ current'[d] = current[d]
               /\ wire'[d] = wire[d] /\ send'[d] = send[d],
           OnceEach(c)', Stages(c)', Keeps(c)
    PROVE  Delivery'
<1>1. ASSUME NEW d \in Clients \ {c}
      PROVE  OnceEach(d)' /\ Stages(d)' /\ Keeps(d)
  <2>1. OnceEach(d)' /\ Stages(d)' /\ Sent(d)' = Sent(d)
    BY Bystander DEF Delivery
  <2> QED
    BY <2>1 DEF Keeps, Members
<1> QED
  BY <1>1, ClientStep

LEMMA UpgradeDelivers ==
    ASSUME Inv, Delivery, NEW c \in Clients,
           Upgrade(c) \/ UpgradeFails(c) \/ SendPanics(c) \/ StartPumps(c) \/ ReadFails(c)
    PROVE  Delivery'
<1>1. /\ UNCHANGED <<castVars, rooms, send, current, wire>>
      /\ \A d \in Clients \ {c} :
            handler'[d] = handler[d] /\ writer'[d] = writer[d] /\ conn'[d] = conn[d]
      /\ \/ handler[c] = "none" /\ handler'[c] = "upgraded"
            /\ writer'[c] = writer[c] /\ conn'[c] = "open"
         \/ handler[c] = "none" /\ handler'[c] = "done"
            /\ writer'[c] = writer[c] /\ conn'[c] = conn[c]
         \/ handler[c] = "registered" /\ handler'[c] = "panicked"
            /\ writer'[c] = writer[c] /\ conn'[c] = conn[c]
         \/ handler[c] = "connected" /\ handler'[c] = "reading"
            /\ writer'[c] = "select" /\ conn'[c] = conn[c]
         \/ handler[c] = "reading" /\ handler'[c] = "unregister"
            /\ writer'[c] = writer[c] /\ conn'[c] = conn[c]
  BY DEF Inv, TypeOK, Upgrade, UpgradeFails, SendPanics, StartPumps, ReadFails, Step
<1>2. OnceEach(c) /\ Stages(c)
  BY DEF Delivery
<1>3. OnceEach(c)' /\ Sent(c)' = Sent(c)
  BY <1>1, <1>2 DEF OnceEach, Sent, Held
<1>4. Stages(c)'
  <2>1. Range(<<>>) = {}
    BY DEF Range
  <2> QED
    BY <1>1, <1>2, <2>1 DEF Stages
<1>5. Keeps(c)
  BY <1>1, <1>3 DEF Keeps, Members
<1> QED
  BY <1>1, <1>3, <1>4, <1>5, LocalStep

LEMMA SendConnectedDelivers ==
    ASSUME Inv, Delivery, NEW c \in Clients, SendConnected(c)
    PROVE  Delivery'
<1> DEFINE b == Append(send[c].buffer, Connected)
<1>1. /\ UNCHANGED <<castVars, rooms, writer, conn, current, wire>>
      /\ handler[c] = "registered" /\ handler'[c] = "connected"
      /\ send'[c].buffer = b /\ send'[c].closed = send[c].closed
      /\ \A d \in Clients \ {c} : handler'[d] = handler[d] /\ send'[d] = send[d]
  BY DEF Inv, TypeOK, SendConnected, Step, Enqueue
<1>2. /\ OnceEach(c) /\ Stages(c)
      /\ writer[c] = "none" /\ wire[c] = <<>> /\ current[c] = NoEvent
      /\ Connected \notin Range(send[c].buffer)
  BY <1>1 DEF Delivery, Stages
<1>3. IsInjective(b) /\ Range(b) = Range(send[c].buffer) \cup {Connected}
  BY <1>2, Types, AppendNew DEF OnceEach
<1>4. Range(<<>>) = {}
  BY DEF Range
<1> HIDE DEF b
<1>5. OnceEach(c)' /\ Sent(c)' = Sent(c) \cup {Connected}
  BY <1>1, <1>2, <1>3, <1>4 DEF OnceEach, Sent, Held
<1>6. Stages(c)'
  BY <1>1, <1>2 DEF Stages
<1>7. Keeps(c)
  BY <1>1, <1>5, Types DEF Keeps, Members
<1> QED
  BY <1>1, <1>5, <1>6, <1>7, LocalStep

\* The two sections under the write lock.
LEMMA LockedDelivers ==
    ASSUME Inv, Delivery, NEW c \in Clients, Register(c) \/ ReaderUnregisters(c)
    PROVE  Delivery'
<1>1. /\ UNCHANGED <<castVars, writer, conn, current, wire>>
      /\ \A d \in Clients : handler'[d] = handler[d]
            \/ (d = c /\ handler[d] = "upgraded" /\ handler'[d] = "registered")
            \/ (d = c /\ handler[d] = "unregister" /\ handler'[d] = "done")
  BY DEF Inv, TypeOK, Register, ReaderUnregisters, Step
<1>2. ASSUME NEW d \in Clients
      PROVE  /\ send'[d].buffer = send[d].buffer
             /\ send[d].closed => send'[d].closed
             /\ d \in Members(TaskOf[d]) =>
                    (d \in Members(TaskOf[d]))' \/ send'[d].closed
  <2>1. TaskOf[d] \in Rooms
    BY HubAssumption
  <2>2. CASE Register(c)
    BY <2>1, <2>2, RegisterJoins DEF Register
  <2>3. CASE ReaderUnregisters(c)
    BY <2>1, <2>3, UnregisterLeaves, SMTT(30) DEF ReaderUnregisters
  <2> QED
    BY <2>2, <2>3
<1>3. ASSUME NEW d \in Clients PROVE OnceEach(d)' /\ Stages(d)' /\ Keeps(d)
  <2>1. OnceEach(d) /\ Stages(d)
    BY DEF Delivery
  <2>2. OnceEach(d)' /\ Sent(d)' = Sent(d)
    BY <1>1, <1>2, <2>1 DEF OnceEach, Sent, Held
  <2>3. Stages(d)'
    BY <1>1, <1>2, <2>1 DEF Stages
  <2> QED
    BY <1>1, <1>2, <2>2, <2>3 DEF Keeps
<1> QED
  BY <1>1, <1>3, ClientStep

\* An event goes from the channel into the hands of writePump.
LEMMA ReceiveDelivers ==
    ASSUME Inv, Delivery, NEW c \in Clients, Receive(c)
    PROVE  Delivery'
<1> DEFINE b == send[c].buffer
<1>1. /\ UNCHANGED <<castVars, rooms, handler, conn, wire>>
      /\ writer[c] = "select" /\ writer'[c] = "writing"
      /\ b # <<>> /\ send'[c].buffer = Tail(b) /\ send'[c].closed = send[c].closed
      /\ current'[c] = Head(b)
      /\ \A d \in Clients \ {c} : /\ writer'[d] = writer[d] /\ send'[d] = send[d]
                                  /\ current'[d] = current[d]
  BY DEF Inv, TypeOK, Receive
<1>2. /\ OnceEach(c) /\ Stages(c) /\ current[c] = NoEvent
  BY <1>1 DEF Delivery, Stages
<1>3. /\ IsInjective(Tail(b)) /\ Range(b) = {Head(b)} \cup Range(Tail(b))
      /\ Head(b) \notin Range(Tail(b))
  BY <1>1, <1>2, Types, TakeHead DEF OnceEach
<1>4. Head(b) # NoEvent
  BY <1>1, Types
<1>5. /\ Held(c) = {} /\ Held(c)' = {Head(b)}
  BY <1>1, <1>2, <1>4 DEF Held
<1>6. OnceEach(c)' /\ Sent(c)' = Sent(c)
  BY <1>1, <1>2, <1>3, <1>5 DEF OnceEach, Sent
<1>7. Stages(c)'
  BY <1>1, <1>2, <1>3 DEF Stages
<1>8. Keeps(c)
  BY <1>1, <1>6 DEF Keeps, Members
<1> QED
  BY <1>1, <1>6, <1>7, <1>8, LocalStep

\* And from there to the peer, or nowhere when the peer is gone.
LEMMA WriteDelivers ==
    ASSUME Inv, Delivery, NEW c \in Clients, WriteEvent(c)
    PROVE  Delivery'
<1>1. /\ UNCHANGED <<castVars, rooms, handler, conn, send>>
      /\ writer[c] = "writing" /\ writer'[c] = "select" /\ current'[c] = NoEvent
      /\ \/ conn[c] = "open" /\ wire'[c] = Append(wire[c], current[c])
         \/ conn[c] # "open" /\ wire'[c] = wire[c]
      /\ \A d \in Clients \ {c} : /\ writer'[d] = writer[d] /\ wire'[d] = wire[d]
                                  /\ current'[d] = current[d]
  BY DEF Inv, TypeOK, WriteEvent, Wire
<1>2. /\ OnceEach(c) /\ Stages(c) /\ current[c] \in Event
      /\ Held(c) = {current[c]} /\ Held(c)' = {}
      /\ wire[c] \in Seq(Event \cup {CloseFrame})
  BY <1>1, Types DEF Delivery, Inv, WritesEvents, Held
<1>3. /\ IsInjective(Append(wire[c], current[c]))
      /\ Range(Append(wire[c], current[c])) = Range(wire[c]) \cup {current[c]}
  BY <1>2, AppendNew DEF OnceEach
<1>4. /\ OnceEach(c)' /\ Sent(c)' \subseteq Sent(c)
      /\ Sent(c) \subseteq Sent(c)' \/ conn[c] # "open"
      /\ CloseFrame \in Range(wire'[c]) => CloseFrame \in Range(wire[c])
  BY <1>1, <1>2, <1>3, Types DEF OnceEach, Sent
<1>5. Stages(c)'
  BY <1>1, <1>2, <1>4 DEF Stages
<1>6. Keeps(c)
  BY <1>1, <1>4 DEF Keeps, Members
<1> QED
  BY <1>1, <1>4, <1>5, <1>6, LocalStep

\* The ends of a connection: what was not written is lost with it.
LEMMA EndDelivers ==
    ASSUME Inv, Delivery, NEW c \in Clients,
           WriteFails(c) \/ ChannelClosed(c) \/ PeerLeaves(c)
    PROVE  Delivery'
<1>1. /\ UNCHANGED <<castVars, rooms, handler, send>>
      /\ conn'[c] \in {"gone", "closed"}
      /\ \/ /\ writer[c] # "none" /\ writer'[c] = "exited" /\ current'[c] = NoEvent
            /\ \/ wire'[c] = wire[c]
               \/ writer[c] = "select" /\ wire'[c] = Append(wire[c], CloseFrame)
         \/ UNCHANGED <<writer, current, wire>> /\ conn[c] = "open"
      /\ \A d \in Clients \ {c} : /\ writer'[d] = writer[d] /\ wire'[d] = wire[d]
                                  /\ current'[d] = current[d] /\ conn'[d] = conn[d]
  BY DEF Inv, TypeOK, WriteFails, ChannelClosed, PeerLeaves, ExitWriter, Wire
<1>2. OnceEach(c) /\ Stages(c)
  BY DEF Delivery
<1>3. CASE wire'[c] = wire[c] /\ Held(c)' \subseteq Held(c)
  <2>1. OnceEach(c)' /\ Sent(c)' \subseteq Sent(c)
    BY <1>1, <1>2, <1>3 DEF OnceEach, Sent
  <2>2. Stages(c)'
    BY <1>1, <1>2, <1>3 DEF Stages
  <2>3. Keeps(c)
    BY <1>1, <2>1 DEF Keeps, Members
  <2> QED
    BY <1>1, <2>1, <2>2, <2>3, LocalStep
<1>4. CASE /\ writer[c] = "select" /\ writer'[c] = "exited" /\ Held(c)' = {}
           /\ current'[c] = NoEvent
           /\ wire'[c] = Append(wire[c], CloseFrame)
  <2>1. CloseFrame \notin Range(wire[c]) /\ CloseFrame \notin Range(send[c].buffer)
    BY <1>2, <1>4, Types DEF Stages, Range
  <2>2. /\ IsInjective(wire'[c])
        /\ Range(wire'[c]) = Range(wire[c]) \cup {CloseFrame}
    BY <1>2, <1>4, <2>1, Types, AppendNew DEF OnceEach
  <2>3. OnceEach(c)' /\ Sent(c)' \subseteq Sent(c) \cup {CloseFrame}
    BY <1>1, <1>2, <1>4, <2>1, <2>2 DEF OnceEach, Sent
  <2>4. Stages(c)'
    BY <1>1, <1>2, <1>4 DEF Stages
  <2>5. CloseFrame \notin Messages
    BY Types
  <2>6. Keeps(c)
    BY <1>1, <2>3, <2>5 DEF Keeps, Members
  <2> QED
    BY <1>1, <2>3, <2>4, <2>6, LocalStep
<1> QED
  BY <1>1, <1>3, <1>4 DEF Held

------------------------------------------------------------------------------
(* The steps of a broadcast.                                                  *)

LEMMA CastTypes ==
    ASSUME Inv
    PROVE  /\ cast \in [Messages -> {"none", "rlocked", "evicting", "done"}]
           /\ todo \in [Messages -> SUBSET Clients]
           /\ stale \in [Messages -> SUBSET Clients]
           /\ audience \in [Messages -> SUBSET Clients]
           /\ \A k : Members(k) \subseteq Clients
  BY DEF Inv, TypeOK, Members

\* A member is one of its own room, and has been registered.
LEMMA MembersAre ==
    ASSUME Inv, NEW k \in Rooms, NEW c \in Members(k)
    PROVE  /\ c \in Clients /\ TaskOf[c] = k /\ c \in Members(TaskOf[c])
           /\ handler[c] \notin {"none", "upgraded"}
  BY CastTypes DEF Inv, OwnRoomOnly, MemberWhileOpen

LEMMA BeginDelivers ==
    ASSUME Inv, Delivery, NEW m \in Messages, BeginBroadcast(m)
    PROVE  Delivery'
<1> DEFINE all == Members(RoomOf[m])
<1>1. /\ UNCHANGED <<rooms, send, handler, writer, conn, current, wire, stale>>
      /\ cast[m] = "none" /\ cast'[m] = "rlocked" /\ todo'[m] = all /\ audience'[m] = all
      /\ \A l \in Messages \ {m} :
            cast'[l] = cast[l] /\ todo'[l] = todo[l] /\ audience'[l] = audience[l]
  BY CastTypes DEF BeginBroadcast, clientVars
<1>2. audience[m] = {} /\ RoomOf[m] \in Rooms
  BY <1>1, HubAssumption DEF Delivery, CastsAreSound
<1>3. CastsAreSound'
  BY <1>1 DEF Delivery, CastsAreSound
<1>4. ASSUME NEW c \in Clients PROVE OnceEach(c)' /\ Stages(c)' /\ Sent(c)' = Sent(c)
  BY <1>1, Bystander DEF Delivery
<1>5. ASSUME NEW l \in Messages, NEW c \in Clients PROVE Accounted(l, c)'
  <2>1. Accounted(l, c)
    BY DEF Delivery
  <2>2. CASE l = m
    <3>1. m \notin Sent(c)
      BY <1>2, <2>1, <2>2 DEF Accounted
    <3>2. c \in all => TaskOf[c] = RoomOf[m] /\ handler[c] \notin {"none", "upgraded"}
      BY <1>2, MembersAre
    <3> HIDE DEF all
    <3> QED
      BY <1>1, <1>4, <2>1, <2>2, <3>1, <3>2 DEF Accounted, Members
  <2>3. CASE l # m
    BY <1>1, <1>4, <2>1, <2>3 DEF Accounted, Members
  <2> QED
    BY <2>2, <2>3
<1> QED
  BY <1>3, <1>4, <1>5 DEF Delivery

\* The client that is visited has not been sent the message: now it is, or it
\* is a member that will be evicted.
LEMMA VisitDelivers ==
    ASSUME Inv, Delivery, NEW m \in Messages, NEW c \in Clients, Visit(m, c)
    PROVE  Delivery'
<1> DEFINE b == send[c].buffer
<1>1. /\ UNCHANGED <<rooms, handler, writer, conn, current, wire, cast, audience>>
      /\ cast[m] = "rlocked" /\ c \in todo[m] /\ todo'[m] = todo[m] \ {c}
      /\ \A l \in Messages \ {m} : todo'[l] = todo[l] /\ stale'[l] = stale[l]
      /\ \A d \in Clients \ {c} : send'[d] = send[d]
      /\ send'[c].closed = send[c].closed
      /\ \/ send'[c].buffer = Append(b, m) /\ stale'[m] = stale[m]
         \/ send'[c].buffer = b /\ stale'[m] = stale[m] \cup {c}
  BY CastTypes DEF Visit, clientVars, Enqueue, Inv, TypeOK
<1>2. c \in Members(RoomOf[m]) /\ RoomOf[m] \in Rooms
  BY <1>1, HubAssumption DEF Inv, VisitsOpenChannels
<1>3. c \in Members(TaskOf[c]) /\ handler[c] \notin {"none", "upgraded"}
  BY <1>2, MembersAre
<1>4. OnceEach(c) /\ Stages(c) /\ m \notin Sent(c)
  BY <1>1 DEF Delivery, Accounted
<1>5. m \in Event /\ m # Connected /\ b \in Seq(Event)
  BY Types
<1>6. /\ IsInjective(Append(b, m)) /\ Range(Append(b, m)) = Range(b) \cup {m}
  BY <1>4, <1>5, AppendNew DEF OnceEach, Sent
<1>7. /\ OnceEach(c)'
      /\ \/ Sent(c)' = Sent(c) \cup {m} /\ stale'[m] = stale[m]
         \/ Sent(c)' = Sent(c) /\ stale'[m] = stale[m] \cup {c}
  <2> HIDE DEF b
  <2>1. OnceEach(c) /\ b = send[c].buffer
    BY <1>4 DEF b
  <2>2. CASE send'[c].buffer = Append(b, m) /\ stale'[m] = stale[m]
    BY <1>1, <1>4, <1>6, <2>1, <2>2 DEF OnceEach, Sent, Held
  <2>3. CASE send'[c].buffer = b /\ stale'[m] = stale[m] \cup {c}
    BY <1>1, <2>1, <2>3 DEF OnceEach, Sent, Held
  <2> QED
    BY <1>1, <2>2, <2>3 DEF b
<1>8. Stages(c)'
  <2>1. Connected \in Range(send'[c].buffer) => Connected \in Range(b)
    BY <1>1, <1>5, <1>6
  <2> HIDE DEF b
  <2> QED
    BY <1>1, <1>4, <2>1 DEF Stages, b
<1>9. ASSUME NEW d \in Clients \ {c} PROVE OnceEach(d)' /\ Stages(d)' /\ Sent(d)' = Sent(d)
  BY <1>1, Bystander DEF Delivery
<1>10. CastsAreSound'
  <2> SUFFICES ASSUME NEW l \in Messages
               PROVE  /\ todo'[l] \subseteq audience'[l]
                      /\ cast'[l] = "none" => audience'[l] = {}
    BY DEF CastsAreSound
  <2>1. todo'[l] \subseteq todo[l]
    BY <1>1
  <2> QED
    BY <1>1, <2>1 DEF Delivery, CastsAreSound
<1>11. ASSUME NEW l \in Messages, NEW d \in Clients PROVE Accounted(l, d)'
  <2>1. Accounted(l, d) /\ todo[l] \subseteq audience[l]
    BY DEF Delivery, CastsAreSound
  <2>2. CASE d # c
    BY <1>1, <1>9, <2>1, <2>2 DEF Accounted, Members
  <2>3. CASE d = c /\ l # m
    BY <1>1, <1>7, <2>1, <2>3 DEF Accounted, Members
  <2>4. CASE d = c /\ l = m
    BY <1>1, <1>3, <1>7, <2>1, <2>4 DEF Accounted, Members
  <2> QED
    BY <2>2, <2>3, <2>4
<1> QED
  BY <1>7, <1>8, <1>9, <1>10, <1>11 DEF Delivery

LEMMA EndIterationDelivers ==
    ASSUME Inv, Delivery, NEW m \in Messages, EndIteration(m)
    PROVE  Delivery'
<1>1. /\ UNCHANGED <<rooms, send, handler, writer, conn, current, wire,
                     todo, stale, audience>>
      /\ \A l \in Messages : cast'[l] = "none" => cast[l] = "none"
  BY CastTypes DEF EndIteration, clientVars
<1>2. ASSUME NEW c \in Clients PROVE OnceEach(c)' /\ Stages(c)' /\ Sent(c)' = Sent(c)
  BY <1>1, Bystander DEF Delivery
<1>3. ASSUME NEW l \in Messages, NEW c \in Clients PROVE Accounted(l, c)'
  BY <1>1, <1>2 DEF Delivery, Accounted, Members
<1> QED
  BY <1>1, <1>2, <1>3 DEF Delivery, CastsAreSound

\* Who is evicted is, or was, a member: its channel is closed from now on.
LEMMA EvictDelivers ==
    ASSUME Inv, Delivery, NEW m \in Messages, NEW c \in Clients, Evict(m, c)
    PROVE  Delivery'
<1>1. /\ UNCHANGED <<handler, writer, conn, current, wire, todo, audience>>
      /\ unregister(c) /\ c \in stale[m] /\ stale'[m] = stale[m] \ {c}
      /\ \A l \in Messages \ {m} : stale'[l] = stale[l]
      /\ \A l \in Messages : cast'[l] = "none" => cast[l] = "none"
  BY CastTypes DEF Evict, clientVars
<1>2. ASSUME NEW d \in Clients
      PROVE  /\ send'[d].buffer = send[d].buffer
             /\ send[d].closed => send'[d].closed
             /\ d \in Members(TaskOf[d]) =>
                    (d \in Members(TaskOf[d]))' \/ send'[d].closed
  <2>1. TaskOf[d] \in Rooms
    BY HubAssumption
  <2>2. /\ \A k \in Rooms :
               Members(k)' = IF k = TaskOf[c] THEN Members(k) \ {c} ELSE Members(k)
        /\ \A e \in Clients :
               /\ send'[e].buffer = send[e].buffer
               /\ send'[e].closed = (send[e].closed \/ (e = c /\ c \in Members(TaskOf[c])))
    BY <1>1, UnregisterLeaves
  <2>3. d \in Members(TaskOf[d]) => (d \in Members(TaskOf[d]))' \/ d = c
    BY <2>1, <2>2
  <2> QED
    BY <2>2, <2>3
<1>3. send'[c].closed
  <2>1. Accounted(m, c)
    BY DEF Delivery
  <2> QED
    BY <1>1, <2>1, UnregisterLeaves DEF Accounted
<1>4. ASSUME NEW d \in Clients PROVE OnceEach(d)' /\ Stages(d)' /\ Sent(d)' = Sent(d)
  BY <1>1, <1>2, Bystander DEF Delivery
<1>5. ASSUME NEW l \in Messages, NEW d \in Clients PROVE Accounted(l, d)'
  <2>1. Accounted(l, d)
    BY DEF Delivery
  <2>2. d \in stale'[l] => d \in stale[l]
    BY <1>1
  <2>3. d \in stale[l] => d \in stale'[l] \/ send'[d].closed
    BY <1>1, <1>3
  <2> QED
    BY <1>1, <1>2, <1>4, <2>1, <2>2, <2>3 DEF Accounted
<1> QED
  BY <1>1, <1>4, <1>5 DEF Delivery, CastsAreSound

THEOREM DeliveryInvariance == Spec => []Delivery
<1>1. Init => Delivery
  <2> SUFFICES ASSUME Init PROVE Delivery
    OBVIOUS
  <2>1. IsInjective(<<>>) /\ Range(<<>>) = {}
    BY DEF IsInjective, Range
  <2>2. \A c \in Clients : Sent(c) = {} /\ OnceEach(c) /\ Stages(c)
    BY <2>1 DEF Init, Sent, Held, OnceEach, Stages
  <2>3. \A m \in Messages, c \in Clients : Accounted(m, c)
    BY <2>2 DEF Init, Accounted
  <2>4. CastsAreSound
    BY DEF Init, CastsAreSound
  <2> QED
    BY <2>2, <2>3, <2>4 DEF Delivery
<1>2. Inv /\ Delivery /\ [Next]_vars => Delivery'
  <2> SUFFICES ASSUME Inv, Delivery, [Next]_vars PROVE Delivery'
    OBVIOUS
  <2>1. ASSUME NEW c \in Clients, Serve(c) \/ Pump(c) \/ PeerLeaves(c)
        PROVE  Delivery'
    BY <2>1, UpgradeDelivers, SendConnectedDelivers, LockedDelivers,
       ReceiveDelivers, WriteDelivers, EndDelivers
       DEF Serve, Pump
  <2>2. ASSUME NEW m \in Messages, Broadcast(m) PROVE Delivery'
    BY <2>2, BeginDelivers, VisitDelivers, EndIterationDelivers, EvictDelivers
       DEF Broadcast
  <2>3. CASE UNCHANGED vars
    <3>1. /\ UNCHANGED <<rooms, send, handler, writer, conn, current, wire,
                         cast, todo, stale, audience>>
      BY <2>3 DEF vars, clientVars, castVars
    <3>2. ASSUME NEW c \in Clients PROVE OnceEach(c)' /\ Stages(c)' /\ Sent(c)' = Sent(c)
      BY <3>1, Bystander DEF Delivery
    <3> QED
      BY <3>1, <3>2 DEF Delivery, CastsAreSound, Accounted, Members
  <2> QED
    BY <2>1, <2>2, <2>3 DEF Next
<1> QED
  BY <1>1, <1>2, HubInvariance, PTL DEF Spec

\* The stream of a client as a sequence: what is sent is in it once.
LEMMA StreamOnce ==
    ASSUME Inv, Delivery, NEW c \in Clients
    PROVE  /\ Stream(c) \in Seq(Event \cup {CloseFrame})
           /\ IsInjective(Stream(c)) /\ Range(Stream(c)) = Sent(c)
<1> DEFINE E == Event \cup {CloseFrame}
           h == IF current[c] = NoEvent THEN <<>> ELSE <<current[c]>>
           b == send[c].buffer
<1>1. OnceEach(c)
  BY DEF Delivery
<1>2. b \in Seq(E) /\ wire[c] \in Seq(E)
  BY Types
<1>3. h \in Seq(E) /\ IsInjective(h) /\ Range(h) = Held(c)
  <2>1. CASE current[c] = NoEvent
    <3>1. <<>> \in Seq(E) /\ IsInjective(<<>>) /\ Range(<<>>) = {}
      BY DEF IsInjective, Range
    <3> QED
      BY <2>1, <3>1 DEF Held
  <2>2. CASE current[c] # NoEvent
    <3>1. current[c] \in E
      BY <2>2, Types
    <3>2. /\ <<current[c]>> \in Seq(E) /\ IsInjective(<<current[c]>>)
          /\ Range(<<current[c]>>) = {current[c]}
      BY <3>1 DEF IsInjective, Range
    <3> QED
      BY <2>2, <3>2 DEF Held
  <2> QED
    BY <2>1, <2>2
<1>4. /\ IsInjective(b) /\ IsInjective(wire[c])
      /\ Range(h) \cap Range(b) = {} /\ Range(wire[c]) \cap (Range(h) \cup Range(b)) = {}
  BY <1>1, <1>3 DEF OnceEach
<1>5. Stream(c) = wire[c] \o (h \o b)
  BY DEF Stream, Coming
<1> HIDE DEF E, h, b
<1>6. h \o b \in Seq(E) /\ IsInjective(h \o b) /\ Range(h \o b) = Range(h) \cup Range(b)
  BY <1>2, <1>3, <1>4, ConcatDisjoint
<1>7. /\ wire[c] \o (h \o b) \in Seq(E) /\ IsInjective(wire[c] \o (h \o b))
      /\ Range(wire[c] \o (h \o b)) = Range(wire[c]) \cup Range(h \o b)
  <2> DEFINE g == h \o b
  <2>1. g \in Seq(E) /\ IsInjective(g) /\ Range(wire[c]) \cap Range(g) = {}
    BY <1>4, <1>6
  <2> HIDE DEF g
  <2>2. /\ wire[c] \o g \in Seq(E) /\ IsInjective(wire[c] \o g)
        /\ Range(wire[c] \o g) = Range(wire[c]) \cup Range(g)
    BY <1>2, <1>4, <2>1, ConcatDisjoint
  <2> QED
    BY <2>2 DEF g
<1> QED
  BY <1>3, <1>5, <1>6, <1>7 DEF Sent, E, b

LEMMA OccurrencesCount ==
    ASSUME Inv, Delivery, NEW c \in Clients, NEW m \in Messages
    PROVE  Occurrences(m, c) = IF m \in Sent(c) THEN 1 ELSE 0
<1> DEFINE f == Stream(c)
           at == {i \in 1..Len(f) : f[i] = m}
<1>1. DOMAIN f = 1..Len(f) /\ IsInjective(f) /\ Range(f) = Sent(c)
  BY StreamOnce
<1>2. Occurrences(m, c) = Cardinality(at)
  BY DEF Occurrences
<1> HIDE DEF f
<1>3. CASE m \in Sent(c)
  <2>1. PICK k \in DOMAIN f : f[k] = m
    BY <1>1, <1>3 DEF Range
  <2>2. at = {k}
    BY <1>1, <2>1 DEF IsInjective
  <2> QED
    BY <1>2, <1>3, <2>2, FS_Singleton
<1>4. CASE m \notin Sent(c)
  <2>1. at = {}
    BY <1>1, <1>4 DEF Range
  <2> QED
    BY <1>2, <1>4, <2>1, FS_EmptySet
<1> QED
  BY <1>3, <1>4

\* A message reaches the members of its room, each once and nobody else, and
\* one that misses it is on its way out, through any interleaving of joins,
\* leaves, evictions, slow and lost peers (websocket.go:76-127).
THEOREM NothingIsLostSilently == Spec => []NoSilentLoss
<1>1. Inv /\ Delivery => NoSilentLoss
  <2> SUFFICES ASSUME Inv, Delivery, NEW m \in Messages, NEW c \in Clients
               PROVE  /\ c \notin audience[m] \ todo[m] => Occurrences(m, c) = 0
                      /\ c \in audience[m] \ todo[m] =>
                             \/ Occurrences(m, c) = 1
                             \/ /\ Occurrences(m, c) = 0
                                /\ \/ c \in stale[m]
                                   \/ send[c].closed
                                   \/ conn[c] # "open"
                      /\ c \in audience[m] => TaskOf[c] = RoomOf[m]
    BY DEF NoSilentLoss
  <2>1. Accounted(m, c)
    BY DEF Delivery
  <2> QED
    BY <2>1, OccurrencesCount DEF Accounted
<1> QED
  BY <1>1, HubInvariance, DeliveryInvariance, PTL

------------------------------------------------------------------------------
(* The steps of ChatRoom, by the fields of the views.                         *)

LEMMA RoomMoves ==
    ASSUME NEW p, NEW e, NEW q, NEW r, NEW t, NEW mine
    PROVE  /\ p = "out" => Room!Step(ViewOf(p, e, q, r, t), ViewOf("in", e, q, r, t), mine)
           /\ Room!Step(ViewOf(p, e, q, r, t), ViewOf(p, e, <<>>, r, "broken"), mine)
           /\ (p = "out" \/ (p = "in" /\ t # "whole")) =>
                  Room!Step(ViewOf(p, e, q, r, t), ViewOf("gone", e, q, r, t), mine)
           /\ (p = "in" /\ t = "whole") =>
                  Room!Step(ViewOf(p, e, q, r, t), ViewOf("gone", e, q, r, "ending"), mine)
<1> DEFINE v == ViewOf(p, e, q, r, t)
<1>1. v.place = p /\ v.stream = t
  BY ViewFields
<1>2. /\ ViewOf("in", e, q, r, t) = WithPlace(v, "in")
      /\ ViewOf(p, e, <<>>, r, "broken") = WithQueueStream(v, <<>>, "broken")
      /\ ViewOf("gone", e, q, r, t) = WithPlace(v, "gone")
      /\ ViewOf("gone", e, q, r, "ending") = WithPlaceStream(v, "gone", "ending")
  BY ViewWithOne, ViewWithTwo
<1> HIDE DEF v
<1>3. /\ p = "out" => Room!Join(v, WithPlace(v, "in"))
      /\ Room!Break(v, WithQueueStream(v, <<>>, "broken"))
      /\ (p = "out" \/ (p = "in" /\ t # "whole")) => Room!Leave(v, WithPlace(v, "gone"))
      /\ (p = "in" /\ t = "whole") => Room!Leave(v, WithPlaceStream(v, "gone", "ending"))
  BY <1>1 DEF Room!Join, Room!Break, Room!Leave, WithPlace, WithQueueStream, WithPlaceStream
<1> QED
  BY <1>2, <1>3 DEF Room!Step, v

LEMMA RoomSends ==
    ASSUME NEW p, NEW e, NEW q, NEW r, NEW t, NEW mine
    PROVE  /\ (p = "in" /\ t # "broken" /\ Connected \notin Range(q) \cup Range(r)) =>
                  Room!Step(ViewOf(p, e, q, r, t),
                            ViewOf(p, e, Append(q, Connected), r, t), mine)
           /\ q # <<>> =>
                  Room!Step(ViewOf(p, e, q, r, t),
                            ViewOf(p, e, Tail(q), Append(r, Head(q)), t), mine)
           /\ (p = "gone" /\ t = "ending" /\ q = <<>>) =>
                  Room!Step(ViewOf(p, e, q, r, t),
                            ViewOf(p, e, q, Append(r, CloseFrame), "broken"), mine)
<1> DEFINE v == ViewOf(p, e, q, r, t)
<1>1. v.place = p /\ v.queue = q /\ v.received = r /\ v.stream = t
  BY ViewFields
<1>2. /\ ViewOf(p, e, Append(q, Connected), r, t) = WithQueue(v, Append(q, Connected))
      /\ ViewOf(p, e, Tail(q), Append(r, Head(q)), t)
            = WithQueueReceived(v, Tail(q), Append(r, Head(q)))
      /\ ViewOf(p, e, q, Append(r, CloseFrame), "broken")
            = WithReceivedStream(v, Append(r, CloseFrame), "broken")
  BY ViewWithOne, ViewWithTwo
<1> HIDE DEF v
<1>3. (p = "in" /\ t # "broken" /\ Connected \notin Range(q) \cup Range(r)) =>
          Room!Greet(v, WithQueue(v, Append(v.queue, Connected)))
  BY <1>1 DEF Room!Greet, WithQueue, Range, Room!Range
<1>4. q # <<>> =>
          Room!Receive(v, WithQueueReceived(v, Tail(v.queue), Append(v.received, Head(v.queue))))
  BY <1>1 DEF Room!Receive, WithQueueReceived
<1>5. (p = "gone" /\ t = "ending" /\ q = <<>>) =>
          Room!Close(v, WithReceivedStream(v, Append(v.received, CloseFrame), "broken"))
  BY <1>1 DEF Room!Close, WithReceivedStream
<1> QED
  BY <1>1, <1>2, <1>3, <1>4, <1>5 DEF Room!Step, v

LEMMA RoomSettles ==
    ASSUME NEW p, NEW e, NEW q, NEW r, NEW t, NEW mine,
           NEW m \in Messages, m \notin e, NEW now, now = e \cup {m}
    PROVE  /\ (p # "in" \/ m \notin mine) =>
                  Room!Step(ViewOf(p, e, q, r, t), ViewOf(p, now, q, r, t), mine)
           /\ (p = "in" /\ m \in mine /\ t # "broken") =>
                  /\ Room!Step(ViewOf(p, e, q, r, t),
                               ViewOf(p, now, Append(q, m), r, t), mine)
                  /\ Room!Step(ViewOf(p, e, q, r, t),
                               ViewOf(p, now, q, r, "ending"), mine)
           /\ (p = "in" /\ m \in mine /\ t = "broken") =>
                  Room!Step(ViewOf(p, e, q, r, t),
                            ViewOf(p, now, q, r, "broken"), mine)
<1> DEFINE v == ViewOf(p, e, q, r, t)
<1>1. v.place = p /\ v.settled = e /\ v.queue = q /\ v.stream = t
  BY ViewFields
<1>2. /\ ViewOf(p, now, q, r, t) = WithSettled(v, now)
      /\ ViewOf(p, now, Append(q, m), r, t) = WithSettledQueue(v, now, Append(q, m))
      /\ \A x : ViewOf(p, now, q, r, x) = WithSettledStream(v, now, x)
  BY ViewWithOne, ViewWithTwo
<1> HIDE DEF v
<1>3. (p # "in" \/ m \notin mine) =>
          Room!Pass(v, WithSettled(v, v.settled \cup {m}), m, mine)
  BY <1>1 DEF Room!Pass, WithSettled
<1>4. (p = "in" /\ m \in mine /\ t # "broken") =>
          Room!Deliver(v, WithSettledQueue(v, v.settled \cup {m}, Append(v.queue, m)), m, mine)
  BY <1>1 DEF Room!Deliver, WithSettledQueue
<1>5. (p = "in" /\ m \in mine) =>
          Room!Miss(v, WithSettledStream(v, v.settled \cup {m},
                           IF v.stream = "broken" THEN v.stream ELSE "ending"), m, mine)
  BY <1>1 DEF Room!Miss, WithSettledStream
<1> QED
  BY <1>1, <1>2, <1>3, <1>4, <1>5 DEF Room!Step, v

------------------------------------------------------------------------------
(* What each client sees of a step of the hub.                                *)

Broken(c) == conn[c] \in {"gone", "closed"}
Ending(c) == send[c].closed \/ \E m \in Messages : c \in stale[m]
Settled(c) == {m \in Messages : cast[m] # "none" /\ c \notin todo[m]}
QueueOf(c) == IF Broken(c) THEN <<>> ELSE Coming(c)
StateOf(c) == IF Broken(c) THEN "broken" ELSE IF Ending(c) THEN "ending" ELSE "whole"
Mine(c) == {m \in Messages : RoomOf[m] = TaskOf[c]}
IsMember(c) == c \in Members(TaskOf[c])

LEMMA HubViews ==
    ASSUME NEW c \in Clients
    PROVE  /\ RoomView(c) = ViewOf(Place(c), Settled(c), QueueOf(c), wire[c], StateOf(c))
           /\ RoomView(c)' =
                  ViewOf(Place(c)', Settled(c)', QueueOf(c)', wire'[c], StateOf(c)')
  BY DEF RoomView, ViewOf, Settled, QueueOf, StateOf, Broken, Ending

Sees(c) ==
    \/ RoomView(c)' = RoomView(c)
    \/ Room!Step(RoomView(c), RoomView(c)', Mine(c))

\* A step that leaves the place and the stream of a client alone.
LEMMA SeesNothing ==
    ASSUME NEW c \in Clients, Settled(c)' = Settled(c), Place(c)' = Place(c),
           wire'[c] = wire[c], StateOf(c)' = StateOf(c), QueueOf(c)' = QueueOf(c)
    PROVE  Sees(c)
  BY HubViews DEF Sees

\* The other clients when one moves: they keep their place, whatever it does to
\* the rooms.
LEMMA OthersSeeNothing ==
    ASSUME NEW d \in Clients, Settled(d)' = Settled(d), Ending(d)' = Ending(d),
           /\ handler'[d] = handler[d] /\ conn'[d] = conn[d]
           /\ current'[d] = current[d] /\ wire'[d] = wire[d]
           /\ send'[d].buffer = send[d].buffer,
           IsMember(d)' <=> IsMember(d)
    PROVE  Sees(d)
<1>1. Place(d)' = Place(d)
  BY DEF Place, IsMember
<1>2. StateOf(d)' = StateOf(d) /\ QueueOf(d)' = QueueOf(d)
  BY DEF StateOf, QueueOf, Broken, Coming
<1> QED
  BY <1>1, <1>2, SeesNothing

LEMMA SettledAlone ==
    ASSUME UNCHANGED castVars, NEW c \in Clients
    PROVE  /\ Settled(c)' = Settled(c)
           /\ send'[c].closed = send[c].closed => Ending(c)' = Ending(c)
  BY DEF castVars, Settled, Ending

\* The handler, outside of the lock: a failed upgrade ends what never began.
LEMMA ViewsOfServe ==
    ASSUME Inv, Delivery, NEW c \in Clients,
           \/ Upgrade(c) \/ UpgradeFails(c) \/ SendPanics(c)
           \/ StartPumps(c) \/ ReadFails(c)
    PROVE  Sees(c)
<1>1. /\ UNCHANGED <<castVars, rooms, send, current, wire>>
      /\ \/ handler[c] = "none" /\ handler'[c] = "upgraded" /\ conn'[c] = "open"
         \/ handler[c] = "none" /\ handler'[c] = "done" /\ conn'[c] = conn[c]
         \/ /\ handler[c] \notin {"none", "upgraded"} /\ conn'[c] = conn[c]
            /\ handler'[c] \notin {"none", "upgraded"}
  BY DEF Inv, TypeOK, Upgrade, UpgradeFails, SendPanics, StartPumps, ReadFails, Step
<1>2. handler[c] = "none" => conn[c] = "none" /\ ~IsMember(c)
  BY DEF Delivery, Stages, Inv, MemberWhileOpen, IsMember
<1>3. /\ Settled(c)' = Settled(c) /\ Ending(c)' = Ending(c) /\ Coming(c)' = Coming(c)
      /\ IsMember(c)' <=> IsMember(c)
  BY <1>1, SettledAlone DEF Coming, Members, IsMember
<1>4. StateOf(c)' = StateOf(c) /\ QueueOf(c)' = QueueOf(c)
  BY <1>1, <1>2, <1>3 DEF StateOf, QueueOf, Broken
<1>5. Place(c)' = Place(c) \/ (Place(c) = "out" /\ Place(c)' = "gone")
  BY <1>1, <1>2, <1>3 DEF Place, IsMember
<1>6. CASE Place(c) = "out" /\ Place(c)' = "gone"
  BY <1>1, <1>3, <1>4, <1>6, HubViews, RoomMoves DEF Sees
<1> QED
  BY <1>1, <1>3, <1>4, <1>5, <1>6, SeesNothing

LEMMA ViewsOfGreeting ==
    ASSUME Inv, Delivery, NEW c \in Clients, SendConnected(c)
    PROVE  Sees(c)
<1> DEFINE b == send[c].buffer
<1>1. /\ UNCHANGED <<castVars, rooms, conn, current, wire>>
      /\ handler[c] = "registered" /\ handler'[c] = "connected"
      /\ ~send[c].closed /\ ~send'[c].closed
      /\ send'[c].buffer = Append(b, Connected)
  BY Types DEF Inv, TypeOK, SendConnected, Step, Enqueue
<1>2. /\ Connected \notin Range(b) /\ wire[c] = <<>> /\ current[c] = NoEvent
      /\ b \in Seq(Event) /\ Connected \in Event
  BY <1>1, Types DEF Delivery, Stages
<1>3. /\ Settled(c)' = Settled(c) /\ Ending(c)' = Ending(c)
      /\ IsMember(c)' /\ IsMember(c)
  <2>1. IsMember(c)
    BY <1>1 DEF IsMember, Inv, MemberWhileOpen
  <2>2. IsMember(c)' <=> IsMember(c)
    BY <1>1 DEF IsMember, Members
  <2>3. send'[c].closed = send[c].closed
    BY <1>1, Types DEF SendConnected, Enqueue
  <2> QED
    BY <1>1, <2>1, <2>2, <2>3, SettledAlone
<1>4. Place(c) = "in" /\ Place(c)' = "in" /\ StateOf(c)' = StateOf(c)
  BY <1>1, <1>3 DEF Place, IsMember, StateOf, Broken
<1>5. CASE Broken(c)
  <2>1. QueueOf(c)' = QueueOf(c)
    BY <1>1, <1>5 DEF QueueOf, Broken
  <2> QED
    BY <1>1, <1>3, <1>4, <2>1, SeesNothing
<1>6. CASE ~Broken(c)
  <2>1. QueueOf(c) = <<>> \o b /\ QueueOf(c)' = <<>> \o Append(b, Connected)
    BY <1>1, <1>2, <1>6 DEF QueueOf, Coming, Broken
  <2>2. Append(b, Connected) \in Seq(Event)
    BY <1>2
  <2>3. /\ QueueOf(c) = b /\ QueueOf(c)' = Append(b, Connected)
        /\ StateOf(c) # "broken" /\ Range(<<>>) = {}
    BY <1>2, <1>6, <2>1, <2>2, ConcatEmptySeq DEF StateOf, Range
  <2> HIDE DEF b
  <2> QED
    BY <1>1, <1>2, <1>3, <1>4, <2>3, HubViews, RoomSends DEF Sees
<1> QED
  BY <1>5, <1>6

\* The two sections under the write lock of a handler.
LEMMA ViewsOfRegister ==
    ASSUME Inv, NEW c \in Clients, Register(c), NEW d \in Clients
    PROVE  Sees(d)
<1>1. /\ UNCHANGED <<castVars, send, conn, current, wire>>
      /\ handler[c] = "upgraded" /\ handler'[c] = "registered"
      /\ d # c => handler'[d] = handler[d]
  BY DEF Inv, TypeOK, Register, Step
<1>2. /\ IsMember(d)' <=> IsMember(d) \/ d = c
  BY HubAssumption, RegisterJoins DEF Register, IsMember
<1>3. Settled(d)' = Settled(d) /\ Ending(d)' = Ending(d)
  BY <1>1, SettledAlone
<1>4. CASE d # c
  BY <1>1, <1>2, <1>3, <1>4, OthersSeeNothing
<1>5. CASE d = c
  <2>1. Place(d) = "out" /\ Place(d)' = "in"
    BY <1>1, <1>2, <1>5 DEF Place, IsMember
  <2>2. StateOf(d)' = StateOf(d) /\ QueueOf(d)' = QueueOf(d)
    BY <1>1, <1>3 DEF StateOf, QueueOf, Broken, Coming
  <2> QED
    BY <1>1, <1>3, <2>1, <2>2, HubViews, RoomMoves DEF Sees
<1> QED
  BY <1>4, <1>5

\* unregister, by the handler or by a broadcast: c leaves, if it was a member.
LEMMA ViewsOfUnregister ==
    ASSUME Inv, NEW c \in Clients, unregister(c), NEW d \in Clients,
           UNCHANGED <<conn, current, wire>>,
           handler'[d] = handler[d]
               \/ (handler[d] = "unregister" /\ handler'[d] = "done"),
           Settled(d)' = Settled(d),
           Ending(d)' <=> Ending(d) \/ (d = c /\ IsMember(c))
    PROVE  Sees(d)
<1>1. /\ IsMember(d)' <=> IsMember(d) /\ d # c
      /\ send'[d].buffer = send[d].buffer
  BY HubAssumption, UnregisterLeaves, SMTT(30) DEF IsMember
<1>2. Broken(d)' = Broken(d) /\ QueueOf(d)' = QueueOf(d) /\ wire'[d] = wire[d]
  BY <1>1 DEF QueueOf, Broken, Coming
<1>3. CASE d = c /\ IsMember(c)
  <2>1. /\ Place(d) = "in" /\ Place(d)' = "gone"
    BY <1>1, <1>3 DEF Place, IsMember, Inv, MemberWhileOpen
  <2>2. StateOf(d)' = IF StateOf(d) = "whole" THEN "ending" ELSE StateOf(d)
    BY <1>2, <1>3 DEF StateOf
  <2> QED
    BY <1>2, <2>1, <2>2, HubViews, RoomMoves DEF Sees
<1>4. CASE ~(d = c /\ IsMember(c))
  <2>1. IsMember(d)' <=> IsMember(d)
    BY <1>1, <1>4
  <2>2. Place(d)' = Place(d)
    BY <2>1 DEF Place, IsMember
  <2>3. StateOf(d)' = StateOf(d)
    BY <1>2, <1>4 DEF StateOf
  <2> QED
    BY <1>2, <2>2, <2>3, SeesNothing
<1> QED
  BY <1>3, <1>4

LEMMA ViewsOfReaderUnregisters ==
    ASSUME Inv, NEW c \in Clients, ReaderUnregisters(c), NEW d \in Clients
    PROVE  Sees(d)
<1>1. /\ UNCHANGED <<castVars, conn, current, wire>> /\ unregister(c)
      /\ handler'[d] = handler[d]
            \/ (handler[d] = "unregister" /\ handler'[d] = "done")
  BY DEF Inv, TypeOK, ReaderUnregisters, Step
<1>2. send'[d].closed = (send[d].closed \/ (d = c /\ IsMember(c)))
  BY <1>1, UnregisterLeaves DEF IsMember
<1>3. /\ Settled(d)' = Settled(d)
      /\ Ending(d)' <=> Ending(d) \/ (d = c /\ IsMember(c))
  BY <1>1, <1>2 DEF castVars, Settled, Ending
<1> QED
  BY <1>1, <1>3, ViewsOfUnregister

LEMMA ViewsOfEvict ==
    ASSUME Inv, Delivery, NEW m \in Messages, NEW c \in Clients, Evict(m, c),
           NEW d \in Clients
    PROVE  Sees(d)
<1>1. /\ UNCHANGED <<handler, conn, current, wire, todo>> /\ unregister(c)
      /\ cast[m] = "evicting" /\ cast'[m] # "none"
      /\ \A l \in Messages \ {m} : cast'[l] = cast[l] /\ stale'[l] = stale[l]
      /\ c \in stale[m] /\ stale'[m] = stale[m] \ {c}
  BY CastTypes DEF Evict, clientVars
<1>2. send'[d].closed = (send[d].closed \/ (d = c /\ IsMember(c)))
  BY <1>1, UnregisterLeaves DEF IsMember
<1>3. Settled(d)' = Settled(d)
  BY <1>1 DEF Settled
<1>4. d # c => Ending(d)' = Ending(d)
  <2>1. d # c => \A l \in Messages : d \in stale'[l] <=> d \in stale[l]
    BY <1>1
  <2> QED
    BY <1>2, <2>1 DEF Ending
<1>5. Ending(c)
  BY <1>1 DEF Ending
<1>6. d = c => Ending(d)'
  <2>1. d = c => send'[d].closed
    BY <1>1, <1>2 DEF Delivery, Accounted, IsMember
  <2> QED
    BY <2>1 DEF Ending
<1> QED
  BY <1>1, <1>3, <1>4, <1>5, <1>6, ViewsOfUnregister

\* writePump and the peer: what is taken is still to come, what is written has
\* arrived, and what is lost is lost with the rest.
LEMMA ViewsOfPump ==
    ASSUME Inv, Delivery, NEW c \in Clients, Pump(c) \/ PeerLeaves(c)
    PROVE  Sees(c)
<1> DEFINE b == send[c].buffer
           Q == Seq(Event \cup {CloseFrame})
<1>1. /\ UNCHANGED <<castVars, rooms, handler>> /\ send'[c].closed = send[c].closed
      /\ b \in Q /\ wire[c] \in Q
  BY Types DEF Inv, TypeOK, Pump, Receive, WriteEvent, WriteFails, ChannelClosed,
               ExitWriter, PeerLeaves
<1>2. /\ Settled(c)' = Settled(c) /\ Ending(c)' = Ending(c)
      /\ Place(c)' = Place(c)
  BY <1>1, SettledAlone DEF Place, Members
<1>3. Stages(c)
  BY DEF Delivery
<1>4. CASE Receive(c)
  <2>1. /\ b # <<>> /\ current[c] = NoEvent /\ current'[c] = Head(b)
        /\ send'[c].buffer = Tail(b) /\ conn' = conn /\ wire' = wire
        /\ Head(b) # NoEvent
    BY <1>3, <1>4, Types DEF Receive, Stages, Inv, TypeOK
  <2>2. /\ Coming(c) = <<>> \o b /\ Coming(c)' = <<Head(b)>> \o Tail(b)
    BY <2>1 DEF Coming
  <2>3. <<>> \o b = b /\ <<Head(b)>> \o Tail(b) = b
    BY <1>1, <2>1
  <2>4. Coming(c)' = Coming(c)
    BY <2>2, <2>3
  <2>5. StateOf(c)' = StateOf(c) /\ QueueOf(c)' = QueueOf(c)
    BY <1>2, <2>1, <2>4 DEF StateOf, QueueOf, Broken
  <2> QED
    BY <1>2, <2>1, <2>5, SeesNothing
<1>5. CASE WriteEvent(c)
  <2>1. /\ conn' = conn /\ send' = send /\ current[c] # NoEvent
        /\ current'[c] = NoEvent /\ conn[c] \in {"open", "gone", "closed"}
        /\ wire'[c] = IF conn[c] = "open" THEN Append(wire[c], current[c]) ELSE wire[c]
    BY <1>3, <1>5, Types DEF WriteEvent, Wire, Stages, Inv, TypeOK, WritesEvents
  <2>2. StateOf(c)' = StateOf(c)
    BY <1>2, <2>1 DEF StateOf, Broken
  <2>3. CASE Broken(c)
    <3>1. QueueOf(c)' = QueueOf(c) /\ wire'[c] = wire[c]
      BY <2>1, <2>3 DEF QueueOf, Broken
    <3> QED
      BY <1>2, <2>2, <3>1, SeesNothing
  <2>4. CASE ~Broken(c)
    <3> DEFINE q == <<current[c]>> \o b
    <3>1. QueueOf(c) = q /\ QueueOf(c)' = <<>> \o b
      BY <2>1, <2>4 DEF QueueOf, Coming, Broken
    <3>2. q # <<>> /\ Head(q) = current[c] /\ Tail(q) = b /\ <<>> \o b = b
      <4>1. current[c] \in Event \cup {CloseFrame}
        BY <2>1, Types
      <4> QED
        BY <1>1, <4>1
    <3>3. wire'[c] = Append(wire[c], Head(q))
      BY <2>1, <2>4, <3>2 DEF Broken
    <3> HIDE DEF q, b
    <3> QED
      BY <1>2, <2>2, <3>1, <3>2, <3>3, HubViews, RoomSends DEF Sees
  <2> QED
    BY <2>3, <2>4
<1>6. CASE WriteFails(c) \/ PeerLeaves(c)
  <2>1. wire'[c] = wire[c] /\ conn'[c] \in {"gone", "closed"}
    BY <1>6 DEF WriteFails, ExitWriter, PeerLeaves, Inv, TypeOK
  <2>2. StateOf(c)' = "broken" /\ QueueOf(c)' = <<>>
    BY <2>1 DEF StateOf, QueueOf, Broken
  <2> QED
    BY <1>2, <2>1, <2>2, HubViews, RoomMoves DEF Sees
<1>7. CASE ChannelClosed(c)
  <2>1. /\ current[c] = NoEvent /\ b = <<>> /\ send[c].closed
        /\ conn'[c] = "closed" /\ conn[c] # "none"
        /\ conn[c] \in {"none", "open", "gone", "closed"}
        /\ wire'[c] = IF conn[c] = "open" THEN Append(wire[c], CloseFrame) ELSE wire[c]
    BY <1>3, <1>7 DEF ChannelClosed, ExitWriter, Wire, Stages, Inv, TypeOK
  <2>2. StateOf(c)' = "broken" /\ QueueOf(c)' = <<>>
    BY <2>1 DEF StateOf, QueueOf, Broken
  <2>3. CASE Broken(c)
    <3>1. StateOf(c) = "broken" /\ QueueOf(c) = <<>> /\ wire'[c] = wire[c]
      BY <2>1, <2>3 DEF StateOf, QueueOf, Broken
    <3> QED
      BY <1>2, <2>2, <3>1, SeesNothing
  <2>4. CASE ~Broken(c)
    <3>1. QueueOf(c) = <<>> \o <<>> /\ StateOf(c) = "ending"
      BY <2>1, <2>4 DEF StateOf, QueueOf, Broken, Coming, Ending
    <3>2. QueueOf(c) = <<>> /\ wire'[c] = Append(wire[c], CloseFrame)
      BY <2>1, <2>4, <3>1 DEF Broken
    <3>3. Place(c) = "gone"
      BY <2>1 DEF Place, Inv, MemberWhileOpen, OpenBeforeRegister
    <3> QED
      BY <1>2, <2>2, <3>1, <3>2, <3>3, HubViews, RoomSends DEF Sees
  <2> QED
    BY <2>3, <2>4
<1> QED
  BY <1>4, <1>5, <1>6, <1>7 DEF Pump

\* A broadcast begins: it is over for those who are not in its room.
LEMMA ViewsOfBegin ==
    ASSUME Inv, NEW m \in Messages, BeginBroadcast(m), NEW c \in Clients
    PROVE  Sees(c)
<1>1. /\ UNCHANGED <<rooms, send, handler, conn, current, wire, stale>>
      /\ cast[m] = "none" /\ cast'[m] # "none" /\ todo'[m] = Members(RoomOf[m])
      /\ \A l \in Messages \ {m} : cast'[l] = cast[l] /\ todo'[l] = todo[l]
  BY CastTypes DEF BeginBroadcast, clientVars
<1>2. /\ Place(c)' = Place(c) /\ StateOf(c)' = StateOf(c) /\ QueueOf(c)' = QueueOf(c)
  BY <1>1 DEF Place, Members, StateOf, QueueOf, Broken, Ending, Coming
<1>3. CASE c \in Members(RoomOf[m])
  <2>1. Settled(c)' = Settled(c)
    BY <1>1, <1>3 DEF Settled
  <2> QED
    BY <1>1, <1>2, <2>1, SeesNothing
<1>4. CASE c \notin Members(RoomOf[m])
  <2>1. m \notin Settled(c) /\ Settled(c)' = Settled(c) \cup {m}
    BY <1>1, <1>4 DEF Settled
  <2>2. Place(c) # "in" \/ m \notin Mine(c)
    BY <1>4 DEF Place, Mine
  <2> QED
    BY <1>1, <1>2, <2>1, <2>2, HubViews, RoomSettles DEF Sees
<1> QED
  BY <1>3, <1>4

\* It visits a member: the message is in its stream, or that stream ends.
LEMMA ViewsOfVisit ==
    ASSUME Inv, NEW m \in Messages, NEW c \in Clients, Visit(m, c)
    PROVE  Sees(c)
<1> DEFINE b == send[c].buffer
           h == IF current[c] = NoEvent THEN <<>> ELSE <<current[c]>>
           Q == Seq(Event)
<1>1. /\ UNCHANGED <<rooms, handler, conn, current, wire, cast>>
      /\ cast[m] = "rlocked" /\ c \in todo[m] /\ todo'[m] = todo[m] \ {c}
      /\ \A l \in Messages \ {m} : todo'[l] = todo[l]
      /\ send'[c].closed = send[c].closed
  BY CastTypes, Types DEF Visit, Enqueue, clientVars, Inv, TypeOK
<1>2. /\ m \notin Settled(c) /\ Settled(c)' = Settled(c) \cup {m}
  BY <1>1 DEF Settled
<1>3. /\ IsMember(c) /\ m \in Mine(c)
  <2>1. c \in Members(RoomOf[m]) /\ RoomOf[m] \in Rooms
    BY <1>1, HubAssumption DEF Inv, VisitsOpenChannels
  <2>2. TaskOf[c] = RoomOf[m]
    BY <2>1 DEF Inv, OwnRoomOnly
  <2> QED
    BY <2>1, <2>2 DEF Mine, IsMember
<1>4. Place(c) = "in" /\ Place(c)' = "in"
  BY <1>1, <1>3 DEF Place, Members, IsMember, Inv, MemberWhileOpen
<1>5. CASE Broken(c)
  <2>1. /\ StateOf(c) = "broken" /\ StateOf(c)' = "broken"
        /\ QueueOf(c) = <<>> /\ QueueOf(c)' = <<>>
    BY <1>1, <1>5 DEF StateOf, QueueOf, Broken
  <2> QED
    BY <1>1, <1>2, <1>3, <1>4, <2>1, HubViews, RoomSettles DEF Sees
<1>6. CASE ~Broken(c) /\ ~Full(c)
  <2>1. send'[c].buffer = Append(b, m) /\ stale' = stale
    BY <1>6 DEF Visit, Enqueue, Inv, TypeOK
  <2>2. StateOf(c)' = StateOf(c) /\ StateOf(c) # "broken"
    BY <1>1, <1>6, <2>1 DEF StateOf, Broken, Ending
  <2>3. QueueOf(c) = h \o b /\ QueueOf(c)' = h \o Append(b, m)
    BY <1>1, <1>6, <2>1 DEF QueueOf, Coming, Broken
  <2>4. h \o Append(b, m) = Append(h \o b, m)
    <3>1. h \in Q /\ b \in Q /\ m \in Event
      BY Types
    <3> HIDE DEF h, b
    <3> QED
      BY <3>1
  <2>5. QueueOf(c)' = Append(QueueOf(c), m)
    BY <2>3, <2>4
  <2>6. Room!Step(ViewOf("in", Settled(c), QueueOf(c), wire[c], StateOf(c)),
                  ViewOf("in", Settled(c)', Append(QueueOf(c), m), wire[c], StateOf(c)),
                  Mine(c))
    BY <1>2, <1>3, <2>2, RoomSettles
  <2> QED
    BY <1>1, <1>4, <2>2, <2>5, <2>6, HubViews DEF Sees
<1>7. CASE ~Broken(c) /\ Full(c)
  <2>1. send' = send /\ c \in stale'[m]
    BY <1>7, CastTypes DEF Visit
  <2>2. StateOf(c)' = "ending" /\ StateOf(c) # "broken"
    BY <1>1, <1>7, <2>1 DEF StateOf, Broken, Ending
  <2>3. QueueOf(c)' = QueueOf(c)
    BY <1>1, <2>1 DEF QueueOf, Coming, Broken
  <2> QED
    BY <1>1, <1>2, <1>3, <1>4, <2>2, <2>3, HubViews, RoomSettles DEF Sees
<1> QED
  BY <1>5, <1>6, <1>7

\* Those it does not visit see nothing of it, nor of the end of the iteration.
LEMMA ViewsBesides ==
    ASSUME Inv, NEW m \in Messages, NEW d \in Clients,
           EndIteration(m) \/ \E c \in Clients \ {d} : Visit(m, c)
    PROVE  Sees(d)
<1>1. /\ UNCHANGED <<rooms, handler, conn, current, wire>>
      /\ send'[d] = send[d]
      /\ \A l \in Messages : /\ cast'[l] = "none" <=> cast[l] = "none"
                             /\ d \in todo'[l] <=> d \in todo[l]
                             /\ d \in stale'[l] <=> d \in stale[l]
  <2>1. CASE EndIteration(m)
    BY <2>1, CastTypes DEF EndIteration, clientVars
  <2>2. ASSUME NEW c \in Clients \ {d}, Visit(m, c)
        PROVE  <1>1!2 /\ <1>1!1 /\ UNCHANGED cast /\ todo' = [todo EXCEPT ![m] = @ \ {c}]
               /\ (UNCHANGED stale \/ stale' = [stale EXCEPT ![m] = @ \cup {c}])
    BY <2>2 DEF Visit, Enqueue, Inv, TypeOK, clientVars
  <2> QED
    BY <2>1, <2>2, CastTypes
<1>2. Settled(d)' = Settled(d) /\ Ending(d)' = Ending(d)
  BY <1>1 DEF Settled, Ending
<1>3. IsMember(d)' <=> IsMember(d)
  BY <1>1 DEF IsMember, Members
<1> QED
  BY <1>1, <1>2, <1>3, OthersSeeNothing

LEMMA StepRefines ==
    ASSUME Inv, Delivery, [Next]_vars
    PROVE  [Room!Next]_roomView
<1>1. SUFFICES ASSUME NEW d \in Clients PROVE Sees(d)
  <2>1. /\ roomView' = [c \in Clients |-> roomView'[c]]
        /\ \A c \in Clients :
              /\ roomView'[c] = RoomView(c)' /\ roomView[c] = RoomView(c)
              /\ [u \in Clients |-> {m \in Messages : RoomOf[m] = TaskOf[u]}][c] = Mine(c)
    BY DEF roomView, Mine
  <2> QED
    BY <1>1, <2>1 DEF Room!Next, Sees
<1>2. ASSUME NEW c \in Clients, Serve(c) \/ Pump(c) \/ PeerLeaves(c)
      PROVE  Sees(d)
  <2>1. CASE Register(c)
    BY <2>1, ViewsOfRegister
  <2>2. CASE ReaderUnregisters(c)
    BY <2>2, ViewsOfReaderUnregisters
  <2>3. CASE d = c
    BY <1>2, <2>1, <2>2, <2>3, ViewsOfServe, ViewsOfGreeting, ViewsOfPump DEF Serve
  <2>4. CASE d # c /\ ~Register(c) /\ ~ReaderUnregisters(c)
    <3>1. /\ UNCHANGED <<castVars, rooms>> /\ send'[d] = send[d]
          /\ handler'[d] = handler[d] /\ conn'[d] = conn[d]
          /\ current'[d] = current[d] /\ wire'[d] = wire[d]
      BY <1>2, <2>4
         DEF Serve, Upgrade, UpgradeFails, SendConnected, SendPanics, StartPumps,
             ReadFails, Step, Enqueue, Pump, Receive, WriteEvent, WriteFails,
             ChannelClosed, ExitWriter, Wire, PeerLeaves, Inv, TypeOK
    <3>2. Settled(d)' = Settled(d) /\ Ending(d)' = Ending(d)
      BY <3>1, SettledAlone
    <3>3. IsMember(d)' <=> IsMember(d)
      BY <3>1 DEF IsMember, Members
    <3> QED
      BY <3>1, <3>2, <3>3, OthersSeeNothing
  <2> QED
    BY <2>1, <2>2, <2>3, <2>4
<1>3. ASSUME NEW m \in Messages, Broadcast(m) PROVE Sees(d)
  BY <1>3, ViewsOfBegin, ViewsOfVisit, ViewsOfEvict, ViewsBesides DEF Broadcast
<1>4. CASE UNCHANGED vars
  <2>1. UNCHANGED <<rooms, send, handler, conn, current, wire, castVars>>
    BY <1>4 DEF vars, clientVars
  <2>2. Settled(d)' = Settled(d) /\ Ending(d)' = Ending(d)
    BY <2>1, SettledAlone
  <2>3. IsMember(d)' <=> IsMember(d)
    BY <2>1 DEF IsMember, Members
  <2> QED
    BY <2>1, <2>2, <2>3, OthersSeeNothing
<1> QED
  BY <1>2, <1>3, <1>4 DEF Next

\* Locks, channels, pumps and evictions add up to the room of ChatRoom: every
\* client gets the messages broadcast while it is in, once each and in the
\* order they were queued, until it misses one, and is then on its way out; the
\* close frame comes last (websocket.go:57-171).
THEOREM HubRefinement == Spec => ImplementsRoom
<1>1. Init => Room!Init
  <2> SUFFICES ASSUME Init PROVE Room!Init
    OBVIOUS
  <2>1. <<>> \o <<>> = <<>>
    OBVIOUS
  <2>2. \A c \in Clients : RoomView(c) = Room!Outside
    BY <2>1 DEF Init, RoomView, Place, Coming, Room!Outside
  <2> QED
    BY <2>2 DEF Room!Init, roomView
<1>2. Inv /\ Delivery /\ [Next]_vars => [Room!Next]_roomView
  BY StepRefines
<1> QED
  BY <1>1, <1>2, HubInvariance, DeliveryInvariance, PTL
     DEF Spec, ImplementsRoom, Room!Spec
==============================================================================
