------------------------------- MODULE ChatRoom -------------------------------
(* What the hub promises to each connection of a chat room, whatever happens  *)
(* to the others: it gets the messages that are broadcast while it is in, each *)
(* once and in the order they were put into its stream, until it misses one;  *)
(* then it is on its way out.  A greeting comes at most once, a farewell last *)
(* and to no member.  No locks, channels, pumps or requests: ChatHub          *)
(* implements it, and so does the one-step broadcast of TaskChat, which is    *)
(* what makes that step a fair summary of the hub.                            *)
EXTENDS Functions, Sequences

CONSTANTS
    Clients,        \* the connections
    Messages,       \* each broadcast at most once
    Addressed,      \* the messages of the room of each client
    Greeting,       \* what the room sends to one that joined
    Farewell        \* what it sends to one that left

VARIABLE view       \* what each client has of its room

\* settled: the messages whose broadcast is over for this client.  queue: those
\* it will be sent, received: those its peer has.  stream: "whole" while it
\* misses nothing, "ending" on its way out, "broken" when nothing more arrives.
View == [place: {"out", "in", "gone"}, settled: SUBSET Messages,
         queue: Seq(Messages \cup {Greeting}),
         received: Seq(Messages \cup {Greeting, Farewell}),
         stream: {"whole", "ending", "broken"}]

Outside == [place |-> "out", settled |-> {}, queue |-> <<>>,
            received |-> <<>>, stream |-> "whole"]

Init == view = [c \in Clients |-> Outside]

------------------------------------------------------------------------------
(* The steps of one client, from v to w.                                      *)

Join(v, w) == v.place = "out" /\ w = [v EXCEPT !.place = "in"]

\* A message that is not for this client, or comes while it is not in.
Pass(v, w, m, mine) ==
    /\ m \notin v.settled
    /\ v.place # "in" \/ m \notin mine
    /\ w = [v EXCEPT !.settled = @ \cup {m}]

\* One that is: it goes into the stream, or the stream is whole no longer.
Deliver(v, w, m, mine) ==
    /\ v.place = "in" /\ m \in mine \ v.settled
    /\ v.stream # "broken"
    /\ w = [v EXCEPT !.settled = @ \cup {m}, !.queue = Append(@, m)]

Miss(v, w, m, mine) ==
    /\ v.place = "in" /\ m \in mine \ v.settled
    /\ w = [v EXCEPT !.settled = @ \cup {m},
                     !.stream = IF @ = "broken" THEN @ ELSE "ending"]

Receive(v, w) ==
    /\ v.queue # <<>>
    /\ w = [v EXCEPT !.queue = Tail(@), !.received = Append(@, Head(v.queue))]

Greet(v, w) ==
    /\ v.place = "in" /\ v.stream # "broken"
    /\ Greeting \notin Range(v.queue) \cup Range(v.received)
    /\ w = [v EXCEPT !.queue = Append(@, Greeting)]

\* Closed at the end, when nothing is left to send.
Close(v, w) ==
    /\ v.place = "gone" /\ v.stream = "ending" /\ v.queue = <<>>
    /\ w = [v EXCEPT !.received = Append(@, Farewell), !.stream = "broken"]

\* The connection is lost.
Break(v, w) == w = [v EXCEPT !.queue = <<>>, !.stream = "broken"]

\* A client leaves for good.  What is in its stream may still arrive.
Leave(v, w) ==
    /\ v.place # "gone"
    /\ \/ w = [v EXCEPT !.place = "gone"] /\ (v.place = "out" \/ v.stream # "whole")
       \/ w = [v EXCEPT !.place = "gone", !.stream = "ending"] /\ v.stream = "whole"
       \/ Break([v EXCEPT !.place = "gone"], w)

Step(v, w, mine) ==
    \/ Join(v, w) \/ Greet(v, w) \/ Receive(v, w)
    \/ Break(v, w) \/ Leave(v, w) \/ Close(v, w)
    \/ \E m \in Messages :
          Pass(v, w, m, mine) \/ Deliver(v, w, m, mine) \/ Miss(v, w, m, mine)

\* Each client by itself.
Next ==
    /\ view' = [c \in Clients |-> view'[c]]
    /\ \A c \in Clients :
          view'[c] = view[c] \/ Step(view[c], view'[c], Addressed[c])

Spec == Init /\ [][Next]_view
==============================================================================
