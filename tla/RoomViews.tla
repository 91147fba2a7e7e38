------------------------------ MODULE RoomViews ------------------------------
(* The views of ChatRoom as records, and what its steps do to their fields,   *)
(* for the two modules that are shown to implement it: a view is known by its *)
(* five fields, and each EXCEPT of a step has a name here.                    *)
EXTENDS TLAPS

ViewOf(place, settled, queue, received, stream) ==
    [place |-> place, settled |-> settled, queue |-> queue,
     received |-> received, stream |-> stream]

WithPlace(v, x) == [v EXCEPT !.place = x]
WithSettled(v, x) == [v EXCEPT !.settled = x]
WithQueue(v, x) == [v EXCEPT !.queue = x]
WithPlaceStream(v, x, y) == [v EXCEPT !.place = x, !.stream = y]
WithSettledQueue(v, x, y) == [v EXCEPT !.settled = x, !.queue = y]
WithSettledStream(v, x, y) == [v EXCEPT !.settled = x, !.stream = y]
WithQueueStream(v, x, y) == [v EXCEPT !.queue = x, !.stream = y]
WithQueueReceived(v, x, y) == [v EXCEPT !.queue = x, !.received = y]
WithReceivedStream(v, x, y) == [v EXCEPT !.received = x, !.stream = y]

LEMMA ViewFields ==
    ASSUME NEW p, NEW e, NEW q, NEW r, NEW t
    PROVE  /\ ViewOf(p, e, q, r, t).place = p
           /\ ViewOf(p, e, q, r, t).settled = e
           /\ ViewOf(p, e, q, r, t).queue = q
           /\ ViewOf(p, e, q, r, t).received = r
           /\ ViewOf(p, e, q, r, t).stream = t
  BY DEF ViewOf

LEMMA ViewWithOne ==
    ASSUME NEW p, NEW e, NEW q, NEW r, NEW t, NEW x
    PROVE  /\ WithPlace(ViewOf(p, e, q, r, t), x) = ViewOf(x, e, q, r, t)
           /\ WithSettled(ViewOf(p, e, q, r, t), x) = ViewOf(p, x, q, r, t)
           /\ WithQueue(ViewOf(p, e, q, r, t), x) = ViewOf(p, e, x, r, t)
  BY DEF ViewOf, WithPlace, WithSettled, WithQueue

LEMMA ViewWithTwo ==
    ASSUME NEW p, NEW e, NEW q, NEW r, NEW t, NEW x, NEW y
    PROVE  /\ WithPlaceStream(ViewOf(p, e, q, r, t), x, y) = ViewOf(x, e, q, r, y)
           /\ WithSettledQueue(ViewOf(p, e, q, r, t), x, y) = ViewOf(p, x, y, r, t)
           /\ WithSettledStream(ViewOf(p, e, q, r, t), x, y) = ViewOf(p, x, q, r, y)
           /\ WithQueueStream(ViewOf(p, e, q, r, t), x, y) = ViewOf(p, e, x, r, y)
           /\ WithQueueReceived(ViewOf(p, e, q, r, t), x, y) = ViewOf(p, e, x, y, t)
           /\ WithReceivedStream(ViewOf(p, e, q, r, t), x, y) = ViewOf(p, e, q, x, y)
<1> DEFINE v == ViewOf(p, e, q, r, t)
<1>1. WithPlaceStream(v, x, y) = ViewOf(x, e, q, r, y)
  <2> DEFINE u == [v EXCEPT !.place = x]
  <2>1. WithPlaceStream(v, x, y) = [u EXCEPT !.stream = y] /\ u = ViewOf(x, e, q, r, t)
    BY DEF WithPlaceStream, ViewOf
  <2> HIDE DEF u
  <2> QED
    BY <2>1 DEF ViewOf
<1>2. WithSettledQueue(v, x, y) = ViewOf(p, x, y, r, t)
  <2> DEFINE u == [v EXCEPT !.settled = x]
  <2>1. WithSettledQueue(v, x, y) = [u EXCEPT !.queue = y] /\ u = ViewOf(p, x, q, r, t)
    BY DEF WithSettledQueue, ViewOf
  <2> HIDE DEF u
  <2> QED
    BY <2>1 DEF ViewOf
<1>3. WithSettledStream(v, x, y) = ViewOf(p, x, q, r, y)
  <2> DEFINE u == [v EXCEPT !.settled = x]
  <2>1. WithSettledStream(v, x, y) = [u EXCEPT !.stream = y] /\ u = ViewOf(p, x, q, r, t)
    BY DEF WithSettledStream, ViewOf
  <2> HIDE DEF u
  <2> QED
    BY <2>1 DEF ViewOf
<1>4. WithQueueStream(v, x, y) = ViewOf(p, e, x, r, y)
  <2> DEFINE u == [v EXCEPT !.queue = x]
  <2>1. WithQueueStream(v, x, y) = [u EXCEPT !.stream = y] /\ u = ViewOf(p, e, x, r, t)
    BY DEF WithQueueStream, ViewOf
  <2> HIDE DEF u
  <2> QED
    BY <2>1 DEF ViewOf
<1>5. WithQueueReceived(v, x, y) = ViewOf(p, e, x, y, t)
  <2> DEFINE u == [v EXCEPT !.queue = x]
  <2>1. WithQueueReceived(v, x, y) = [u EXCEPT !.received = y] /\ u = ViewOf(p, e, x, r, t)
    BY DEF WithQueueReceived, ViewOf
  <2> HIDE DEF u
  <2> QED
    BY <2>1 DEF ViewOf
<1>6. WithReceivedStream(v, x, y) = ViewOf(p, e, q, x, y)
  <2> DEFINE u == [v EXCEPT !.received = x]
  <2>1. WithReceivedStream(v, x, y) = [u EXCEPT !.stream = y] /\ u = ViewOf(p, e, q, x, t)
    BY DEF WithReceivedStream, ViewOf
  <2> HIDE DEF u
  <2> QED
    BY <2>1 DEF ViewOf
<1> QED
  BY <1>1, <1>2, <1>3, <1>4, <1>5, <1>6
==============================================================================
