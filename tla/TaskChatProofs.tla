---------------------------- MODULE TaskChatProofs ----------------------------
(* What a chat keeps for any users, requests, connections and messages: who   *)
(* writes, what an answer says, what a connection is sent and listed, and in  *)
(* which order.  An id is in the hands of one request from its INSERT to its  *)
(* broadcast, and is broadcast once: everything else follows from that path.  *)
EXTENDS TaskChat, RoomViews, TLAPS

Fields == {"state", "user", "stream", "behind", "listed", "synced"}

\* TypeOK but for what is listed, which takes the order of the ids: see Ordered.
Shape ==
    /\ task \in Task \cup {NULL}
    /\ message \in [Messages -> Message \cup {NULL}]
    /\ posted \subseteq stored /\ stored \subseteq Messages
    /\ req \in [Requests -> Request]
    /\ socket = [s \in Sockets |-> socket[s]]
    /\ \A s \in Sockets :
          /\ DOMAIN socket[s] = Fields
          /\ socket[s].state \in {"none", "join", "in", "gone"}
          /\ socket[s].stream \in Seq(Messages)

\* m has been given to an INSERT that found its author among the members.
Written(m) ==
    /\ m \in Messages /\ message[m] # NULL
    /\ message[m].author \in message[m].members

\* The request has an id that nobody was sent yet.
Pending(q) == q.pc \in {"commit", "broadcast"}

Sound(q) ==
    /\ q.pc # "idle" => q.reply = 0
    /\ q.pc \in {"insert", "list"} => q.message = NULL
    /\ Pending(q) => Written(q.message)
    /\ q.pc = "broadcast" => q.message \in stored
    /\ q.reply = 201 => q.message \in stored
    /\ q.reply \in {400, 403, 404} => q.message = NULL

RequestsAreSound == \A r \in Requests : Sound(req[r])
StoredAreWritten == \A m \in stored : Written(m)
MembersHad == Members(task) \subseteq had /\ (task = NULL => had = {})
JoinedHad == \A s \in Sockets : socket[s].state \in {"join", "in"} => socket[s].user \in had
OneOwner ==
    \A r, q \in Requests :
        (r # q /\ Pending(req[r]) /\ Pending(req[q])) => req[r].message # req[q].message

\* A stream has stored messages, each once, and none that is still on its way.
StreamIsSound(stream) ==
    /\ Range(stream) \subseteq stored
    /\ IsInjective(stream)
    /\ \A r \in Requests : Pending(req[r]) => req[r].message \notin Range(stream)
StreamsAreSound == \A s \in Sockets : StreamIsSound(socket[s].stream)

\* The inductive invariant.
Inv ==
    /\ Shape
    /\ RequestsAreSound /\ StoredAreWritten /\ OneOwner
    /\ MembersHad /\ JoinedHad /\ StreamsAreSound

\* A request that goes on without a new id, while more is stored at most of
\* what was written.
LEMMA RequestStep ==
    ASSUME Inv, NEW r \in Requests, NEW q \in Request,
           req' = [req EXCEPT ![r] = q],
           Pending(q) => Pending(req[r]) /\ q.message = req[r].message,
           stored \subseteq stored', posted' \subseteq stored',
           \A m \in stored' : Written(m), Sound(q)',
           UNCHANGED <<task, message, had>>,
           socket' = [s \in Sockets |-> socket'[s]],
           \A s \in Sockets :
               /\ DOMAIN socket'[s] = Fields
               /\ socket'[s].state = socket[s].state
               /\ socket'[s].user = socket[s].user
               /\ socket'[s].stream \in Seq(Messages),
           StreamsAreSound'
    PROVE  Inv'
<1>1. req \in [Requests -> Request] /\ req' \in [Requests -> Request]
  BY DEF Inv, Shape
<1>2. \A m : Written(m)' <=> Written(m)
  BY DEF Written
<1>3. Shape'
  BY <1>1, <1>2 DEF Inv, Shape, Written
<1>4. RequestsAreSound'
  <2> SUFFICES ASSUME NEW t \in Requests PROVE Sound(req[t])'
    BY DEF RequestsAreSound
  <2>1. CASE t = r
    BY <1>1, <2>1
  <2>2. CASE t # r
    BY <1>1, <1>2, <2>2 DEF Inv, RequestsAreSound, Sound, Pending
  <2> QED
    BY <2>1, <2>2
<1>5. StoredAreWritten' /\ MembersHad'
  BY <1>2 DEF Inv, StoredAreWritten, MembersHad, Members
<1>6. OneOwner'
  BY <1>1 DEF Inv, OneOwner, Pending
<1>7. JoinedHad'
  BY DEF Inv, JoinedHad
<1> QED
  BY <1>3, <1>4, <1>5, <1>6, <1>7 DEF Inv

\* The same with the connections left alone.
LEMMA RequestAlone ==
    ASSUME Inv, NEW r \in Requests, NEW q \in Request,
           req' = [req EXCEPT ![r] = q],
           Pending(q) => Pending(req[r]) /\ q.message = req[r].message,
           stored \subseteq stored', posted' \subseteq stored',
           \A m \in stored' : Written(m), Sound(q)',
           UNCHANGED <<task, message, had, socket>>
    PROVE  Inv'
<1>1. req \in [Requests -> Request]
  BY DEF Inv, Shape
<1>2. \A t \in Requests : Pending(req'[t]) =>
          Pending(req[t]) /\ req'[t].message = req[t].message
  BY <1>1
<1>3. StreamsAreSound'
  BY <1>2 DEF Inv, StreamsAreSound, StreamIsSound, Pending
<1>4. /\ socket' = [s \in Sockets |-> socket'[s]]
      /\ \A s \in Sockets :
             /\ DOMAIN socket'[s] = Fields
             /\ socket'[s].state = socket[s].state
             /\ socket'[s].user = socket[s].user
             /\ socket'[s].stream \in Seq(Messages)
  BY DEF Inv, Shape
<1> QED
  BY <1>3, <1>4, RequestStep

\* The same when the request is answered or starts.
LEMMA RequestWithoutId ==
    ASSUME Inv, NEW r \in Requests, NEW q \in Request,
           req' = [req EXCEPT ![r] = q], ~Pending(q), Sound(q)',
           stored \subseteq stored', posted' \subseteq stored',
           \A m \in stored' : Written(m),
           UNCHANGED <<task, message, had, socket>>
    PROVE  Inv'
  BY RequestAlone

\* getAuthorizedTask and the checks: a refusal, or on to the next statement.
LEMMA BeginPreserves ==
    ASSUME Inv, NEW r \in Requests, NEW user \in Users,
           NEW check \in {0, 400, 403, 404}, NEW pc \in {"insert", "list"},
           Begin(r, user, check, pc)
    PROVE  Inv'
<1>1. PICK refusal \in {check, 500} :
          req' = [req EXCEPT ![r] =
                     IF refusal # 0 THEN Answered(NULL, refusal)
                     ELSE [pc |-> pc, user |-> user, message |-> NULL,
                           earlier |-> posted, reply |-> 0]]
  BY DEF Begin
<1>2. UNCHANGED <<task, message, stored, had, socket, posted>>
  BY DEF Begin, database
<1>3. /\ \A m \in stored' : Written(m)
      /\ posted \in SUBSET Messages /\ posted' \subseteq stored'
      /\ stored \subseteq stored'
  BY <1>2 DEF Inv, StoredAreWritten, Shape
<1>4. \E q \in Request :
          /\ req' = [req EXCEPT ![r] = q]
          /\ q.pc \in {"idle", "insert", "list"} /\ q.message = NULL
          /\ q.reply \in {0, 400, 403, 404, 500}
          /\ q.pc # "idle" => q.reply = 0
  <2>1. CASE refusal # 0
    <3> DEFINE q == [pc |-> "idle", user |-> NULL, message |-> NULL,
                     earlier |-> {}, reply |-> refusal]
    <3>1. req' = [req EXCEPT ![r] = q]
      BY <1>1, <2>1 DEF Answered
    <3>2. /\ q \in Request /\ q.pc = "idle" /\ q.message = NULL
          /\ q.reply \in {400, 403, 404, 500}
      BY <2>1 DEF Request
    <3> HIDE DEF q
    <3>3. q.reply \in {0, 400, 403, 404, 500} /\ q.pc \in {"idle", "insert", "list"}
      BY <3>2
    <3> USE <3>2
    <3> WITNESS q \in Request
    <3> QED
      BY <3>1, <3>2, <3>3
  <2>2. CASE refusal = 0
    <3> DEFINE q == [pc |-> pc, user |-> user, message |-> NULL,
                     earlier |-> posted, reply |-> 0]
    <3>1. req' = [req EXCEPT ![r] = q]
      BY <1>1, <2>2
    <3>2. /\ q \in Request /\ q.pc \in {"insert", "list"} /\ q.message = NULL
          /\ q.reply = 0
      BY <1>3 DEF Request
    <3> HIDE DEF q
    <3> USE <3>2
    <3> WITNESS q \in Request
    <3> QED
      BY <3>1, <3>2
  <2> QED
    BY <2>1, <2>2
<1>5. PICK q \in Request :
          /\ req' = [req EXCEPT ![r] = q]
          /\ q.pc \in {"idle", "insert", "list"} /\ q.message = NULL
          /\ q.reply \in {0, 400, 403, 404, 500}
          /\ q.pc # "idle" => q.reply = 0
  BY <1>4
<1>6. Sound(q)' /\ ~Pending(q)
  BY <1>5 DEF Sound, Pending
<1> QED
  BY <1>2, <1>3, <1>5, <1>6, RequestWithoutId

LEMMA HandlersPreserve ==
    ASSUME Inv, NEW r \in Requests, NEW user \in Users, NEW body \in Body,
           \/ HandleListTaskMessages(r, user)
           \/ HandleCreateTaskMessage(r, user, body)
    PROVE  Inv'
<1>1. AccessRefusal(task, user) \in {0, 400, 403, 404}
  BY DEF AccessRefusal
<1>2. BodyRefusal(body) \in {0, 400, 403, 404}
  BY DEF BodyRefusal
<1>3. CASE HandleListTaskMessages(r, user)
  BY <1>1, <1>3, BeginPreserves DEF HandleListTaskMessages
<1>4. CASE HandleCreateTaskMessage(r, user, body)
  <2> DEFINE check == IF AccessRefusal(task, user) # 0
                      THEN AccessRefusal(task, user) ELSE BodyRefusal(body)
  <2>1. check \in {0, 400, 403, 404} /\ Begin(r, user, check, "insert")
    BY <1>1, <1>2, <1>4 DEF HandleCreateTaskMessage
  <2> HIDE DEF check
  <2> QED
    BY <2>1, BeginPreserves
<1> QED
  BY <1>3, <1>4

\* An INSERT that found its author among the members takes a new id: nobody
\* else holds it, and nobody was sent it.
LEMMA StampPreserves ==
    ASSUME Inv, NEW r \in Requests, req[r].pc = "insert",
           canAccessTask(task, req[r].user), Stamp(r),
           UNCHANGED <<task, stored, socket, posted, had>>
    PROVE  Inv'
<1>1. /\ req \in [Requests -> Request]
      /\ message \in [Messages -> Message \cup {NULL}]
      /\ task \in Task \cup {NULL}
  BY DEF Inv, Shape
<1>2. PICK m \in Fresh :
        /\ message' = [message EXCEPT ![m] =
                          [author |-> req[r].user, members |-> Members(task),
                           earlier |-> req[r].earlier]]
        /\ req' = [req EXCEPT ![r].pc = "commit", ![r].message = m]
  BY DEF Stamp
<1>3. m \in Messages /\ message[m] = NULL
  BY <1>2 DEF Fresh
<1> DEFINE row == [author |-> req[r].user, members |-> Members(task),
                   earlier |-> req[r].earlier]
<1>4. /\ req[r].earlier \in SUBSET Messages
      /\ Members(task) \in SUBSET Users
      /\ req[r].user \in Members(task)
  BY <1>1 DEF Request, Members, Task, canAccessTask
<1>5. row \in Message /\ row.author \in row.members
  BY <1>4 DEF Message
<1>6. message' = [message EXCEPT ![m] = row]
  BY <1>2
<1> HIDE DEF row
<1>7. Written(m)' /\ \A k : k # m => (Written(k)' <=> Written(k))
  BY <1>1, <1>3, <1>5, <1>6, ChatAssumption DEF Written
<1>8. ~Written(m) /\ m \notin stored
  BY <1>3 DEF Written, Inv, StoredAreWritten
<1>9. /\ req' \in [Requests -> Request]
      /\ req'[r].pc = "commit" /\ req'[r].message = m
      /\ req'[r].reply = req[r].reply
      /\ \A t \in Requests : t # r => req'[t] = req[t]
  <2> DEFINE q == [req[r] EXCEPT !.pc = "commit", !.message = m]
  <2>1. req[r] \in Request
    BY <1>1
  <2>2. /\ q \in Request /\ q.pc = "commit" /\ q.message = m
        /\ q.reply = req[r].reply
    <3> DEFINE b == [req[r] EXCEPT !.pc = "commit"]
    <3>1. b \in Request /\ b.pc = "commit" /\ b.reply = req[r].reply
      BY <2>1 DEF Request
    <3>2. q = [b EXCEPT !.message = m]
      OBVIOUS
    <3> HIDE DEF b, q
    <3> QED
      BY <1>3, <3>1, <3>2 DEF Request
  <2>3. req' = [req EXCEPT ![r] = q]
    BY <1>1, <1>2
  <2> HIDE DEF q
  <2> QED
    BY <1>1, <2>2, <2>3
<1>10. req[r].reply = 0
  BY DEF Inv, RequestsAreSound, Sound
<1>11. Shape'
  BY <1>1, <1>5, <1>6, <1>9 DEF Inv, Shape
<1>12. RequestsAreSound'
  <2> SUFFICES ASSUME NEW t \in Requests PROVE Sound(req[t])'
    BY DEF RequestsAreSound
  <2>1. CASE t = r
    BY <1>7, <1>9, <1>10, <2>1 DEF Sound, Pending
  <2>2. CASE t # r
    <3>1. Sound(req[t]) /\ req'[t] = req[t]
      BY <1>9, <2>2 DEF Inv, RequestsAreSound
    <3> QED
      BY <1>7, <3>1 DEF Sound, Pending
  <2> QED
    BY <2>1, <2>2
<1>13. StoredAreWritten'
  BY <1>7, <1>8 DEF Inv, StoredAreWritten
<1>14. \A t \in Requests : Pending(req[t]) => req[t].message # m
  BY <1>8 DEF Inv, RequestsAreSound, Sound
<1>15. OneOwner'
  BY <1>9, <1>14 DEF Inv, OneOwner
<1>16. StreamsAreSound'
  <2> SUFFICES ASSUME NEW s \in Sockets PROVE StreamIsSound(socket[s].stream)'
    BY DEF StreamsAreSound
  <2>1. StreamIsSound(socket[s].stream)
    BY DEF Inv, StreamsAreSound
  <2> QED
    BY <1>8, <1>9, <2>1 DEF StreamIsSound
<1> QED
  BY <1>11, <1>12, <1>13, <1>15, <1>16 DEF Inv, MembersHad, JoinedHad, Members

\* An answer with an error, or none.
LEMMA RefusePreserves ==
    ASSUME Inv, NEW r \in Requests, NEW code \in {0, 404, 500},
           code = 404 => req[r].message = NULL,
           Reply(r, code), stored \subseteq stored',
           \A m \in stored' : Written(m),
           UNCHANGED <<task, message, had, socket, posted>>
    PROVE  Inv'
<1> DEFINE q == Answered(req[r].message, code)
<1>1. req \in [Requests -> Request] /\ posted \subseteq stored
  BY DEF Inv, Shape
<1>2. req' = [req EXCEPT ![r] = q]
  BY <1>1 DEF Reply
<1>3. /\ q \in Request /\ q.pc = "idle" /\ q.reply = code
      /\ q.message = req[r].message
  BY <1>1 DEF Answered, Request
<1> HIDE DEF q
<1>4. \E t \in Request : /\ t.pc = "idle" /\ t.reply = code
                         /\ t.message = req[r].message
                         /\ req' = [req EXCEPT ![r] = t]
  BY <1>2, <1>3
<1>5. PICK t \in Request : /\ t.pc = "idle" /\ t.reply = code
                          /\ t.message = req[r].message
                          /\ req' = [req EXCEPT ![r] = t]
  BY <1>4
<1>6. ~Pending(t) /\ Sound(t)'
  BY <1>5 DEF Pending, Sound
<1> QED
  BY <1>1, <1>5, <1>6, RequestWithoutId

LEMMA CreateTaskMessagePreserves ==
    ASSUME Inv, NEW r \in Requests, CreateTaskMessage(r)
    PROVE  Inv'
<1>1. CASE canAccessTask(task, req[r].user) /\ Stamp(r)
  BY <1>1, StampPreserves DEF CreateTaskMessage
<1>2. CASE Reply(r, 404) /\ UNCHANGED message
  <2>1. req[r].message = NULL
    BY DEF CreateTaskMessage, Inv, RequestsAreSound, Sound
  <2> QED
    BY <1>2, <2>1, RefusePreserves
       DEF CreateTaskMessage, Inv, StoredAreWritten
<1> QED
  BY <1>1, <1>2 DEF CreateTaskMessage

LEMMA CommitPreserves ==
    ASSUME Inv, NEW r \in Requests, Commit(r)
    PROVE  Inv'
<1> DEFINE q == [req[r] EXCEPT !.pc = "broadcast"]
<1>1. req \in [Requests -> Request] /\ posted \subseteq stored
  BY DEF Inv, Shape
<1>2. /\ req[r].pc = "commit" /\ req[r].reply = 0
      /\ stored' = stored \cup {req[r].message}
      /\ UNCHANGED <<task, message, socket, posted, had>>
  BY DEF Commit, Inv, RequestsAreSound, Sound
<1>3. Written(req[r].message)
  BY <1>2 DEF Inv, RequestsAreSound, Sound, Pending
<1>4. req' = [req EXCEPT ![r] = q]
  BY <1>1 DEF Commit, Goto
<1>5. /\ q \in Request /\ q.pc = "broadcast" /\ q.reply = 0
      /\ q.message = req[r].message
  BY <1>1, <1>2 DEF Request
<1> HIDE DEF q
<1>6. \E t \in Request : /\ t.pc = "broadcast" /\ t.reply = 0
                         /\ t.message = req[r].message
                         /\ req' = [req EXCEPT ![r] = t]
  BY <1>4, <1>5
<1>7. PICK t \in Request : /\ t.pc = "broadcast" /\ t.reply = 0
                          /\ t.message = req[r].message
                          /\ req' = [req EXCEPT ![r] = t]
  BY <1>6
<1>8. Written(t.message)'
  BY <1>2, <1>3, <1>7 DEF Written
<1>9. Sound(t)' /\ Pending(req[r])
  BY <1>2, <1>7, <1>8 DEF Sound, Pending
<1>10. \A m \in stored' : Written(m)
  BY <1>2, <1>3 DEF Inv, StoredAreWritten
<1> QED
  BY <1>1, <1>2, <1>7, <1>9, <1>10, RequestAlone

\* What a broadcast puts into each stream.
LEMMA DeliveredStreams ==
    ASSUME Shape, NEW m \in Messages, NEW full, socket' = Delivered(m, full)
    PROVE  /\ socket' = [s \in Sockets |-> socket'[s]]
           /\ \A s \in Sockets :
                 /\ DOMAIN socket'[s] = Fields
                 /\ socket'[s].state = socket[s].state
                 /\ socket'[s].user = socket[s].user
                 /\ socket'[s].stream \in Seq(Messages)
                 /\ \/ socket'[s].stream = socket[s].stream
                    \/ socket'[s].stream = Append(socket[s].stream, m)
<1>1. socket' = [s \in Sockets |-> socket'[s]]
  BY DEF Delivered
<1>2. SUFFICES ASSUME NEW s \in Sockets
      PROVE  /\ DOMAIN socket'[s] = Fields
             /\ socket'[s].state = socket[s].state
             /\ socket'[s].user = socket[s].user
             /\ socket'[s].stream \in Seq(Messages)
             /\ \/ socket'[s].stream = socket[s].stream
                \/ socket'[s].stream = Append(socket[s].stream, m)
  BY <1>1
<1>3. /\ DOMAIN socket[s] = Fields
      /\ socket[s].stream \in Seq(Messages)
      /\ Append(socket[s].stream, m) \in Seq(Messages)
  BY DEF Shape
<1>4. CASE s \in full
  <2>1. socket'[s] = [socket[s] EXCEPT !.behind = TRUE]
    BY <1>4 DEF Delivered
  <2> QED
    BY <1>3, <2>1 DEF Fields
<1>5. CASE s \notin full /\ s \in room
  <2>1. socket'[s] = [socket[s] EXCEPT !.stream = Append(@, m)]
    BY <1>5 DEF Delivered
  <2> QED
    BY <1>3, <2>1 DEF Fields
<1>6. CASE s \notin full /\ s \notin room
  <2>1. socket'[s] = socket[s]
    BY <1>6 DEF Delivered
  <2> QED
    BY <1>3, <2>1
<1> QED
  BY <1>4, <1>5, <1>6

\* A stream takes a message it does not have.
LEMMA AppendNew ==
    ASSUME NEW f \in Seq(Messages), NEW m \in Messages,
           IsInjective(f), m \notin Range(f)
    PROVE  /\ IsInjective(Append(f, m))
           /\ Range(Append(f, m)) = Range(f) \cup {m}
  BY DEF IsInjective, Range

LEMMA BroadcastPreserves ==
    ASSUME Inv, NEW r \in Requests, BroadcastTaskMessage(r)
    PROVE  Inv'
<1> DEFINE q == Answered(req[r].message, 201)
<1>1. req \in [Requests -> Request] /\ posted \subseteq stored /\ Shape
  BY DEF Inv, Shape
<1>2. /\ req[r].pc = "broadcast" /\ posted' = posted \cup {req[r].message}
      /\ UNCHANGED <<task, message, stored, had>>
  BY DEF BroadcastTaskMessage, database
<1>3. /\ req[r].message \in stored /\ req[r].message \in Messages
      /\ Pending(req[r])
  BY <1>2 DEF Inv, RequestsAreSound, Sound, Pending, Written
<1>4. req' = [req EXCEPT ![r] = q]
  BY <1>1 DEF BroadcastTaskMessage, Reply
<1>5. /\ q \in Request /\ q.pc = "idle" /\ q.reply = 201
      /\ q.message = req[r].message
  BY <1>1 DEF Answered, Request
<1> HIDE DEF q
<1>6. \E t \in Request : /\ t.pc = "idle" /\ t.reply = 201
                         /\ t.message = req[r].message
                         /\ req' = [req EXCEPT ![r] = t]
  BY <1>4, <1>5
<1>7. PICK t \in Request : /\ t.pc = "idle" /\ t.reply = 201
                          /\ t.message = req[r].message
                          /\ req' = [req EXCEPT ![r] = t]
  BY <1>6
<1>8. Sound(t)' /\ ~Pending(t)
  BY <1>2, <1>3, <1>7 DEF Sound, Pending
<1>9. /\ socket' = [s \in Sockets |-> socket'[s]]
      /\ \A s \in Sockets :
            /\ DOMAIN socket'[s] = Fields
            /\ socket'[s].state = socket[s].state
            /\ socket'[s].user = socket[s].user
            /\ socket'[s].stream \in Seq(Messages)
            /\ \/ socket'[s].stream = socket[s].stream
               \/ socket'[s].stream = Append(socket[s].stream, req[r].message)
  BY <1>1, <1>3, DeliveredStreams DEF BroadcastTaskMessage
<1>10. \A u \in Requests : Pending(req'[u]) =>
           /\ Pending(req[u]) /\ req'[u].message = req[u].message
           /\ u # r
  BY <1>1, <1>7, <1>8
<1>11. StreamsAreSound'
  <2> SUFFICES ASSUME NEW s \in Sockets PROVE StreamIsSound(socket[s].stream)'
    BY DEF StreamsAreSound
  <2> DEFINE f == socket[s].stream
             m == req[r].message
  <2>1. /\ StreamIsSound(f) /\ f \in Seq(Messages)
        /\ m \notin Range(f)
    BY <1>3 DEF Inv, Shape, StreamsAreSound, StreamIsSound
  <2>2. /\ IsInjective(Append(f, m))
        /\ Range(Append(f, m)) = Range(f) \cup {m}
    BY <1>3, <2>1, AppendNew DEF StreamIsSound
  <2>3. /\ Range(socket'[s].stream) \subseteq Range(f) \cup {m}
        /\ IsInjective(socket'[s].stream)
    BY <1>9, <2>1, <2>2 DEF StreamIsSound
  <2>4. \A u \in Requests : Pending(req'[u]) =>
            req'[u].message \notin Range(f) \cup {m}
    BY <1>3, <1>10, <2>1 DEF Inv, OneOwner, StreamIsSound
  <2> QED
    BY <1>2, <1>3, <2>1, <2>3, <2>4 DEF StreamIsSound
<1>12. \A k \in stored' : Written(k)
  BY <1>2 DEF Inv, StoredAreWritten
<1>13. stored \subseteq stored' /\ posted' \subseteq stored'
  BY <1>1, <1>2, <1>3
<1>14. /\ socket' = [s \in Sockets |-> socket'[s]]
       /\ \A s \in Sockets :
             /\ DOMAIN socket'[s] = Fields
             /\ socket'[s].state = socket[s].state
             /\ socket'[s].user = socket[s].user
             /\ socket'[s].stream \in Seq(Messages)
  BY <1>9
<1>15. /\ req' = [req EXCEPT ![r] = t] /\ Sound(t)'
       /\ Pending(t) => Pending(req[r]) /\ t.message = req[r].message
  BY <1>7, <1>8
<1> QED
  BY <1>2, <1>11, <1>12, <1>13, <1>14, <1>15, RequestStep

\* A list is an answer; what it changes of a connection is not sent.
LEMMA ListPreserves ==
    ASSUME Inv, NEW r \in Requests, ListTaskMessages(r)
    PROVE  Inv'
<1> DEFINE q == Answered(req[r].message, 200)
<1>1. req \in [Requests -> Request] /\ posted \subseteq stored /\ Shape
  BY DEF Inv, Shape
<1>2. UNCHANGED <<task, message, stored, posted, had>>
  BY DEF ListTaskMessages, database
<1>3. req' = [req EXCEPT ![r] = q]
  BY <1>1 DEF ListTaskMessages, Reply
<1>4. q \in Request /\ q.pc = "idle" /\ q.reply = 200
  BY <1>1 DEF Answered, Request
<1> HIDE DEF q
<1>5. \E t \in Request : /\ t.pc = "idle" /\ t.reply = 200
                         /\ req' = [req EXCEPT ![r] = t]
  BY <1>3, <1>4
<1>6. PICK t \in Request : /\ t.pc = "idle" /\ t.reply = 200
                          /\ req' = [req EXCEPT ![r] = t]
  BY <1>5
<1>7. Sound(t)' /\ ~Pending(t)
  BY <1>6 DEF Sound, Pending
<1>8. socket' = [s \in Sockets |-> socket'[s]]
  BY DEF ListTaskMessages
<1>9. ASSUME NEW s \in Sockets
      PROVE  /\ DOMAIN socket'[s] = Fields
             /\ socket'[s].state = socket[s].state
             /\ socket'[s].user = socket[s].user
             /\ socket'[s].stream = socket[s].stream
  <2>1. \/ socket'[s] = socket[s]
        \/ \E list : socket'[s] = [socket[s] EXCEPT !.listed = TRUE, !.synced = list]
    BY DEF ListTaskMessages
  <2>2. DOMAIN socket[s] = Fields
    BY <1>1 DEF Shape
  <2> QED
    BY <2>1, <2>2 DEF Fields
<1>10. \A u \in Requests : Pending(req'[u]) =>
           Pending(req[u]) /\ req'[u].message = req[u].message
  BY <1>1, <1>6, <1>7
<1>11. StreamsAreSound'
  <2> SUFFICES ASSUME NEW s \in Sockets PROVE StreamIsSound(socket[s].stream)'
    BY DEF StreamsAreSound
  <2>1. StreamIsSound(socket[s].stream)
    BY DEF Inv, StreamsAreSound
  <2> QED
    BY <1>2, <1>9, <1>10, <2>1 DEF StreamIsSound
<1>12. \A s \in Sockets : socket'[s].stream \in Seq(Messages)
  BY <1>1, <1>9 DEF Shape
<1>13. \A k \in stored' : Written(k)
  BY <1>2 DEF Inv, StoredAreWritten
<1>14. stored \subseteq stored' /\ posted' \subseteq stored'
  BY <1>1, <1>2
<1> QED
  BY <1>2, <1>6, <1>7, <1>8, <1>9, <1>11, <1>12, <1>13, <1>14, RequestStep

LEMMA DBErrorPreserves ==
    ASSUME Inv, NEW r \in Requests, DBError(r)
    PROVE  Inv'
<1>1. /\ Reply(r, 500)
      /\ UNCHANGED <<task, message, had, socket, posted>>
      /\ \/ stored' = stored
         \/ /\ req[r].pc = "commit"
            /\ stored' = stored \cup {req[r].message}
  BY DEF DBError
<1>2. req[r].pc = "commit" => Written(req[r].message)
  BY DEF Inv, RequestsAreSound, Sound, Pending
<1>3. stored \subseteq stored' /\ \A m \in stored' : Written(m)
  BY <1>1, <1>2 DEF Inv, StoredAreWritten
<1> QED
  BY <1>1, <1>3, RefusePreserves


\* Tasks are created and given away by others: access is only added to had.
LEMMA TaskPreserves ==
    ASSUME Inv, NEW u \in Users, NEW v \in Users,
           CreateTask(u, v) \/ Reassign(u)
    PROVE  Inv'
<1>1. UNCHANGED <<message, stored, req, socket, posted>>
  BY DEF CreateTask, Reassign
<1>2. task' \in Task /\ Members(task') \subseteq had' /\ had \subseteq had'
  <2>1. CASE CreateTask(u, v)
    BY <2>1, ChatAssumption DEF CreateTask, Inv, MembersHad, Members, Task
  <2>2. CASE Reassign(u)
    <3>1. task \in Task /\ Members(task) \subseteq had
      BY <2>2 DEF Reassign, Inv, Shape, MembersHad
    <3>2. /\ task' = [task EXCEPT !.assigned_to = u]
          /\ had' = had \cup {u}
      BY <2>2 DEF Reassign
    <3>3. task' \in Task /\ task'.created_by = task.created_by /\ task'.assigned_to = u
      BY <3>1, <3>2 DEF Task
    <3> QED
      BY <3>1, <3>2, <3>3, ChatAssumption DEF Members
  <2> QED
    BY <2>1, <2>2
<1>3. Shape'
  BY <1>1, <1>2 DEF Inv, Shape
<1>4. RequestsAreSound' /\ StoredAreWritten' /\ OneOwner'
  BY <1>1 DEF Inv, RequestsAreSound, StoredAreWritten, OneOwner, Sound, Pending,
              Written
<1>5. StreamsAreSound'
  BY <1>1 DEF Inv, StreamsAreSound, StreamIsSound, Pending
<1>6. MembersHad' /\ JoinedHad'
  BY <1>1, <1>2, ChatAssumption DEF Inv, MembersHad, JoinedHad, Members
<1> QED
  BY <1>3, <1>4, <1>5, <1>6 DEF Inv

\* Connections come and go: a stream ends, or stays as it is.
LEMMA SocketsStep ==
    ASSUME Inv, UNCHANGED had, stored \subseteq stored',
           socket' = [s \in Sockets |-> socket'[s]],
           \A s \in Sockets :
               /\ DOMAIN socket'[s] = Fields
               /\ socket'[s].state \in {"none", "join", "in", "gone"}
               /\ socket'[s].stream \in {socket[s].stream, <<>>}
               /\ socket'[s].state \in {"join", "in"} => socket'[s].user \in had,
           \A r \in Requests : Pending(req'[r]) =>
               Pending(req[r]) /\ req'[r].message = req[r].message
    PROVE  /\ JoinedHad' /\ StreamsAreSound'
           /\ \A s \in Sockets : socket'[s].stream \in Seq(Messages)
<1>1. Range(<<>>) = {} /\ IsInjective(<<>>)
  BY DEF Range, IsInjective
<1>2. JoinedHad'
  BY DEF JoinedHad
<1>3. StreamsAreSound'
  <2> SUFFICES ASSUME NEW s \in Sockets PROVE StreamIsSound(socket[s].stream)'
    BY DEF StreamsAreSound
  <2>1. StreamIsSound(socket[s].stream)
    BY DEF Inv, StreamsAreSound
  <2>2. CASE socket'[s].stream = socket[s].stream
    BY <2>1, <2>2 DEF StreamIsSound
  <2>3. CASE socket'[s].stream = <<>>
    BY <1>1, <2>3 DEF StreamIsSound
  <2> QED
    BY <2>2, <2>3
<1>4. \A s \in Sockets : socket'[s].stream \in Seq(Messages)
  <2>1. <<>> \in Seq(Messages)
    OBVIOUS
  <2>2. \A s \in Sockets : socket[s].stream \in Seq(Messages)
    BY DEF Inv, Shape
  <2> QED
    BY <2>1, <2>2
<1> QED
  BY <1>2, <1>3, <1>4

LEMMA GoneFields ==
    /\ DOMAIN Gone = Fields /\ Gone.state = "gone" /\ Gone.stream = <<>>
    /\ DOMAIN Unused = Fields /\ Unused.state = "none" /\ Unused.stream = <<>>
  BY DEF Gone, Unused, Fields


LEMMA ConnectPreserves ==
    ASSUME Inv, NEW s \in Sockets, Connect(s)
    PROVE  Inv'
<1> DEFINE From(v) == /\ DOMAIN v = Fields /\ v.state \in {"join", "in", "gone"}
                      /\ v.stream \in {socket[s].stream, <<>>}
                      /\ v.state \in {"join", "in"} => v.user \in had
<1>1. UNCHANGED <<task, message, stored, req, posted, had>>
  BY DEF Connect, HandleTaskChatWebSocket, ServeTask, Leave, database
<1>2. /\ socket = [t \in Sockets |-> socket[t]] /\ DOMAIN socket[s] = Fields
      /\ socket[s].state \in {"join", "in"} => socket[s].user \in had
      /\ \A t \in Sockets :
             /\ DOMAIN socket[t] = Fields
             /\ socket[t].state \in {"none", "join", "in", "gone"}
             /\ socket[t].state \in {"join", "in"} => socket[t].user \in had
  BY DEF Inv, Shape, JoinedHad
<1>3. \E v : socket' = [socket EXCEPT ![s] = v] /\ From(v)
  <2>1. CASE End(s)
    <3>1. socket' = [socket EXCEPT ![s] = Gone] /\ From(Gone)
      BY <2>1, GoneFields DEF End
    <3> QED
      BY <3>1
  <2>2. ASSUME NEW u \in Users, AccessRefusal(task, u) = 0,
               socket' = [socket EXCEPT ![s].state = "join", ![s].user = u]
        PROVE  \E v : socket' = [socket EXCEPT ![s] = v] /\ From(v)
    <3> DEFINE v == [socket[s] EXCEPT !.state = "join", !.user = u]
    <3>1. socket' = [socket EXCEPT ![s] = v]
      BY <1>2, <2>2
    <3>2. u \in had
      BY <2>2 DEF AccessRefusal, canAccessTask, Inv, MembersHad
    <3>3. /\ DOMAIN v = Fields /\ v.state = "join" /\ v.user = u
          /\ v.stream = socket[s].stream
      BY <1>2 DEF Fields
    <3> HIDE DEF v
    <3>4. From(v)
      BY <3>2, <3>3
    <3> QED
      BY <3>1, <3>4
  <2>3. CASE socket[s].state = "join" /\ socket' = [socket EXCEPT ![s].state = "in"]
    <3> DEFINE v == [socket[s] EXCEPT !.state = "in"]
    <3>1. socket' = [socket EXCEPT ![s] = v]
      BY <1>2, <2>3
    <3>2. From(v)
      BY <1>2, <2>3 DEF Fields
    <3> QED
      BY <3>1, <3>2
  <2> QED
    BY <2>1, <2>2, <2>3 DEF Connect, HandleTaskChatWebSocket, ServeTask, Leave
<1>4. PICK v : socket' = [socket EXCEPT ![s] = v] /\ From(v)
  BY <1>3
<1>5. socket' = [t \in Sockets |-> socket'[t]]
  BY <1>2, <1>4
<1>6. \A t \in Sockets :
          /\ DOMAIN socket'[t] = Fields
          /\ socket'[t].state \in {"none", "join", "in", "gone"}
          /\ socket'[t].stream \in {socket[t].stream, <<>>}
          /\ socket'[t].state \in {"join", "in"} => socket'[t].user \in had
  BY <1>2, <1>4
<1>7. /\ JoinedHad' /\ StreamsAreSound'
      /\ \A t \in Sockets : socket'[t].stream \in Seq(Messages)
  BY <1>1, <1>5, <1>6, SocketsStep DEF Pending
<1>8. Shape'
  BY <1>1, <1>5, <1>6, <1>7 DEF Inv, Shape
<1>9. /\ RequestsAreSound' /\ StoredAreWritten' /\ OneOwner' /\ MembersHad'
  BY <1>1 DEF Inv, RequestsAreSound, StoredAreWritten, OneOwner, MembersHad,
              Sound, Pending, Written, Members
<1> QED
  BY <1>7, <1>8, <1>9 DEF Inv

\* The process stops with INSERTs under way: what they store was written.
LEMMA CrashPreserves ==
    ASSUME Inv, Crash
    PROVE  Inv'
<1>1. UNCHANGED <<task, message, posted, had>>
  BY DEF Crash
<1>2. /\ req \in [Requests -> Request] /\ posted \subseteq stored
      /\ stored \subseteq Messages
      /\ socket = [t \in Sockets |-> socket[t]]
      /\ \A t \in Sockets :
             /\ DOMAIN socket[t] = Fields
             /\ socket[t].state \in {"none", "join", "in", "gone"}
             /\ socket[t].state \in {"join", "in"} => socket[t].user \in had
  BY DEF Inv, Shape, JoinedHad
<1>3. PICK late \in SUBSET {req[r].message :
                              r \in {q \in Requests : req[q].pc = "commit"}} :
          stored' = stored \cup late
  BY DEF Crash
<1>4. \A m \in late : Written(m)
  BY <1>3 DEF Inv, RequestsAreSound, Sound, Pending
<1>5. stored \subseteq stored' /\ StoredAreWritten'
  BY <1>1, <1>3, <1>4 DEF Inv, StoredAreWritten, Written
<1>6. \A r \in Requests :
          /\ req'[r] \in Request /\ req'[r].pc = "idle"
          /\ req'[r] = req[r] \/ req'[r].reply = 0
  <2> SUFFICES ASSUME NEW r \in Requests
      PROVE /\ req'[r] \in Request /\ req'[r].pc = "idle"
            /\ req'[r] = req[r] \/ req'[r].reply = 0
    OBVIOUS
  <2>1. req[r] \in Request
    BY <1>2
  <2>2. CASE req[r].pc = "idle"
    BY <2>1, <2>2 DEF Crash
  <2>3. CASE req[r].pc # "idle"
    <3>1. req'[r] = Answered(req[r].message, 0)
      BY <2>3 DEF Crash
    <3> QED
      BY <2>1, <3>1 DEF Answered, Request
  <2> QED
    BY <2>2, <2>3
<1>7. req' \in [Requests -> Request]
  BY <1>6 DEF Crash
<1>8. RequestsAreSound'
  BY <1>5, <1>6 DEF Inv, RequestsAreSound, Sound, Pending
<1>9. OneOwner' /\ MembersHad'
  BY <1>1, <1>6 DEF Inv, OneOwner, MembersHad, Members, Pending
<1>10. /\ socket' = [s \in Sockets |-> socket'[s]]
       /\ \A s \in Sockets : socket'[s] \in {socket[s], Gone}
  BY DEF Crash
<1>11. \A s \in Sockets :
          /\ DOMAIN socket'[s] = Fields
          /\ socket'[s].state \in {"none", "join", "in", "gone"}
          /\ socket'[s].stream \in {socket[s].stream, <<>>}
          /\ socket'[s].state \in {"join", "in"} => socket'[s].user \in had
  BY <1>2, <1>10, GoneFields
<1>12. /\ JoinedHad' /\ StreamsAreSound'
       /\ \A t \in Sockets : socket'[t].stream \in Seq(Messages)
  BY <1>1, <1>5, <1>6, <1>10, <1>11, SocketsStep DEF Pending
<1>13. Shape'
  <2>1. stored' \subseteq Messages /\ posted' \subseteq stored'
    BY <1>1, <1>2, <1>3, <1>4 DEF Written
  <2> QED
    BY <1>1, <1>7, <1>10, <1>11, <1>12, <2>1 DEF Inv, Shape
<1> QED
  BY <1>5, <1>8, <1>9, <1>12, <1>13 DEF Inv

\* The invariant holds of every state of a chat.
THEOREM ChatInvariance == Spec => []Inv
<1>1. Init => Inv
  <2> SUFFICES ASSUME Init PROVE Inv
    OBVIOUS
  <2>1. /\ \A r \in Requests : req[r] = Answered(NULL, 0)
        /\ Answered(NULL, 0) \in Request
    BY DEF Init, Answered, Request
  <2>2. <<>> \in Seq(Messages) /\ Range(<<>>) = {} /\ IsInjective(<<>>)
    BY DEF Range, IsInjective
  <2>3. /\ socket = [s \in Sockets |-> socket[s]]
        /\ \A s \in Sockets : socket[s] = Unused
    BY DEF Init
  <2>4. req \in [Requests -> Request]
    BY <2>1 DEF Init
  <2>5. Shape
    BY <2>2, <2>3, <2>4, GoneFields DEF Init, Shape
  <2>6. RequestsAreSound /\ OneOwner
    BY <2>1 DEF RequestsAreSound, OneOwner, Sound, Pending, Answered
  <2>7. StoredAreWritten /\ MembersHad
    BY DEF Init, StoredAreWritten, MembersHad, Members
  <2>8. JoinedHad
    BY <2>3, GoneFields DEF JoinedHad
  <2>9. StreamsAreSound
    BY <2>1, <2>2, <2>3, GoneFields
       DEF StreamsAreSound, StreamIsSound, Pending, Answered
  <2> QED
    BY <2>5, <2>6, <2>7, <2>8, <2>9 DEF Inv
<1>2. Inv /\ [Next]_vars => Inv'
  <2> SUFFICES ASSUME Inv, [Next]_vars PROVE Inv'
    OBVIOUS
  <2>1. CASE \E u, v \in Users : CreateTask(u, v)
    BY <2>1, TaskPreserves
  <2>2. CASE \E u \in Users : Reassign(u)
    BY <2>2, TaskPreserves
  <2>3. CASE \E r \in Requests : Serve(r)
    <3> PICK r \in Requests : Serve(r)
      BY <2>3
    <3> HIDE <2>3
    <3>1. CASE \E u \in Users : HandleListTaskMessages(r, u)
      BY <3>1, HandlersPreserve DEF Body
    <3>2. CASE \E u \in Users, body \in Body : HandleCreateTaskMessage(r, u, body)
      BY <3>2, HandlersPreserve
    <3>3. CASE CreateTaskMessage(r)
      BY <3>3, CreateTaskMessagePreserves
    <3>4. CASE Commit(r)
      BY <3>4, CommitPreserves
    <3>5. CASE BroadcastTaskMessage(r)
      BY <3>5, BroadcastPreserves
    <3>6. CASE ListTaskMessages(r)
      BY <3>6, ListPreserves
    <3>7. CASE DBError(r)
      BY <3>7, DBErrorPreserves
    <3> QED
      BY <3>1, <3>2, <3>3, <3>4, <3>5, <3>6, <3>7 DEF Serve
  <2>4. CASE \E s \in Sockets : Connect(s)
    BY <2>4, ConnectPreserves
  <2>5. CASE Crash
    BY <2>5, CrashPreserves
  <2>6. CASE UNCHANGED vars
    BY <2>6 DEF vars, Inv, Shape, RequestsAreSound, StoredAreWritten, OneOwner,
                MembersHad, JoinedHad, StreamsAreSound, StreamIsSound, Sound,
                Pending, Written, Members
  <2> QED
    BY <2>1, <2>2, <2>3, <2>4, <2>5, <2>6 DEF Next
<1> QED
  BY <1>1, <1>2, PTL DEF Spec

\* A stored message is by someone who had access when its INSERT began,
\* whoever the task was given to between the two reads (tasks.go:206-211).
THEOREM WritersWereMembers == Spec => []StoredByMembers
<1>1. Inv => StoredByMembers
  BY DEF Inv, StoredAreWritten, Written, StoredByMembers
<1> QED
  BY <1>1, ChatInvariance, PTL

\* A 201 means the message is stored, a 4xx that it is not, through errors,
\* clients that went away and crashes (handlers_chat.go:43-59).
THEOREM Truth == Spec => []AnswersTellTruth
<1>1. Inv => AnswersTellTruth
  BY ChatAssumption
     DEF Inv, Shape, RequestsAreSound, Sound, AnswersTellTruth
<1> QED
  BY <1>1, ChatInvariance, PTL

\* A connection is sent what is stored, once, and only with a user who had
\* access at some time (handlers_chat.go:69-79).
THEOREM Honesty == Spec => []StreamsAreHonest
<1>1. Inv => StreamsAreHonest
  BY DEF Inv, StreamsAreSound, StreamIsSound, JoinedHad, StreamsAreHonest
<1> QED
  BY <1>1, ChatInvariance, PTL

------------------------------------------------------------------------------
(* Order: what lists and streams keep of who knew of which message.  Ids are  *)
(* stamped one after the other, and what a request knew of was posted, which  *)
(* is never broadcast again.                                                  *)

StampedOnce ==
    /\ stamped \in Seq(Messages) /\ IsInjective(stamped)
    /\ Range(stamped) = {m \in Messages : message[m] # NULL}

PendingAreNotPosted ==
    \A r \in Requests : Pending(req[r]) => req[r].message \notin posted

EarlierArePosted ==
    /\ \A r \in Requests : req[r].earlier \subseteq posted
    /\ \A m \in Range(stamped) : message[m].earlier \subseteq posted

\* Whatever the author of a message knew of comes before it.
Causal(seq) ==
    \A m \in Range(stamped) : \A k \in message[m].earlier : Precedes(seq, k, m)

InOrder ==
    /\ Causal(stamped)
    /\ \A s \in Sockets : Causal(socket[s].stream) /\ Causal(socket[s].synced)

ListsAreSound ==
    \A s \in Sockets :
        /\ Range(socket[s].synced) \subseteq stored
        /\ socket[s].state # "in" => ~socket[s].listed

\* The inductive invariant of the order, next to Inv.
Ordered ==
    /\ TypeOK /\ StampedOnce
    /\ PendingAreNotPosted /\ EarlierArePosted
    /\ InOrder /\ ListsAreSound /\ JoinThenListMissesNothing

LEMMA SocketShapes ==
    /\ Gone \in Socket
    /\ \A v \in Socket :
          /\ [v EXCEPT !.state = "in"] \in Socket
          /\ \A u \in Users : [v EXCEPT !.state = "join", !.user = u] \in Socket
<1>1. Unused \in Socket
  <2>1. <<>> \in Seq(Messages)
    OBVIOUS
  <2> QED
    BY <2>1 DEF Unused, Socket
<1>2. Gone \in Socket
  <2> HIDE DEF Unused
  <2> QED
    BY <1>1 DEF Gone, Socket
<1>3. ASSUME NEW v \in Socket
      PROVE  /\ [v EXCEPT !.state = "in"] \in Socket
             /\ \A u \in Users : [v EXCEPT !.state = "join", !.user = u] \in Socket
  <2>1. \A w \in {"in", "join"} : [v EXCEPT !.state = w] \in Socket
    BY DEF Socket
  <2>2. ASSUME NEW u \in Users PROVE [v EXCEPT !.state = "join", !.user = u] \in Socket
    <3> DEFINE w == [v EXCEPT !.state = "join"]
    <3>1. w \in Socket /\ [v EXCEPT !.state = "join", !.user = u] = [w EXCEPT !.user = u]
      BY <2>1
    <3> HIDE DEF w
    <3> QED
      BY <3>1 DEF Socket
  <2> QED
    BY <2>1, <2>2
<1> QED
  BY <1>2, <1>3

\* What of TypeOK is not in Shape.
LEMMA TypeOfRest ==
    ASSUME Inv, Ordered, [Next]_vars
    PROVE  /\ stamped' \in Seq(Messages) /\ had' \subseteq Users
           /\ socket' \in [Sockets -> Socket]
<1> USE DEF Ordered, TypeOK
<1>1. CASE \E u, v \in Users : CreateTask(u, v)
  BY <1>1 DEF CreateTask
<1>2. CASE \E u \in Users : Reassign(u)
  BY <1>2 DEF Reassign
<1>3. CASE \E r \in Requests : Serve(r)
  <2> PICK r \in Requests : Serve(r)
    BY <1>3
  <2>1. CASE CreateTaskMessage(r)
    BY <2>1 DEF CreateTaskMessage, Stamp, Fresh
  <2>2. CASE BroadcastTaskMessage(r)
    <3>1. PICK full \in SUBSET room : socket' = Delivered(req[r].message, full)
      BY <2>2 DEF BroadcastTaskMessage
    <3>2. req[r].message \in Messages
      BY <2>2 DEF BroadcastTaskMessage, Inv, RequestsAreSound, Sound, Pending, Written
    <3>3. ASSUME NEW s \in Sockets PROVE socket'[s] \in Socket
      <4>1. socket[s] \in Socket
        OBVIOUS
      <4>2. Append(socket[s].stream, req[r].message) \in Seq(Messages)
        BY <3>2, <4>1 DEF Socket
      <4>3. \/ socket'[s] = [socket[s] EXCEPT !.behind = TRUE]
            \/ socket'[s] = [socket[s] EXCEPT !.stream = Append(@, req[r].message)]
            \/ socket'[s] = socket[s]
        BY <3>1 DEF Delivered
      <4> QED
        BY <4>1, <4>2, <4>3 DEF Socket
    <3>4. socket' = [s \in Sockets |-> socket'[s]]
      BY <3>1 DEF Delivered
    <3>5. UNCHANGED <<stamped, had>>
      BY <2>2 DEF BroadcastTaskMessage, database
    <3> QED
      BY <3>3, <3>4, <3>5
  <2>3. CASE ListTaskMessages(r)
    <3>1. PICK list \in Listings :
            \A s \in Sockets : socket'[s] \in
                {socket[s], [socket[s] EXCEPT !.listed = TRUE, !.synced = list]}
      BY <2>3 DEF ListTaskMessages
    <3>2. list \in Seq(Messages)
      <4>1. stored \subseteq Messages /\ Len(stamped) \in Nat
        OBVIOUS
      <4>2. PICK n \in 0..Len(stamped) : list \in [1..n -> stored]
        BY <3>1 DEF Listings, SeqOf
      <4> QED
        BY <4>1, <4>2
    <3>3. ASSUME NEW s \in Sockets PROVE socket'[s] \in Socket
      <4>1. socket[s] \in Socket
        OBVIOUS
      <4> QED
        BY <3>1, <3>2, <4>1 DEF Socket
    <3>4. socket' = [s \in Sockets |-> socket'[s]]
      BY <2>3 DEF ListTaskMessages
    <3>5. UNCHANGED <<stamped, had>>
      BY <2>3 DEF ListTaskMessages, database
    <3> QED
      BY <3>3, <3>4, <3>5
  <2>4. CASE UNCHANGED <<stamped, had, socket>>
    BY <2>4
  <2> QED
    BY <2>1, <2>2, <2>3, <2>4
       DEF Serve, HandleListTaskMessages, HandleCreateTaskMessage, Begin, Commit,
           DBError, database
<1>4. CASE \E s \in Sockets : Connect(s)
  <2> PICK s \in Sockets : Connect(s)
    BY <1>4
  <2>1. /\ socket[s] \in Socket /\ Gone \in Socket
        /\ \A u \in Users : [socket[s] EXCEPT !.state = "join", !.user = u] \in Socket
        /\ [socket[s] EXCEPT !.state = "in"] \in Socket
    BY SocketShapes
  <2>2. \/ End(s)
        \/ \E u \in Users :
              socket' = [socket EXCEPT ![s].state = "join", ![s].user = u]
        \/ socket' = [socket EXCEPT ![s].state = "in"]
    BY DEF Connect, HandleTaskChatWebSocket, ServeTask, Leave
  <2>3. UNCHANGED <<stamped, had>>
    BY DEF Connect, HandleTaskChatWebSocket, ServeTask, Leave, database
  <2> QED
    BY <2>1, <2>2, <2>3 DEF End
<1>5. CASE Crash
  <2>1. Gone \in Socket
    BY SocketShapes
  <2> QED
    BY <1>5, <2>1 DEF Crash
<1>6. CASE UNCHANGED vars
  BY <1>6 DEF vars
<1> QED
  BY <1>1, <1>2, <1>3, <1>4, <1>5, <1>6 DEF Next

\* Types are kept.
LEMMA TypeStep ==
    ASSUME Inv, Inv', Ordered, [Next]_vars
    PROVE  TypeOK'
  BY TypeOfRest DEF Inv, Shape, TypeOK

\* A sequence stays causal when it takes a message nobody in it knew of.
LEMMA PrecedesAppend ==
    ASSUME NEW f \in Seq(Messages), NEW e \in Messages, NEW k \in Messages,
           NEW m \in Messages, Precedes(f, k, m), k # m,
           e = k => m \notin Range(f)
    PROVE  Precedes(Append(f, e), k, m)
  BY DEF Precedes, Range

\* The author of a message cannot have known of it.
LEMMA Irreflexive ==
    ASSUME Ordered, NEW m \in Range(stamped), NEW k \in message[m].earlier
    PROVE  k # m /\ k \in posted /\ k \in Messages /\ m \in Messages
<1>1. PICK i \in DOMAIN stamped : stamped[i] = m
  BY DEF Range
<1>2. i \in Nat /\ Precedes(stamped, k, m)
  BY DEF Ordered, StampedOnce, InOrder, Causal
<1>3. k # m
  BY <1>1, <1>2 DEF Precedes
<1> QED
  BY <1>3 DEF Ordered, TypeOK, StampedOnce, EarlierArePosted

LEMMA StoredAreStamped ==
    ASSUME Inv, Ordered
    PROVE  posted \subseteq stored /\ stored \subseteq Range(stamped)
  BY DEF Inv, Shape, StoredAreWritten, Written, Ordered, StampedOnce

\* Every step but the INSERT, the broadcast and the list: no message gets an id
\* or is posted, and connections only come and go.
LEMMA QuietStep ==
    ASSUME Ordered, TypeOK', UNCHANGED <<message, stamped, posted>>,
           stored \subseteq stored',
           \A r \in Requests :
               /\ Pending(req'[r]) =>
                      Pending(req[r]) /\ req'[r].message = req[r].message
               /\ req'[r].earlier \subseteq posted,
           \A s \in Sockets :
               \/ socket'[s] = socket[s]
               \/ socket'[s] = Gone
               \/ /\ socket[s].state # "in"
                  /\ socket'[s].stream = socket[s].stream
                  /\ socket'[s].synced = socket[s].synced
                  /\ socket'[s].listed = socket[s].listed
    PROVE  Ordered'
<1>1. /\ Gone.state = "gone" /\ Gone.stream = <<>> /\ Gone.synced = <<>>
      /\ ~Gone.listed /\ Range(<<>>) = {} /\ DOMAIN <<>> = {}
  BY DEF Gone, Unused, Range
<1>2. StampedOnce'
  BY DEF Ordered, StampedOnce
<1>3. PendingAreNotPosted' /\ EarlierArePosted'
  BY DEF Ordered, PendingAreNotPosted, EarlierArePosted, Pending
<1>4. ListsAreSound'
  BY <1>1 DEF Ordered, ListsAreSound
<1>5. InOrder'
  <2>1. Causal(stamped)'
    BY DEF Ordered, InOrder, Causal
  <2>2. ASSUME NEW s \in Sockets
        PROVE  Causal(socket[s].stream)' /\ Causal(socket[s].synced)'
    <3>1. /\ Causal(socket[s].stream) /\ Causal(socket[s].synced)
          /\ \A m, k : Precedes(<<>>, k, m)
      BY <1>1 DEF Ordered, InOrder, Precedes
    <3>2. /\ socket'[s].stream \in {socket[s].stream, <<>>}
          /\ socket'[s].synced \in {socket[s].synced, <<>>}
      BY <1>1
    <3> QED
      BY <3>1, <3>2 DEF Causal
  <2> QED
    BY <2>1, <2>2 DEF InOrder
<1>6. JoinThenListMissesNothing'
  <2> SUFFICES ASSUME NEW s \in Sockets, socket'[s].state = "in",
                      socket'[s].listed, ~socket'[s].behind
               PROVE  posted' \subseteq Range(socket'[s].synced) \cup Range(socket'[s].stream)
    BY DEF JoinThenListMissesNothing, room
  <2>1. socket'[s] = socket[s]
    BY <1>1 DEF Ordered, ListsAreSound
  <2> QED
    BY <2>1 DEF Ordered, JoinThenListMissesNothing, room
<1> QED
  BY <1>2, <1>3, <1>4, <1>5, <1>6 DEF Ordered

\* An INSERT: its author knew of posted messages only, which are stamped.
LEMMA StampOrdered ==
    ASSUME Inv, Inv', Ordered, TypeOK', NEW r \in Requests, Stamp(r),
           UNCHANGED <<stored, socket, posted>>
    PROVE  Ordered'
<1>1. PICK m \in Fresh :
        /\ message' = [message EXCEPT ![m] =
                          [author |-> req[r].user, members |-> Members(task),
                           earlier |-> req[r].earlier]]
        /\ stamped' = Append(stamped, m)
        /\ req' = [req EXCEPT ![r].pc = "commit", ![r].message = m]
  BY DEF Stamp
<1>2. /\ m \in Messages /\ message[m] = NULL /\ m \notin Range(stamped)
      /\ stamped \in Seq(Messages) /\ IsInjective(stamped)
      /\ Range(stamped) = {k \in Messages : message[k] # NULL}
  BY <1>1 DEF Fresh, Ordered, StampedOnce
<1>3. /\ IsInjective(stamped') /\ stamped' \in Seq(Messages)
      /\ Range(stamped') = Range(stamped) \cup {m}
  BY <1>1, <1>2, AppendNew
<1>4. /\ req'[r].pc = "commit" /\ req'[r].message = m
      /\ req'[r].earlier = req[r].earlier
      /\ \A t \in Requests : t # r => req'[t] = req[t]
  <2>1. req \in [Requests -> Request] /\ req[r] \in Request
    BY DEF Ordered, TypeOK
  <2> QED
    BY <1>1, <2>1 DEF Request
<1>5. message'[m] # NULL
  BY <1>4 DEF Inv, RequestsAreSound, Sound, Pending, Written
<1>6. /\ message'[m].earlier = req[r].earlier
      /\ \A k \in Messages : k # m => message'[k] = message[k]
  BY <1>1, <1>2 DEF Ordered, TypeOK
<1>7. StampedOnce'
  BY <1>2, <1>3, <1>5, <1>6 DEF StampedOnce
<1>8. m \notin posted /\ posted \subseteq Range(stamped)
  BY <1>2, StoredAreStamped
<1>9. PendingAreNotPosted'
  <2> SUFFICES ASSUME NEW t \in Requests, Pending(req'[t])
               PROVE  req'[t].message \notin posted
    BY DEF PendingAreNotPosted, Pending
  <2>1. CASE t = r
    BY <1>4, <1>8, <2>1
  <2>2. CASE t # r
    BY <1>4, <2>2 DEF Ordered, PendingAreNotPosted
  <2> QED
    BY <2>1, <2>2
<1>10. EarlierArePosted'
  BY <1>2, <1>3, <1>4, <1>6 DEF Ordered, EarlierArePosted
<1>11. req[r].earlier \subseteq posted
  BY DEF Ordered, EarlierArePosted
<1>12. Causal(stamped)'
  <2> SUFFICES ASSUME NEW k \in Range(stamped'), NEW e \in message'[k].earlier
               PROVE  Precedes(stamped', e, k)
    BY DEF Causal
  <2>1. CASE k = m
    <3>1. e # m /\ e \in Messages
      BY <1>6, <1>8, <1>11, <2>1 DEF Ordered, TypeOK
    <3>2. Precedes(stamped, e, m)
      BY <1>2 DEF Precedes, Range
    <3> QED
      BY <1>1, <1>2, <2>1, <3>1, <3>2, PrecedesAppend
  <2>2. CASE k # m
    <3>1. k \in Range(stamped) /\ e \in message[k].earlier
      BY <1>2, <1>3, <1>6, <2>2
    <3>2. Precedes(stamped, e, k)
      BY <3>1 DEF Ordered, InOrder, Causal
    <3>3. e # k /\ e # m /\ e \in Messages /\ k \in Messages
      BY <1>8, <3>1, Irreflexive
    <3> QED
      BY <1>1, <1>2, <3>2, <3>3, PrecedesAppend
  <2> QED
    BY <2>1, <2>2
<1>13. ASSUME NEW seq, Range(seq) \subseteq stored, Causal(seq)
       PROVE  \A k \in Range(stamped') : \A e \in message'[k].earlier : Precedes(seq, e, k)
  <2> SUFFICES ASSUME NEW k \in Range(stamped'), NEW e \in message'[k].earlier
               PROVE  Precedes(seq, e, k)
    OBVIOUS
  <2>1. CASE k = m
    <3>1. m \notin Range(seq)
      BY <1>2, <1>13, StoredAreStamped
    <3> QED
      BY <2>1, <3>1 DEF Precedes, Range
  <2>2. CASE k # m
    BY <1>2, <1>3, <1>6, <1>13, <2>2 DEF Causal
  <2> QED
    BY <2>1, <2>2
<1>14. InOrder'
  <2> SUFFICES ASSUME NEW s \in Sockets
               PROVE  Causal(socket[s].stream)' /\ Causal(socket[s].synced)'
    BY <1>12 DEF InOrder
  <2>1. /\ Range(socket[s].stream) \subseteq stored /\ Causal(socket[s].stream)
        /\ Range(socket[s].synced) \subseteq stored /\ Causal(socket[s].synced)
    BY DEF Inv, StreamsAreSound, StreamIsSound, Ordered, InOrder, ListsAreSound
  <2>2. socket' = socket
    OBVIOUS
  <2> QED
    BY <1>13, <2>1, <2>2 DEF Causal
<1>15. ListsAreSound' /\ JoinThenListMissesNothing'
  BY DEF Ordered, ListsAreSound, JoinThenListMissesNothing, room
<1> QED
  BY <1>7, <1>9, <1>10, <1>14, <1>15 DEF Ordered

\* A broadcast: a message that is sent now was posted by nobody, so that no
\* message in a stream has an author who knew of it.
LEMMA BroadcastOrdered ==
    ASSUME Inv, Ordered, TypeOK', NEW r \in Requests, BroadcastTaskMessage(r)
    PROVE  Ordered'
<1> DEFINE m == req[r].message
<1>1. PICK full \in SUBSET room : socket' = Delivered(m, full)
  BY DEF BroadcastTaskMessage
<1>2. /\ Pending(req[r]) /\ m \in Messages /\ m \in stored /\ m \notin posted
      /\ m \in Range(stamped)
  BY StoredAreStamped
     DEF BroadcastTaskMessage, Inv, RequestsAreSound, Sound, Pending, Written,
         Ordered, PendingAreNotPosted
<1>3. /\ posted' = posted \cup {m}
      /\ UNCHANGED <<message, stamped, stored>>
  BY DEF BroadcastTaskMessage, database
<1>4. /\ req'[r].pc = "idle" /\ req'[r].earlier = {}
      /\ \A t \in Requests : t # r => req'[t] = req[t]
  BY DEF BroadcastTaskMessage, Reply, Answered, Ordered, TypeOK
<1>5. StampedOnce'
  BY <1>3 DEF Ordered, StampedOnce
<1>6. PendingAreNotPosted'
  BY <1>2, <1>3, <1>4
     DEF Ordered, PendingAreNotPosted, Inv, OneOwner, Pending
<1>7. EarlierArePosted'
  BY <1>3, <1>4 DEF Ordered, EarlierArePosted
<1>8. ASSUME NEW s \in Sockets
      PROVE  /\ socket'[s].synced = socket[s].synced
             /\ socket'[s].listed = socket[s].listed
             /\ socket'[s].state = socket[s].state
             /\ \/ socket'[s].stream = socket[s].stream
                   /\ (s \in room => socket'[s].behind)
                \/ /\ socket'[s].stream = Append(socket[s].stream, m)
                   /\ socket'[s].behind = socket[s].behind
  <2>1. socket[s] \in Socket
    BY DEF Ordered, TypeOK
  <2>2. CASE s \in full
    <3>1. socket'[s] = [socket[s] EXCEPT !.behind = TRUE]
      BY <1>1, <2>2 DEF Delivered
    <3> QED
      BY <2>1, <3>1 DEF Socket
  <2>3. CASE s \notin full /\ s \in room
    <3>1. socket'[s] = [socket[s] EXCEPT !.stream = Append(@, m)]
      BY <1>1, <2>3 DEF Delivered
    <3> QED
      BY <2>1, <3>1 DEF Socket
  <2>4. CASE s \notin full /\ s \notin room
    BY <1>1, <2>4 DEF Delivered
  <2> QED
    BY <2>2, <2>3, <2>4
<1>9. ListsAreSound'
  BY <1>3, <1>8 DEF Ordered, ListsAreSound
<1>10. ASSUME NEW s \in Sockets PROVE Causal(Append(socket[s].stream, m))
  <2>1. /\ socket[s].stream \in Seq(Messages) /\ Causal(socket[s].stream)
    BY DEF Ordered, TypeOK, Socket, InOrder
  <2> SUFFICES ASSUME NEW k \in Range(stamped), NEW e \in message[k].earlier
               PROVE  Precedes(Append(socket[s].stream, m), e, k)
    BY DEF Causal
  <2>2. e # k /\ e # m /\ e \in Messages /\ k \in Messages
    BY <1>2, Irreflexive
  <2> QED
    BY <1>2, <2>1, <2>2, PrecedesAppend DEF Causal
<1>11. InOrder'
  <2>1. Causal(stamped)'
    BY <1>3 DEF Ordered, InOrder, Causal
  <2>2. ASSUME NEW s \in Sockets
        PROVE  Causal(socket[s].stream)' /\ Causal(socket[s].synced)'
    BY <1>3, <1>8, <1>10 DEF Ordered, InOrder, Causal
  <2> QED
    BY <2>1, <2>2 DEF InOrder
<1>12. JoinThenListMissesNothing'
  <2> SUFFICES ASSUME NEW s \in Sockets, socket'[s].state = "in",
                      socket'[s].listed, ~socket'[s].behind
               PROVE  posted' \subseteq Range(socket'[s].synced) \cup Range(socket'[s].stream)
    BY DEF JoinThenListMissesNothing, room
  <2>1. /\ s \in room /\ socket[s].listed /\ ~socket[s].behind
        /\ socket'[s].synced = socket[s].synced
        /\ socket'[s].stream = Append(socket[s].stream, m)
    BY <1>8 DEF room
  <2>2. Range(Append(socket[s].stream, m)) = Range(socket[s].stream) \cup {m}
    <3>1. /\ socket[s].stream \in Seq(Messages)
          /\ IsInjective(socket[s].stream) /\ m \notin Range(socket[s].stream)
      BY <1>2 DEF Ordered, TypeOK, Socket, Inv, StreamsAreSound, StreamIsSound
    <3> HIDE DEF m
    <3> QED
      BY <1>2, <3>1, AppendNew
  <2> QED
    BY <1>3, <2>1, <2>2 DEF Ordered, JoinThenListMissesNothing
<1> QED
  BY <1>5, <1>6, <1>7, <1>9, <1>11, <1>12 DEF Ordered

\* A list is sorted by created_at, and has all there is: a message its author
\* knew of comes before it, and nothing that was posted is left out.
LEMMA ListingIsCausal ==
    ASSUME Inv, Ordered, NEW list \in Listings
    PROVE  Range(list) = stored /\ Causal(list)
<1>1. /\ Range(list) = stored
      /\ \A i, j \in DOMAIN list : i < j => Before(list[i], list[j])
  BY DEF Listings
<1>2. DOMAIN list \subseteq Nat
  BY DEF Listings, SeqOf
<1>3. SUFFICES ASSUME NEW m \in Range(stamped), NEW k \in message[m].earlier,
                      NEW i \in DOMAIN list, NEW j \in DOMAIN list,
                      list[i] = m, list[j] = k
               PROVE  j < i
  BY <1>1 DEF Causal, Precedes
<1>4. i # j
  BY <1>3, Irreflexive
<1>5. ~Before(m, k)
  <2>1. Precedes(stamped, k, m) /\ DOMAIN stamped \subseteq Nat
    BY DEF Ordered, StampedOnce, InOrder, Causal
  <2> QED
    BY <2>1 DEF Precedes, Before
<1> QED
  BY <1>1, <1>2, <1>3, <1>4, <1>5

LEMMA ListOrdered ==
    ASSUME Inv, Ordered, TypeOK', NEW r \in Requests, ListTaskMessages(r)
    PROVE  Ordered'
<1>1. PICK list \in Listings : \A s \in Sockets :
          \/ socket'[s] = socket[s]
          \/ /\ socket[s].state = "in"
             /\ socket'[s] = [socket[s] EXCEPT !.listed = TRUE, !.synced = list]
  BY DEF ListTaskMessages
<1>2. UNCHANGED <<message, stamped, stored, posted>>
  BY DEF ListTaskMessages, database
<1>3. Range(list) = stored /\ Causal(list)
  BY ListingIsCausal
<1>4. /\ req'[r].pc = "idle" /\ req'[r].earlier = {}
      /\ \A t \in Requests : t # r => req'[t] = req[t]
  BY DEF ListTaskMessages, Reply, Answered, Ordered, TypeOK
<1>5. StampedOnce'
  BY <1>2 DEF Ordered, StampedOnce
<1>6. PendingAreNotPosted' /\ EarlierArePosted'
  BY <1>2, <1>4 DEF Ordered, PendingAreNotPosted, EarlierArePosted, Pending
<1>7. ASSUME NEW s \in Sockets
      PROVE  /\ socket'[s].stream = socket[s].stream
             /\ socket'[s].behind = socket[s].behind
             /\ socket'[s].state = socket[s].state
             /\ \/ /\ socket'[s].synced = socket[s].synced
                   /\ socket'[s].listed = socket[s].listed
                \/ socket[s].state = "in" /\ socket'[s].synced = list
  <2>1. socket[s] \in Socket
    BY DEF Ordered, TypeOK
  <2> QED
    BY <1>1, <2>1 DEF Socket
<1>8. ListsAreSound'
  BY <1>2, <1>3, <1>7 DEF Ordered, ListsAreSound
<1>9. InOrder'
  <2>1. Causal(stamped)'
    BY <1>2 DEF Ordered, InOrder, Causal
  <2>2. ASSUME NEW s \in Sockets
        PROVE  Causal(socket[s].stream)' /\ Causal(socket[s].synced)'
    BY <1>2, <1>3, <1>7 DEF Ordered, InOrder, Causal
  <2> QED
    BY <2>1, <2>2 DEF InOrder
<1>10. JoinThenListMissesNothing'
  <2>1. posted \subseteq stored
    BY StoredAreStamped
  <2> QED
    BY <1>2, <1>3, <1>7, <2>1 DEF Ordered, JoinThenListMissesNothing, room
<1> QED
  BY <1>5, <1>6, <1>8, <1>9, <1>10 DEF Ordered

\* The requests that take no id, and the connections.
LEMMA QuietRequests ==
    ASSUME Inv, Ordered, TypeOK', NEW r \in Requests,
           \/ \E u \in Users : HandleListTaskMessages(r, u)
           \/ \E u \in Users, body \in Body : HandleCreateTaskMessage(r, u, body)
           \/ CreateTaskMessage(r) /\ ~Stamp(r)
           \/ Commit(r)
           \/ DBError(r)
    PROVE  Ordered'
<1>1. UNCHANGED <<message, stamped, posted, socket>> /\ stored \subseteq stored'
  BY DEF HandleListTaskMessages, HandleCreateTaskMessage, CreateTaskMessage,
         Commit, DBError, Begin, database
<1>2. req \in [Requests -> Request] /\ \A t \in Requests : req[t].earlier \subseteq posted
  BY DEF Ordered, TypeOK, EarlierArePosted
<1>3. /\ \A t \in Requests : t # r => req'[t] = req[t]
      /\ req'[r].earlier \subseteq posted
      /\ Pending(req'[r]) => Pending(req[r]) /\ req'[r].message = req[r].message
  <2>1. ASSUME NEW user \in Users, NEW check, NEW pc \in {"insert", "list"},
               Begin(r, user, check, pc)
        PROVE  /\ \A t \in Requests : t # r => req'[t] = req[t]
               /\ req'[r].earlier \subseteq posted /\ ~Pending(req'[r])
    BY <1>2, <2>1 DEF Begin, Answered, Pending
  <2>2. ASSUME NEW code, Reply(r, code)
        PROVE  /\ \A t \in Requests : t # r => req'[t] = req[t]
               /\ req'[r].earlier \subseteq posted /\ ~Pending(req'[r])
    BY <1>2, <2>2 DEF Reply, Answered, Pending
  <2>3. CASE Commit(r)
    <3>1. req' = [req EXCEPT ![r].pc = "broadcast"] /\ req[r].pc = "commit"
      BY <2>3 DEF Commit, Goto
    <3>2. req[r] \in Request
      BY <1>2
    <3> QED
      BY <1>2, <3>1, <3>2 DEF Request, Pending
  <2> QED
    BY <2>1, <2>2, <2>3
       DEF HandleListTaskMessages, HandleCreateTaskMessage, CreateTaskMessage, DBError
<1>4. \A t \in Requests :
          /\ Pending(req'[t]) => Pending(req[t]) /\ req'[t].message = req[t].message
          /\ req'[t].earlier \subseteq posted
  BY <1>2, <1>3
<1> QED
  BY <1>1, <1>4, QuietStep

LEMMA QuietConnections ==
    ASSUME Ordered, TypeOK', NEW s \in Sockets, Connect(s)
    PROVE  Ordered'
<1>1. socket \in [Sockets -> Socket] /\ socket[s] \in Socket
  BY DEF Ordered, TypeOK
<1>2. UNCHANGED <<message, stamped, posted, stored, req>>
  BY DEF Connect, HandleTaskChatWebSocket, ServeTask, Leave, database
<1>3. \/ socket' = [socket EXCEPT ![s] = Gone]
      \/ /\ socket[s].state # "in"
         /\ \/ \E u \in Users :
                  socket' = [socket EXCEPT ![s].state = "join", ![s].user = u]
            \/ socket' = [socket EXCEPT ![s].state = "in"]
  BY DEF Connect, HandleTaskChatWebSocket, ServeTask, Leave, End
<1>4. \A t \in Sockets :
          \/ socket'[t] = socket[t]
          \/ socket'[t] = Gone
          \/ /\ socket[t].state # "in"
             /\ socket'[t].stream = socket[t].stream
             /\ socket'[t].synced = socket[t].synced
             /\ socket'[t].listed = socket[t].listed
  BY <1>1, <1>3 DEF Socket
<1> QED
  BY <1>2, <1>4, QuietStep DEF Ordered, EarlierArePosted

LEMMA QuietRest ==
    ASSUME Ordered, TypeOK',
           \/ \E u, v \in Users : CreateTask(u, v)
           \/ \E u \in Users : Reassign(u)
           \/ Crash
           \/ UNCHANGED vars
    PROVE  Ordered'
<1>1. UNCHANGED <<message, stamped, posted>> /\ stored \subseteq stored'
  BY DEF CreateTask, Reassign, Crash, vars
<1>2. \A t \in Requests :
          /\ Pending(req'[t]) => Pending(req[t]) /\ req'[t].message = req[t].message
          /\ req'[t].earlier \subseteq posted
  BY DEF CreateTask, Reassign, Crash, vars, Answered, Pending, Ordered, EarlierArePosted
<1>3. \A t \in Sockets : socket'[t] = socket[t] \/ socket'[t] = Gone
  BY DEF CreateTask, Reassign, Crash, vars
<1> QED
  BY <1>1, <1>2, <1>3, QuietStep

THEOREM OrderInvariance == Spec => []Ordered
<1>1. Init => Ordered
  <2> SUFFICES ASSUME Init PROVE Ordered
    OBVIOUS
  <2>1. <<>> \in Seq(Messages)
    OBVIOUS
  <2>2. /\ Answered(NULL, 0) \in Request /\ Unused \in Socket
        /\ Answered(NULL, 0).earlier = {} /\ ~Pending(Answered(NULL, 0))
        /\ Unused.stream = <<>> /\ Unused.synced = <<>> /\ Unused.state = "none"
        /\ ~Unused.listed
    BY <2>1 DEF Answered, Request, Unused, Socket, Pending
  <2>3. Range(<<>>) = {} /\ IsInjective(<<>>) /\ \A k, m : Precedes(<<>>, k, m)
    BY DEF Range, IsInjective, Precedes
  <2>4. TypeOK
    BY <2>1, <2>2 DEF Init, TypeOK
  <2>5. StampedOnce /\ PendingAreNotPosted /\ EarlierArePosted
    BY <2>1, <2>2, <2>3 DEF Init, StampedOnce, PendingAreNotPosted, EarlierArePosted
  <2>6. InOrder /\ ListsAreSound /\ JoinThenListMissesNothing
    BY <2>2, <2>3 DEF Init, InOrder, Causal, ListsAreSound, JoinThenListMissesNothing, room
  <2> QED
    BY <2>4, <2>5, <2>6 DEF Ordered
<1>2. Inv /\ Inv' /\ Ordered /\ [Next]_vars => Ordered'
  <2> SUFFICES ASSUME Inv, Inv', Ordered, [Next]_vars PROVE Ordered'
    OBVIOUS
  <2>1. TypeOK'
    BY TypeStep
  <2>2. ASSUME NEW r \in Requests, Serve(r) PROVE Ordered'
    <3>1. CASE CreateTaskMessage(r) /\ Stamp(r)
      BY <2>1, <3>1, StampOrdered DEF CreateTaskMessage
    <3>2. CASE BroadcastTaskMessage(r)
      BY <2>1, <3>2, BroadcastOrdered
    <3>3. CASE ListTaskMessages(r)
      BY <2>1, <3>3, ListOrdered
    <3> QED
      BY <2>1, <2>2, <3>1, <3>2, <3>3, QuietRequests DEF Serve
  <2> QED
    BY <2>1, <2>2, QuietConnections, QuietRest DEF Next
<1> QED
  BY <1>1, <1>2, ChatInvariance, PTL DEF Spec

\* Every variable of the chat keeps its type, the lists that clients were given
\* included.
THEOREM Typing == Spec => []TypeOK
<1>1. Ordered => TypeOK
  BY DEF Ordered
<1> QED
  BY <1>1, OrderInvariance, PTL

\* A client that joins and then lists has every message whose author was
\* answered, for any number of posts, lists, reassignments and crashes in
\* between (handlers_chat.go:49-59).
THEOREM JoinersMissNothing == Spec => []JoinThenListMissesNothing
<1>1. Ordered => JoinThenListMissesNothing
  BY DEF Ordered
<1> QED
  BY <1>1, OrderInvariance, PTL

\* What the author of a message had been answered comes before it, in every
\* list and on every connection (tasks.go:237, handlers_chat.go:56).
THEOREM CausalOrder == Spec => []OrderIsCausal
<1>1. Inv /\ Ordered => OrderIsCausal
  BY StoredAreStamped DEF Ordered, InOrder, Causal, OrderIsCausal
<1> QED
  BY <1>1, ChatInvariance, OrderInvariance, PTL

------------------------------------------------------------------------------
(* The refinement of ChatRoom: what each connection sees of a step.           *)

PlaceOf(v) ==
    CASE v.state = "in" -> "in" [] v.state = "gone" -> "gone" [] OTHER -> "out"
StreamOf(v) ==
    IF v.state = "gone" THEN "broken" ELSE IF v.behind THEN "ending" ELSE "whole"

LEMMA ViewsAreRecords ==
    ASSUME NEW s \in Sockets
    PROVE  /\ RoomView(s) = ViewOf(PlaceOf(socket[s]), posted, socket[s].stream,
                                   <<>>, StreamOf(socket[s]))
           /\ RoomView(s)' = ViewOf(PlaceOf(socket'[s]), posted', socket'[s].stream,
                                    <<>>, StreamOf(socket'[s]))
  BY DEF RoomView, ViewOf, PlaceOf, StreamOf

Sees(s) ==
    \/ RoomView(s)' = RoomView(s)
    \/ Room!Step(RoomView(s), RoomView(s)', Messages)

\* A step that posts nothing: connections join and leave, or a list comes in,
\* which is no part of the stream.
LEMMA ViewsOfConnections ==
    ASSUME NEW s \in Sockets, UNCHANGED posted,
           \/ socket'[s] = Gone
           \/ /\ socket[s].state # "gone"
              /\ \/ socket'[s].state = socket[s].state
                 \/ /\ socket[s].state \in {"none", "join"}
                    /\ socket'[s].state \in {"join", "in"}
              /\ socket'[s].stream = socket[s].stream
              /\ socket'[s].behind = socket[s].behind
           \/ socket'[s] = socket[s]
    PROVE  Sees(s)
<1> DEFINE p == PlaceOf(socket[s])
           q == socket[s].stream
           t == StreamOf(socket[s])
<1>1. RoomView(s) = ViewOf(p, posted, q, <<>>, t)
  BY ViewsAreRecords
<1>2. CASE socket'[s] = Gone
  <2>1. RoomView(s)' = ViewOf("gone", posted, <<>>, <<>>, "broken")
    BY <1>2, ViewsAreRecords, GoneFields DEF PlaceOf, StreamOf
  <2> HIDE DEF p, q, t
  <2>2. CASE p = "gone"
    <3>1. RoomView(s)' = WithQueueStream(RoomView(s), <<>>, "broken")
      BY <1>1, <2>1, <2>2, ViewWithTwo
    <3> QED
      BY <3>1 DEF Sees, Room!Step, Room!Break, WithQueueStream
  <2>3. CASE p # "gone"
    <3>1. RoomView(s).place # "gone"
      BY <1>1, <2>3, ViewFields
    <3>2. WithPlace(RoomView(s), "gone") = ViewOf("gone", posted, q, <<>>, t)
      BY <1>1, ViewWithOne
    <3>3. RoomView(s)' = WithQueueStream(WithPlace(RoomView(s), "gone"), <<>>, "broken")
      BY <2>1, <3>2, ViewWithTwo
    <3> QED
      BY <3>1, <3>3 DEF Sees, Room!Step, Room!Leave, Room!Break, WithPlace, WithQueueStream
  <2> QED
    BY <2>2, <2>3
<1>3. CASE /\ socket[s].state # "gone" /\ socket'[s].stream = socket[s].stream
           /\ socket'[s].behind = socket[s].behind
           /\ \/ socket'[s].state = socket[s].state
              \/ /\ socket[s].state \in {"none", "join"}
                 /\ socket'[s].state \in {"join", "in"}
  <2>1. RoomView(s)' = ViewOf(PlaceOf(socket'[s]), posted, q, <<>>, t)
    BY <1>3, ViewsAreRecords DEF StreamOf
  <2>2. PlaceOf(socket'[s]) = p \/ (p = "out" /\ PlaceOf(socket'[s]) = "in")
    BY <1>3 DEF PlaceOf
  <2> HIDE DEF p, q, t
  <2>3. CASE PlaceOf(socket'[s]) = p
    BY <1>1, <2>1, <2>3 DEF Sees
  <2>4. CASE p = "out" /\ PlaceOf(socket'[s]) = "in"
    <3>1. /\ RoomView(s)' = WithPlace(RoomView(s), "in")
          /\ RoomView(s).place = "out"
      BY <1>1, <2>1, <2>4, ViewFields, ViewWithOne
    <3> QED
      BY <3>1 DEF Sees, Room!Step, Room!Join, WithPlace
  <2> QED
    BY <2>2, <2>3, <2>4
<1>4. CASE socket'[s] = socket[s]
  BY <1>4, ViewsAreRecords DEF Sees
<1> QED
  BY <1>2, <1>3, <1>4

\* A broadcast settles a message that was on its way: a connection that is in
\* gets it or is behind from now on, and the others are passed by.
LEMMA ViewsOfBroadcast ==
    ASSUME Inv, Ordered, NEW r \in Requests, BroadcastTaskMessage(r),
           NEW s \in Sockets
    PROVE  Sees(s)
<1> DEFINE m == req[r].message
           p == PlaceOf(socket[s])
           q == socket[s].stream
           t == StreamOf(socket[s])
<1>1. PICK full \in SUBSET room : socket' = Delivered(m, full)
  BY DEF BroadcastTaskMessage
<1>2. m \in Messages \ posted /\ posted' = posted \cup {m}
  BY DEF BroadcastTaskMessage, Inv, RequestsAreSound, Sound, Pending, Written,
         Ordered, PendingAreNotPosted
<1>3. RoomView(s) = ViewOf(p, posted, q, <<>>, t)
  BY ViewsAreRecords
<1>4. socket[s] \in Socket
  BY DEF Ordered, TypeOK
<1>5. /\ RoomView(s).settled = posted /\ RoomView(s).place = p
      /\ RoomView(s).stream = t /\ RoomView(s).queue = q
  <2> HIDE DEF p, q, t
  <2> QED
    BY <1>3, ViewFields
<1>6. CASE s \in full
  <2>1. socket'[s] = [socket[s] EXCEPT !.behind = TRUE] /\ socket[s].state = "in"
    BY <1>1, <1>6 DEF Delivered, room
  <2>2. /\ RoomView(s)' = ViewOf("in", posted \cup {m}, q, <<>>, "ending")
        /\ p = "in" /\ t # "broken"
    BY <1>2, <1>4, <2>1, ViewsAreRecords DEF Socket, PlaceOf, StreamOf
  <2> HIDE DEF m, p, q, t
  <2>3. RoomView(s)' = WithSettledStream(RoomView(s), RoomView(s).settled \cup {m},
            IF RoomView(s).stream = "broken" THEN RoomView(s).stream ELSE "ending")
    <3>1. RoomView(s)' = WithSettledStream(RoomView(s), posted \cup {m}, "ending")
      BY <1>3, <2>2, ViewWithTwo
    <3> QED
      BY <1>5, <2>2, <3>1
  <2>4. Room!Miss(RoomView(s), RoomView(s)', m, Messages)
    BY <1>2, <1>5, <2>2, <2>3 DEF Room!Miss, WithSettledStream
  <2> QED
    BY <1>2, <2>4 DEF Sees, Room!Step
<1>7. CASE s \notin full /\ s \in room
  <2>1. /\ socket'[s] = [socket[s] EXCEPT !.stream = Append(@, m)]
        /\ socket[s].state = "in"
    BY <1>1, <1>7 DEF Delivered, room
  <2>2. /\ RoomView(s)' = ViewOf("in", posted \cup {m}, Append(q, m), <<>>, t)
        /\ p = "in" /\ t # "broken"
    BY <1>2, <1>4, <2>1, ViewsAreRecords DEF Socket, PlaceOf, StreamOf
  <2> HIDE DEF m, p, q, t
  <2>3. RoomView(s)' = WithSettledQueue(RoomView(s), RoomView(s).settled \cup {m},
                                        Append(RoomView(s).queue, m))
    <3>1. RoomView(s)' = WithSettledQueue(RoomView(s), posted \cup {m}, Append(q, m))
      BY <1>3, <2>2, ViewWithTwo
    <3> QED
      BY <1>5, <3>1
  <2>4. Room!Deliver(RoomView(s), RoomView(s)', m, Messages)
    BY <1>2, <1>5, <2>2, <2>3 DEF Room!Deliver, WithSettledQueue
  <2> QED
    BY <1>2, <2>4 DEF Sees, Room!Step
<1>8. CASE s \notin room
  <2>1. socket'[s] = socket[s] /\ p # "in"
    BY <1>1, <1>8 DEF Delivered, room, PlaceOf
  <2>2. RoomView(s)' = ViewOf(p, posted \cup {m}, q, <<>>, t)
    BY <1>2, <2>1, ViewsAreRecords
  <2> HIDE DEF m, p, q, t
  <2>3. RoomView(s)' = WithSettled(RoomView(s), RoomView(s).settled \cup {m})
    <3>1. RoomView(s)' = WithSettled(RoomView(s), posted \cup {m})
      BY <1>3, <2>2, ViewWithOne
    <3> QED
      BY <1>5, <3>1
  <2>4. Room!Pass(RoomView(s), RoomView(s)', m, Messages)
    BY <1>2, <1>5, <2>1, <2>3 DEF Room!Pass, WithSettled
  <2> QED
    BY <1>2, <2>4 DEF Sees, Room!Step
<1> QED
  BY <1>6, <1>7, <1>8

\* Every step of the chat is one step of each view, or none.
LEMMA StepRefines ==
    ASSUME Inv, Ordered, [Next]_vars
    PROVE  [Room!Next]_roomView
<1>1. \A s \in Sockets : socket[s] \in Socket
  BY DEF Ordered, TypeOK
<1>2. SUFFICES ASSUME NEW s \in Sockets PROVE Sees(s)
  <2>1. /\ roomView' = [s \in Sockets |-> roomView'[s]]
        /\ \A s \in Sockets : /\ roomView'[s] = RoomView(s)'
                              /\ roomView[s] = RoomView(s)
                              /\ [u \in Sockets |-> Messages][s] = Messages
    BY DEF roomView
  <2> QED
    BY <1>2, <2>1 DEF Room!Next, Sees
<1>3. ASSUME NEW r \in Requests, Serve(r) PROVE Sees(s)
  <2>1. CASE BroadcastTaskMessage(r)
    BY <2>1, ViewsOfBroadcast
  <2>2. CASE ListTaskMessages(r)
    <3>1. /\ UNCHANGED posted
          /\ \/ socket'[s] = socket[s]
             \/ /\ socket[s].state = "in"
                /\ \E list : socket'[s] =
                                [socket[s] EXCEPT !.listed = TRUE, !.synced = list]
      BY <2>2 DEF ListTaskMessages
    <3> QED
      BY <1>1, <3>1, ViewsOfConnections DEF Socket
  <2>3. CASE UNCHANGED <<posted, socket>>
    BY <2>3, ViewsOfConnections
  <2> QED
    BY <1>3, <2>1, <2>2, <2>3
       DEF Serve, HandleListTaskMessages, HandleCreateTaskMessage, Begin,
           CreateTaskMessage, Commit, DBError
<1>4. ASSUME NEW c \in Sockets, Connect(c) PROVE Sees(s)
  <2>1. UNCHANGED posted
    BY <1>4 DEF Connect, HandleTaskChatWebSocket, ServeTask, Leave
  <2>2. \/ socket'[s] = socket[s] \/ socket'[s] = Gone
        \/ /\ socket[s].state = "none"
           /\ \E u : socket'[s] = [socket[s] EXCEPT !.state = "join", !.user = u]
        \/ /\ socket[s].state = "join"
           /\ socket'[s] = [socket[s] EXCEPT !.state = "in"]
    <3>1. socket \in [Sockets -> Socket]
      BY DEF Ordered, TypeOK
    <3>2. \/ socket' = [socket EXCEPT ![c] = Gone]
          \/ /\ socket[c].state = "none"
             /\ \E u : socket' = [socket EXCEPT ![c] =
                                     [socket[c] EXCEPT !.state = "join", !.user = u]]
          \/ /\ socket[c].state = "join"
             /\ socket' = [socket EXCEPT ![c] = [socket[c] EXCEPT !.state = "in"]]
      BY <1>4, <3>1 DEF Connect, HandleTaskChatWebSocket, ServeTask, Leave, End
    <3>3. CASE s = c
      BY <3>1, <3>2, <3>3
    <3>4. CASE s # c
      BY <3>1, <3>2, <3>4
    <3> QED
      BY <3>3, <3>4
  <2> QED
    BY <1>1, <2>1, <2>2, ViewsOfConnections DEF Socket
<1>5. CASE \/ \E u, v \in Users : CreateTask(u, v)
           \/ \E u \in Users : Reassign(u)
           \/ Crash
           \/ UNCHANGED vars
  <2>1. UNCHANGED posted /\ (socket'[s] = socket[s] \/ socket'[s] = Gone)
    BY <1>5 DEF CreateTask, Reassign, Crash, vars
  <2> QED
    BY <2>1, ViewsOfConnections
<1> QED
  BY <1>3, <1>4, <1>5 DEF Next

\* The one-step broadcast of a chat is the room ChatHub implements with locks,
\* channels and pumps (websocket.go:76-101).
THEOREM Refinement == Spec => ImplementsRoom
<1>1. Init => Room!Init
  <2> SUFFICES ASSUME Init PROVE Room!Init
    OBVIOUS
  <2>1. \A s \in Sockets : RoomView(s) = Room!Outside
    BY DEF Init, RoomView, Unused, Room!Outside
  <2> QED
    BY <2>1 DEF Room!Init, roomView
<1>2. Inv /\ Ordered /\ [Next]_vars => [Room!Next]_roomView
  BY StepRefines
<1> QED
  BY <1>1, <1>2, ChatInvariance, OrderInvariance, PTL
     DEF Spec, ImplementsRoom, Room!Spec
==============================================================================
