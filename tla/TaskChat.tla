------------------------------- MODULE TaskChat -------------------------------
(* The chat of one task: HandleListTaskMessages, HandleCreateTaskMessage and  *)
(* HandleTaskChatWebSocket (internal/app/handlers_chat.go) over               *)
(* todos.task_messages (internal/sdk/sqldb/tasks.go) and the hub.             *)
(*                                                                            *)
(* Every request first reads the task (getAuthorizedTask): until then nothing *)
(* that may change was looked at, so that is one action with its arrival.  It *)
(* acts on the row it read later; meanwhile TaskService creates the task and  *)
(* gives it to others, of which CreateTask and Reassign are the effect.  An   *)
(* INSERT is two steps: its snapshot, which fixes created_at, and its commit. *)
(*                                                                            *)
(* The hub is reduced to what ChatHub shows of it: no client joins or leaves  *)
(* while a broadcast visits the room, each member gets the message or is on   *)
(* its way out (it may get later ones until it is gone).                      *)
EXTENDS FiniteSets, Functions, Sequences, SequencesExt

CONSTANTS
    Users,          \* user ids, all mirrored
    Requests,       \* slots: the list and post requests served at once
    Sockets,        \* websocket requests, each made at most once
    Messages,       \* the ids gen_random_uuid() may hand out
    NULL            \* no task, no message, no user

VARIABLES
    task,       \* the row of the task, or NULL
    message,    \* each message that was given an id, or NULL
    stamped,    \* those messages in the order of their created_at
    stored,     \* todos.task_messages: the ones whose INSERT has committed
    req,        \* the locals of the request in each slot
    socket,     \* the websocket requests
    posted,     \* history: the messages whose author got the 201
    had         \* history: everyone who ever had access to the task

vars == <<task, message, stamped, stored, req, socket, posted, had>>
database == <<task, message, stamped, stored, had>>

Members(row) == IF row = NULL THEN {} ELSE {row.created_by, row.assigned_to}
canAccessTask(row, user) == user \in Members(row)

Task == [created_by: Users, assigned_to: Users]

\* members and earlier are history: who had access when the INSERT began, and
\* what had been answered with 201 when the request arrived.
Message == [author: Users, members: SUBSET Users, earlier: SUBSET Messages]

ASSUME ChatAssumption ==
    /\ NULL \notin Users \cup Messages
    /\ NULL \notin Task /\ NULL \notin Message

\* The body of a post: ShouldBindJSON refuses it or TrimSpace leaves nothing of
\* it ("blank"), or it has text.
Body == {"text", "blank"}

Request == [pc: {"idle", "insert", "commit", "broadcast", "list"},
            user: Users \cup {NULL}, message: Messages \cup {NULL},
            earlier: SUBSET Messages,
            reply: {0, 200, 201, 400, 403, 404, 500}]

\* stream: the messages put into the channel of the client.  behind: one found
\* it full.  synced: history, the answer to the first list its user was given
\* as a member after it joined.
Socket == [state: {"none", "join", "in", "gone"},
           user: Users \cup {NULL}, stream: Seq(Messages), behind: BOOLEAN,
           listed: BOOLEAN, synced: Seq(Messages)]

Answered(m, code) ==
    [pc |-> "idle", user |-> NULL, message |-> m, earlier |-> {},
     reply |-> code]

Unused == [state |-> "none", user |-> NULL, stream |-> <<>>, behind |-> FALSE,
           listed |-> FALSE, synced |-> <<>>]

\* A connection that ended, or never came to be.
Gone == [Unused EXCEPT !.state = "gone"]

Init ==
    /\ task = NULL
    /\ message = [m \in Messages |-> NULL]
    /\ stamped = <<>>
    /\ stored = {}
    /\ req = [r \in Requests |-> Answered(NULL, 0)]
    /\ socket = [s \in Sockets |-> Unused]
    /\ posted = {}
    /\ had = {}

------------------------------------------------------------------------------
(* TaskService, as far as a chat depends on it.                               *)

CreateTask(creator, assignee) ==
    /\ task = NULL
    /\ creator # assignee
    /\ task' = [created_by |-> creator, assigned_to |-> assignee]
    /\ had' = {creator, assignee}
    /\ UNCHANGED <<message, stamped, stored, req, socket, posted>>

Reassign(assignee) ==
    /\ task # NULL
    /\ assignee \notin Members(task)
    /\ task' = [task EXCEPT !.assigned_to = assignee]
    /\ had' = had \cup {assignee}
    /\ UNCHANGED <<message, stamped, stored, req, socket, posted>>

------------------------------------------------------------------------------
(* The list and post handlers.                                                *)

Reply(r, code) ==
    req' = [req EXCEPT ![r] = Answered(@.message, code)]

Goto(r, pc) == req' = [req EXCEPT ![r].pc = pc]

\* Variant: a stranger is told to authenticate.
AccessRefusalUnauthorized(row, user) ==
    IF row = NULL THEN 404 ELSE IF canAccessTask(row, user) THEN 0 ELSE 401

\* What a request answers on the row it found; 0 to go on.
AccessRefusal(row, user) ==
    IF row = NULL THEN 404 ELSE IF canAccessTask(row, user) THEN 0 ELSE 403

BodyRefusal(body) == IF body = "text" THEN 0 ELSE 400

\* A request arrives; its SELECT of the task answers, or fails with a 500, and
\* its checks refuse it or let it go on to the next statement.
Begin(r, user, check, pc) ==
    /\ req[r].pc = "idle"
    /\ \E refusal \in {check, 500} :
           req' = [req EXCEPT ![r] =
                      IF refusal # 0 THEN Answered(NULL, refusal)
                      ELSE [pc |-> pc, user |-> user, message |-> NULL,
                            earlier |-> posted, reply |-> 0]]
    /\ UNCHANGED <<database, socket, posted>>

HandleListTaskMessages(r, user) ==
    Begin(r, user, AccessRefusal(task, user), "list")

HandleCreateTaskMessage(r, user, body) ==
    LET access == AccessRefusal(task, user)
        check == IF access # 0 THEN access ELSE BodyRefusal(body)
    IN Begin(r, user, check, "insert")

Fresh == {m \in Messages : message[m] = NULL}

\* The INSERT begins: a message gets its id and created_at, whoever asks.
Stamp(r) ==
    \E m \in Fresh :
        /\ message' = [message EXCEPT ![m] =
                          [author |-> req[r].user, members |-> Members(task),
                           earlier |-> req[r].earlier]]
        /\ stamped' = Append(stamped, m)
        /\ req' = [req EXCEPT ![r].pc = "commit", ![r].message = m]

\* Variant: INSERT ... VALUES, trusting the row read before.
CreateTaskMessageUnchecked(r) ==
    /\ req[r].pc = "insert"
    /\ Stamp(r)
    /\ UNCHANGED <<task, stored, socket, posted, had>>

\* CreateTaskMessage on its snapshot: WHERE EXISTS asks for access again, and
\* without it there is no row to return.
CreateTaskMessage(r) ==
    /\ req[r].pc = "insert"
    /\ \/ canAccessTask(task, req[r].user) /\ Stamp(r)
       \/ /\ ~canAccessTask(task, req[r].user)
          /\ Reply(r, 404)
          /\ UNCHANGED <<message, stamped>>
    /\ UNCHANGED <<task, stored, socket, posted, had>>

\* Variant: answers before it broadcasts.
CommitAnswersFirst(r) ==
    /\ req[r].pc = "commit"
    /\ stored' = stored \cup {req[r].message}
    /\ posted' = posted \cup {req[r].message}
    /\ Goto(r, "broadcast")
    /\ UNCHANGED <<task, message, stamped, socket, had>>

Commit(r) ==
    /\ req[r].pc = "commit"
    /\ stored' = stored \cup {req[r].message}
    /\ Goto(r, "broadcast")
    /\ UNCHANGED <<task, message, stamped, socket, posted, had>>

\* Variant: a connection is in the room before it is upgraded.
roomWithHandshakes == {s \in Sockets : socket[s].state \in {"join", "in"}}

room == {s \in Sockets : socket[s].state = "in"}

\* Variant: the author's own connections are left out.
DeliveredToOthers(m, full) ==
    [s \in Sockets |->
        IF s \in full THEN [socket[s] EXCEPT !.behind = TRUE]
        ELSE IF s \in room /\ socket[s].user # message[m].author
        THEN [socket[s] EXCEPT !.stream = Append(@, m)]
        ELSE socket[s]]

\* What a broadcast that finds the buffers of `full` full does to the others.
Delivered(m, full) ==
    [s \in Sockets |->
        IF s \in full THEN [socket[s] EXCEPT !.behind = TRUE]
        ELSE IF s \in room THEN [socket[s] EXCEPT !.stream = Append(@, m)]
        ELSE socket[s]]

\* BroadcastTaskMessage, then the 201.
BroadcastTaskMessage(r) ==
    /\ req[r].pc = "broadcast"
    /\ \E full \in SUBSET room : socket' = Delivered(req[r].message, full)
    /\ posted' = posted \cup {req[r].message}
    /\ Reply(r, 201)
    /\ UNCHANGED database

Before(k, m) ==
    \E i, j \in DOMAIN stamped : i < j /\ stamped[i] = k /\ stamped[j] = m

\* The rows there are, ORDER BY created_at.
Listings ==
    {list \in SeqOf(stored, Len(stamped)) :
        /\ Range(list) = stored
        /\ \A i, j \in DOMAIN list : i < j => Before(list[i], list[j])}

\* ListTaskMessages: 200 in any case, with no items for a user who lost access
\* since getAuthorizedTask.
ListTaskMessages(r) ==
    LET user == req[r].user
        syncs(s) == /\ socket[s].state = "in" /\ socket[s].user = user
                    /\ ~socket[s].listed /\ canAccessTask(task, user)
    IN /\ req[r].pc = "list"
       /\ \E list \in Listings :
              socket' = [s \in Sockets |->
                            IF syncs(s)
                            THEN [socket[s] EXCEPT !.listed = TRUE,
                                                   !.synced = list]
                            ELSE socket[s]]
       /\ Reply(r, 200)
       /\ UNCHANGED <<database, posted>>

\* Variant: an error of the INSERT is taken for a task that is not there.
DBErrorAsNotFound(r) ==
    /\ req[r].pc \in {"insert", "commit", "list"}
    /\ \/ UNCHANGED stored
       \/ req[r].pc = "commit" /\ stored' = stored \cup {req[r].message}
    /\ Reply(r, 404)
    /\ UNCHANGED <<task, message, stamped, socket, posted, had>>

\* A statement fails, or the client goes away and its context ends it; an
\* INSERT may have committed by then.
DBError(r) ==
    /\ req[r].pc \in {"insert", "commit", "list"}
    /\ \/ UNCHANGED stored
       \/ req[r].pc = "commit" /\ stored' = stored \cup {req[r].message}
    /\ Reply(r, 500)
    /\ UNCHANGED <<task, message, stamped, socket, posted, had>>

------------------------------------------------------------------------------
(* The websocket requests, and the process.                                   *)

End(s) == socket' = [socket EXCEPT ![s] = Gone]

\* Variant: a token is all a connection needs.
HandleTaskChatWebSocketByToken(s, user) ==
    /\ socket[s].state = "none"
    /\ \/ socket' = [socket EXCEPT ![s].state = "join", ![s].user = user]
       \/ End(s)
    /\ UNCHANGED <<database, req, posted>>

\* authenticateWebSocket, which takes the user from the token or refuses, and
\* getAuthorizedTask, whose statement may fail.
HandleTaskChatWebSocket(s, user) ==
    /\ socket[s].state = "none"
    /\ \/ /\ AccessRefusal(task, user) = 0
          /\ socket' = [socket EXCEPT ![s].state = "join", ![s].user = user]
       \/ End(s)
    /\ UNCHANGED <<database, req, posted>>

\* ServeTask up to register, or a failed upgrade.
ServeTask(s) ==
    /\ socket[s].state = "join"
    /\ \/ socket' = [socket EXCEPT ![s].state = "in"]
       \/ End(s)
    /\ UNCHANGED <<database, req, posted>>

\* unregister, for any reason the hub has.
Leave(s) ==
    /\ socket[s].state = "in"
    /\ End(s)
    /\ UNCHANGED <<database, req, posted>>

\* The process stops: requests and connections end, an INSERT under way may
\* still commit.
Crash ==
    /\ req' = [r \in Requests |-> IF req[r].pc = "idle" THEN req[r]
                                  ELSE Answered(req[r].message, 0)]
    /\ socket' = [s \in Sockets |-> IF socket[s].state = "none" THEN socket[s]
                                    ELSE Gone]
    /\ \E late \in SUBSET {req[r].message :
                              r \in {q \in Requests : req[q].pc = "commit"}} :
           stored' = stored \cup late
    /\ UNCHANGED <<task, message, stamped, posted, had>>

Serve(r) ==
    \/ \E u \in Users : HandleListTaskMessages(r, u)
    \/ \E u \in Users, body \in Body : HandleCreateTaskMessage(r, u, body)
    \/ CreateTaskMessage(r)
    \/ Commit(r)
    \/ BroadcastTaskMessage(r)
    \/ ListTaskMessages(r)
    \/ DBError(r)

Connect(s) ==
    \/ \E u \in Users : HandleTaskChatWebSocket(s, u)
    \/ ServeTask(s)
    \/ Leave(s)

Next ==
    \/ \E u, v \in Users : CreateTask(u, v)
    \/ \E u \in Users : Reassign(u)
    \/ \E r \in Requests : Serve(r)
    \/ \E s \in Sockets : Connect(s)
    \/ Crash

Spec == Init /\ [][Next]_vars

------------------------------------------------------------------------------
(* Properties.                                                                *)

\* Every variable holds what its declaration says.
TypeOK ==
    /\ task \in Task \cup {NULL}
    /\ message \in [Messages -> Message \cup {NULL}]
    /\ stamped \in Seq(Messages)
    /\ stored \subseteq Messages
    /\ req \in [Requests -> Request]
    /\ socket \in [Sockets -> Socket]
    /\ posted \subseteq Messages
    /\ had \subseteq Users

\* A stored message is by someone who was the creator or the assignee when its
\* INSERT began, not just when getAuthorizedTask read the task: a reassignment
\* in between makes the answer a 404 (tasks.go:206-211).
StoredByMembers ==
    \A m \in stored : message[m].author \in message[m].members

\* A 201 means the message is stored, a 4xx that it is not and may be sent
\* again; 500 and no answer leave it open.
AnswersTellTruth ==
    \A r \in Requests :
        /\ req[r].reply = 201 => req[r].message \in stored
        /\ req[r].reply \in {400, 403, 404} => req[r].message \notin stored

\* What a connection is sent was stored before, comes once, and goes to a user
\* who had access at some time: the handshake checks it and nothing checks it
\* again, so after a reassignment the former assignee still receives
\* (handlers_chat.go:69-79).
StreamsAreHonest ==
    \A s \in Sockets :
        /\ Range(socket[s].stream) \subseteq stored
        /\ IsInjective(socket[s].stream)
        /\ socket[s].state = "in" => socket[s].user \in had

\* A client that joins and then lists has everything: each message whose
\* author got a 201 is in the list or was sent to the connection, unless the
\* hub is about to close it.  Storing before broadcasting, and broadcasting
\* before answering, make it so (handlers_chat.go:49-59).
JoinThenListMissesNothing ==
    \A s \in room :
        (socket[s].listed /\ ~socket[s].behind) =>
            posted \subseteq Range(socket[s].synced) \cup Range(socket[s].stream)

\* k comes before m wherever both are.
Precedes(seq, k, m) ==
    \A i, j \in DOMAIN seq : (seq[i] = m /\ seq[j] = k) => j < i

\* A message posted after another was answered comes after it in every list
\* and on every connection; only overlapping posts may be seen in either
\* order, and then in another one live than in the list, which is sorted by
\* created_at (tasks.go:237, handlers_chat.go:56).
OrderIsCausal ==
    \A m \in stored : \A k \in message[m].earlier :
        /\ Precedes(stamped, k, m)
        /\ \A s \in Sockets : /\ Precedes(socket[s].stream, k, m)
                              /\ Precedes(socket[s].synced, k, m)

\* The room that connections see here, where a broadcast is one step, is the
\* one ChatHub implements with locks, channels and pumps: see ChatRoom.
RoomView(s) ==
    [place |-> CASE socket[s].state = "in" -> "in"
                 [] socket[s].state = "gone" -> "gone"
                 [] OTHER -> "out",
     settled |-> posted,
     queue |-> socket[s].stream,
     received |-> <<>>,
     stream |-> IF socket[s].state = "gone" THEN "broken"
                ELSE IF socket[s].behind THEN "ending" ELSE "whole"]
roomView == [s \in Sockets |-> RoomView(s)]

Room == INSTANCE ChatRoom WITH
    Clients <- Sockets,
    Addressed <- [s \in Sockets |-> Messages],
    Greeting <- NULL,   \* left to ChatHub
    Farewell <- NULL,
    view <- roomView
ImplementsRoom == Room!Spec
==============================================================================
