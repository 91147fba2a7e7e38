# Formal verification of the Relays service

TLA+ models of `relays-module-api` (task delegation between users, with a chat
per task), the TLC runs that check them on small instances, and theorems about
them whose proofs TLAPS checks. Paths are relative to `src/`; line numbers refer
to the commit the models were written from. `PROJECT.json` maps every definition
to the lines it models.

## The system

| Component | State | Operations | Who calls it |
|---|---|---|---|
| Task endpoints, `internal/app/handlers_task.go` | locals of each request | create, get, patch, status change, two lists | clients, one goroutine per request |
| Task store, `internal/sdk/sqldb/tasks.go`, migration 000004 | `todos.tasks`, `todos.task_messages` | one SQL statement each, no transaction spans two of them | the endpoints |
| Chat hub, `internal/services/websocket` | the rooms, a buffered channel and two goroutines per client | join, pumps, broadcast, eviction | the websocket handshake; the request that stores a message |
| Chat endpoints, `internal/app/handlers_chat.go` | locals of each request | list and post messages, websocket handshake | clients |
| User mirror, `internal/app/handlers_user.go`, `sqldb.go` | `todos.users` | `HandleMe` copies a user from the auth service; search; lookup | clients |
| Authentication, `middleware/auth.go`, `services/jwt` | none | header, query and claims checks | every protected route |
| Configuration, `sdk/config` | none | `Load` and its refusals | `main` |
| Server lifecycle, `cmd/api/main.go` | two HTTP servers, the stop context, deferred closes | start, signal, shutdown with a deadline | the process |
| Pool and health, `sqldb.go:69-141`, `handlers_health.go` | at most 25 connections and their counters | readiness, liveness | orchestrator |
| Migrations, `sdk/migrate` | the schema | 12 numbered up and down scripts | operator |
| Routing and CORS, `app/routes.go`, `middleware/cors.go` | none | the chain of middleware per route, allowed origins | every request |
| Logger, Sentry, debug server | none | output | |

How they interact: a request passes the middleware (token, subject), its handler
runs statements against the store one after the other, and answers. Posting a
message stores it and then broadcasts it through the hub in the same goroutine. A
websocket request is authenticated and authorized like any other, and its
goroutine then stays as the read pump of the client.

What is hard about it:

* **No transaction.** Every handler reads a row, decides, and then runs an
  `UPDATE ... WHERE id = $1` that repeats none of the checks, and a last `SELECT`
  for the answer. Whatever other requests do between those statements counts,
  and any of the three may fail on its own.
* **Two forms of "nothing" in a patch.** An absent key leaves a column alone, an
  explicit null clears it, for the nullable columns only.
* **Channels closed by other goroutines.** A broadcast sends on the channels of
  a room and evicts the clients that are full; the read pump of the same client,
  or another broadcast, may close the same channel. The lock keeps them apart.
* **A client that does not read** must not hold up the request of whoever sends
  a message, and must not go on with a gap either.
* **Goroutines that end through each other**: a failed write closes the
  connection, which fails the read, which closes the channel, which ends the pump.
* **A shutdown under load.** `run` drains requests by a deadline, does not see hijacked
  connections, and closes the pool in a deferred call, while requests wait for
  connections of that pool and the database may hang.
* **Two of everything at the door.** The websocket handshake takes a token from a request in its own
  way, and the upgrader reads the list of origins in its own way; both must agree with the middleware.

What makes each part correct is the list of properties below; `PROJECT.json`
("hazards") lists what is hard to test at its line, with the properties that
would catch it.

## Modules

| Module | Models |
|---|---|
| `TaskStore` | rows, constraints, request bodies, and the pure functions of the code on them (normalize, validate, access, the `SET` clauses). No state |
| `TaskService` | the task endpoints over the store, statement by statement, many requests at a time |
| `TaskLifecycle` | abstract: what the README promises of a task, one change at a time |
| `ChatRoom` | abstract: what each connection of a room is promised |
| `ChatHub` | rooms, clients, pumps and broadcasts of the websocket service |
| `TaskChat` | the chat endpoints of one task: posts, lists and websocket handshakes over its row, its messages and its room |
| `UserMirror` | `GET /user/me` and the account lookup over the users table and the auth service |
| `Server` | `run()` with its two HTTP servers, the requests in flight, the pool and the probes |
| `Access` | `Load`, the routes and their middleware, and the two ways to be authenticated |
| `MCTaskService`, `MCChatHub`, `MCTaskChat`, `MCUserMirror`, `MCAccess` | the instances TLC checks (`Server` needs none) |
| `TaskServiceProofs`, `ChatHubProofs`, `TaskChatProofs`, `UserMirrorProofs`, `ServerProofs`, `AccessProofs` | theorems about the module of that name |
| `ChatHubDeliveryProofs` | what the hub does with messages: `NoSilentLoss` and the refinement of `ChatRoom`, on top of `ChatHubProofs` |
| `RoomViews` | the fields of a view of `ChatRoom`, for the two refinements |

`TaskService` extends `TaskStore` and instantiates `TaskLifecycle`, which it implements when
requests do not overlap. The others meet through what one assumes of another: `TaskChat` sees
of `TaskService` that a task is created and given to others (`CreateTask`, `Reassign`) and of
`ChatHub` what its properties say of a broadcast; `TaskService` sees of `UserMirror` that
rows appear one at a time and stay (`MirrorUser`, `MirrorOnlyGrows`). Every handler takes its
user from the token, which is what `Access` is about. `Server` has a handler as a number of statements
over the shared pool; it is where `Crash` of the others comes from, when a drain is cut off.

### TaskService

A slot of `Requests` is a request being served; `req[r]` has its locals, and its
`pc` names the statement it runs next. `tasks` and `mirrored` are the tables.
`assignees` and `author` are history variables: everyone a task was assigned to,
and the user behind its last change.

| Action | Code |
|---|---|
| `HandleCreateTask`, `HandleGetTask`, `HandleUpdateTask`, `HandleUpdateTaskStatus` | a handler from the middleware to its first statement (a refusal answers at once) |
| `GetTask` | the `SELECT` of `getAuthorizedTask` and every check made on its row |
| `GetDelegatedFromTask` | the `SELECT` of `canUseDelegatedFromTask` and its check |
| `CreateTask`, `UpdateTask`, `UpdateTaskStatus` | the `INSERT` or `UPDATE`, with the constraints that may refuse it |
| `ReadBack` | the `SELECT` whose row is the answer |
| `DBError` | any of the statements fails: 500 |
| `Crash` | the process stops and no request in flight is answered |
| `MirrorUser` | the effect of `HandleMe` on `todos.users` |

A body the client sends is parsed after `GetTask` where the code does so. A check is a
status code, and the order of the codes is the code's (409 before 403 for a move
between terminal statuses). Strings are members of small sets; `Unpadded` maps the
spellings with outer whitespace to the string `TrimSpace` makes of them. `due_at`
goes through every statement exactly as `description` does and is left out.

### ChatHub

A section under `mu.Lock()` is one step, enabled when nobody holds the read lock; a
broadcast holds the read lock from `BeginBroadcast` to `EndIteration` with one
`Visit` per client, in any order, as Go ranges over a map. `handler` and `writer` are the
two goroutines of a client, `send` its channel, `conn` its connection and `wire` what
the peer got. Sending on a closed channel is a panic (`SendPanics`); gin's recovery
ends that request. Deadlines, pings and the message limit decide when a read or a
write fails, which the model leaves to chance.

### ChatRoom

The promise the hub makes to one connection, whatever the others do: it gets the messages
broadcast while it is in, each once and in the order they entered its stream, until it misses one, and then it
is on its way out. `view[c]` has the messages already settled for the client, those queued for
it and received by its peer, and whether its stream is whole, ending or broken. A greeting comes at
most once (`Greet`), a farewell last and to nobody who is still a member (`Close`). `ChatHub`
implements it (`ImplementsRoom`) with locks, channels, pumps and evictions; `TaskChat` implements
it with a broadcast that is one step, and no greeting or farewell. Both show a connection nothing that a room
of `ChatRoom` does not. That is not a proof that the broadcast may be one step: `TaskChat` also relies on
`register` and `unregister` waiting for the read lock, and `behind` is there by definition what
`ChatHub` shows to follow from full buffers and evictions.

### TaskChat

One task, its messages and its room. `req` has the list and post requests, `socket` the
websocket requests with what their user has been sent. A request is in the
model from the answer of its first statement on (`Begin`), since nothing before that looks at what may
change. A post then goes through `CreateTaskMessage` (the snapshot of the `INSERT ... WHERE
EXISTS`, which also fixes `created_at`), `Commit`, and `BroadcastTaskMessage` with the 201.
`stamped` is the order of `created_at`, `stored` the committed rows: the list has the rows of
`stored`, each once, in the order of `stamped` (`Listings`, which has that one sequence), so a message may appear in it before one listed earlier.
A websocket request goes through `HandleTaskChatWebSocket` (the token and the access) and
`ServeTask`. A broadcast is one step here: `register` and `unregister` wait for its read
lock, and each member gets the message or is `behind`, on its way out (`NoSilentLoss` of
`ChatHub`, `ImplementsRoom` of both). `posted`, `had` and the fields `earlier`, `members`, `listed` and `synced` are history.

### UserMirror

A row of `todos.users` is its account (unique like the email), or NULL. `GetUserByID`,
`AuthAnswers` or `AuthFails`, and `CreateUser` are the statements of `HandleMe`, in a slot each;
`HandleAccountLookup` is one statement. The auth service is known from its use only: unique
accounts, which users may exchange for unused ones (`Rename`); `given` is their history.

### Server

| State | Code |
|---|---|
| `main` | where `run` is: `load`, `open` (the pool and the services), `wait` (`<-ctx.Done()`), `drain` (`srv.Shutdown`), `debug` (`debugSrv.Shutdown`), `flush` and `exit` (the deferred calls), `exited` |
| `stopping`, `late` | the two contexts: of the signals, which the failing listener cancels too, and of the 15 seconds |
| `listener`, `debug` | the two `ListenAndServe` goroutines |
| `pool`, `reachable` | the `sql.DB`, and whether the database answers |
| `req` | each request: its kind, the statements it has yet to run, and where it is |

A statement waits for one of `MaxOpenConns` connections (`Acquire`), runs, and gives it back
(`QueryEnds`); the wait ends with the context of the request (`ClientLeaves`), with the second
`Health` allows its ping (`PingTimesOut`), or with the pool (`WaitFails`). `Hijack` takes a
websocket connection out of the server's sight. `Exit` ends whatever is left. A process
killed outright is `Crash` in the other modules and not part of this one.

### Access

`Start` serves with an environment that `Load` accepts; `ServeHTTP` answers one request by
`RegisterRoutes`, the chain of CORS, the route, `Authenticate` or `authenticateWebSocket` and
`checkOrigin` under that configuration. `Load` knows what a secret must not be; it cannot know the auth
service's, so any secret of `Secrets` (32 characters and more) and any issuer of `Issuers` is served with, and
"genuine" means signed with the configured ones. That they are shared with the auth service is up
to the deployment. A token is its claims and the key it was signed with;
`ParseAccessToken` gives the first case of the code's switch that is among the joined errors. The module
has little behaviour: it is a decision table, and its properties compare its two paths.

## What the runs check

| Run | Instance | Properties |
|---|---|---|
| `task_races` | 3 users, 1 task, 2 requests, every form of a field | `TypeOK`, `AuthorIsEntitled`, `ReplyTellsTruth`, `WritesMeetChecks`, `PatchTouchesOnlyNamedFields` |
| `task_delegation` | 3 users, 2 tasks, 2 requests | `DelegationIsJustified` |
| `task_sequential` | 3 users, 2 tasks, 1 request at a time | `ImplementsLifecycle` |
| `mirror_races` | 2 users, 3 accounts, 2 requests | `TypeOK`, `MirrorIsHonest`, `OneRowPerAccount`, `MirrorOnlyGrows` |
| `chat_delivery` | 3 users, 2 requests, 1 connection, 2 messages | `TypeOK`, `StoredByMembers`, `AnswersTellTruth`, `StreamsAreHonest`, `JoinThenListMissesNothing`, `OrderIsCausal`, `ImplementsRoom` |
| `hub_rooms` | 2 clients and 2 broadcasts in one room, 1 broadcast in another, buffers of 1 | `TypeOK`, `MemberWhileOpen`, `VisitsOpenChannels`, `NoEmptyRooms`, `NoSilentLoss`, `ImplementsRoom` |
| `hub_liveness` | 1 client, 3 broadcasts, a buffer of 1 | `BroadcastsEnd`, `SkippedAreDisconnected`, `GoroutinesEnd` |
| `server_shutdown` | 2 requests of any kind, a pool of 1, at most 2 statements each | `TypeOK`, `PoolOutlivesRequests`, `CleanExitAnswersAll`, `StopsInTheEnd`, `ListenerFailureEnds`, `EveryoneIsServed`, `ProbesEnd` |
| `access` | every class of environment (2 secrets and 2 issuers that pass), 21 tokens in the header and the query, 3 origins | `TypeOK`, `ServedUsersAreGenuine`, `HandshakeAgrees`, `ExpiredMeansRefresh`, `OriginsAgree` |

* `AuthorIsEntitled`: the last change of a task was made by its creator, or was a
  completion by someone who was its assignee at some time. That is as much as
  survives overlapping requests: see the findings for what does not.
* `ReplyTellsTruth`: 2xx to a writing request means it wrote, 4xx that it did not;
  500 says nothing, because the `SELECT` after a committed write may fail.
* `DelegationIsJustified`: the parent of a task exists, and its creator created it or was
  its assignee at some time.
* `WritesMeetChecks`: the validated values still meet the table's `CHECK`s when the
  statement runs, however stale the row they were validated against, so only a user who is
  not mirrored makes the database refuse a write.
* `PatchTouchesOnlyNamedFields`: absent leaves, null clears, and nothing of the row
  read earlier is written back, so overlapping patches of different fields both survive.
* `ImplementsLifecycle`: one request at a time, with failures and crashes anywhere, every step
  of `TaskService` is a step of `TaskLifecycle` or leaves the tasks alone.
* `MirrorIsHonest`: a stored row was the profile of that user, and a profile answered is
  the stored one, whichever of two first requests won and however old the profile the other fetched.
* `OneRowPerAccount`: what `GetUserByAccount` relies on. `MirrorOnlyGrows`: what `TaskService` relies on.
* `StoredByMembers`: the `WHERE EXISTS` of the insert stops a user who lost the task after
  `getAuthorizedTask`. `AnswersTellTruth` is `ReplyTellsTruth` for posts.
* `StreamsAreHonest`: what a connection gets was stored before, comes once, and goes to a user who
  had access at some time. Not "has": access is checked at the handshake only.
* `JoinThenListMissesNothing`: a client that connects and then lists has every message whose
  author got a 201, unless it is about to be disconnected. (In the other order it may miss one.)
* `OrderIsCausal`: a message posted after another was answered comes after it in every list
  and on every connection. Overlapping posts have no common order, and connection and list may differ.
* `MemberWhileOpen`, `VisitsOpenChannels`: no double close and no send on a closed channel
  from a broadcast.
* `NoSilentLoss`: a message reaches the clients of its room once each; who misses it
  is on its way out.
* `ImplementsRoom`, in both runs: every step is one `ChatRoom` allows each of the connections. It says of the
  order and the end of a stream what `NoSilentLoss` says of its contents: the close frame comes last, `connected` once.
* `BroadcastsEnd`, `SkippedAreDisconnected`, `GoroutinesEnd`: see the list of what is hard.
* `PoolOutlivesRequests`: the pool is closed under a request only after the deadline cut the drain
  off. `CleanExitAnswersAll`: exit code 0 means that every accepted request was answered, and nothing
  but established websockets was dropped.
* `StopsInTheEnd`, `ListenerFailureEnds`: after a signal, or without its listener, the process ends,
  although statements hang and websockets stay.
* `EveryoneIsServed`: with a database that comes back for good, requests waiting for a connection are not
  waiting for each other. `ProbesEnd`: a readiness probe ends in any case.
* `ServedUsersAreGenuine`: whoever passes is the subject of a valid token signed with the configured secret, and
  no environment makes the service trust an empty or short secret, or the secret or the issuer of the
  template. If the deployment gave it the auth service's secret, only the auth service can have made the token.
* `HandshakeAgrees`, `ExpiredMeansRefresh`, `OriginsAgree`: the middleware and the handshake know the same
  callers, tell the same ones to refresh, and accept the same pages, up to the differences the
  properties name (a stray blank, the page of the service's own host).

### Findings

Three runs find a statement of the README or of a test violated by the code.

| Run | Statement | What happens |
|---|---|---|
| `race_terminal_tasks_only_reopen` | README.md:24-28, a move between terminal statuses is a 409 and terminal tasks cannot be edited | both requests read the task open, one ends it, and the other is stored all the same: an edit, or the other terminal status |
| `mirror_blocked` | README.md:8-10, users are mirrored on first request | the account is still in the row of its former owner, which nothing refreshes: `CreateUser` fails on the unique index, and `GET /user/me` answers 500 every time |
| `hub_connected_arrives` | handlers_chat_ws_test.go:50-55, a connection gets `connected` (the test has one connection and no broadcasts) | between `register` and the send of `connected` a broadcast fills the buffer and the next one evicts the client; the send panics on the closed channel, with no pump started and nobody left to close the connection. In the code that takes 17 broadcasts |

A buffer that is filled without an eviction leaves the send waiting, with no deadline, until a broadcast evicts
the client; the run does not count that as a violation, since the event may still be sent as far as a state shows.

### Bounds

Two slots give every interleaving of two requests; the checks of a handler involve one
other actor at a time (the creator, the assignee, the owner of the parent), and slots are reused, so
any number of requests run one after the other in either slot. Three users are a creator,
an assignee and the next assignee. One task suffices where handlers touch one row;
delegation has two, each a possible parent of the other and of itself. `DelegationView`
leaves `author` and the last answer of an idle slot out of the fingerprint of that run: no guard
reads them, and neither does its property.
`task_races` enumerates the forms of a field rather than the product of all fields: the
statements treat the columns independently. Buffers of one event reach full, eviction and
drain with two messages; so do the two of `hub_connected_arrives`. The other room of `hub_rooms` has no
client, so its message shows only that nobody else gets it; the theorems have any rooms. Users, slots and ids are interchangeable in the input sets
(`FullSymmetry`, `ChatSymmetry`, `MirrorSymmetry`), as are clients and messages of the busy room; no run with a liveness property
uses symmetry. In the chat a third user is needed for a reassignment and two messages for an order; one
connection suffices because a broadcast treats each member of the room by itself.
Three accounts let two users swap through the third.
A pool of one connection (25 in the code) is always full when two requests meet, which is where waiting for
each other would show; two statements are the least for which a handler that kept its connection would matter.
The tokens of `MCAccess` have every flaw alone, and those whose errors are joined with "expired" or hidden
by a wrong signature, whose order decides the answer.
Deadlock is not checked in the hub, which comes to rest when every client has left, nor in
`Server`, which ends.

### Fairness

`FairSpec` asks weak fairness of every step a goroutine can take by itself: the Go scheduler
runs runnable goroutines, an `RWMutex` does not starve a writer, `WriteJSON` returns by
its deadline (success or failure), and a read on a connection that is gone or closed fails, by the pong
deadline at the latest. Clients need not come, stay, read or leave, and nobody need send a
message. No fairness is assumed of the task requests: their properties are safety.

`FairSpec` of `Server` asks weak fairness of `Run` and of the steps of a handler (goroutines run),
of `Deadline` and `PingTimesOut` (timers expire), of `Acquire`, and of `QueryEnds`, which is enabled only while
the database answers. `Acquire` is weakly fair for each request: `database/sql` gives a freed
connection to one of those that wait, in no order one may rely on, but requests are made once each, so none is overtaken
for ever. Nothing is asked of clients, signals,
websockets or the database.

## What is proved

`TaskServiceProofs`, for any sets of users, tasks, texts, bodies and slots, under the
assumptions of `TaskStore` (`StringsAssumption`: the sentinels are distinct from strings;
`RowAssumption`: NULL is not a row) and `TaskService` (`BodiesAssumption`: bodies have the
fields of the Go structs).

| Theorem | Property |
|---|---|
| `Invariance` | `TypeOK /\ Inductive` |
| `Typing` | `TypeOK` |
| `Entitlement` | `AuthorIsEntitled` |
| `Delegation` | `DelegationIsJustified` |
| `Answers` | `ReplyTellsTruth` |
| `Checks` | `WritesMeetChecks` |
| `Patches` | `PatchTouchesOnlyNamedFields` |
| `OneAtATime` | `ImplementsLifecycle`, if there is one slot |

`UserMirrorProofs`, for any sets of users, accounts and slots under `MirrorAssumption`:

| Theorem | Property |
|---|---|
| `MirrorInvariance` | `TypeOK /\ Inductive` |
| `MirrorTyping` | `TypeOK` |
| `Honesty` | `MirrorIsHonest` |
| `Uniqueness` | `OneRowPerAccount` |
| `Growth` | `MirrorOnlyGrows` |

`ChatHubProofs`, for any clients, messages, rooms and buffer size under `HubAssumption`:

| Theorem | Property |
|---|---|
| `HubInvariance` | `Inv` |
| `HubTyping` | `TypeOK` |
| `Membership` | `MemberWhileOpen` |
| `OpenChannels` | `VisitsOpenChannels` |
| `RoomsAreDropped` | `NoEmptyRooms` |

`ChatHubDeliveryProofs`, under the same assumption:

| Theorem | Property |
|---|---|
| `DeliveryInvariance` | `Delivery` |
| `NothingIsLostSilently` | `NoSilentLoss` |
| `HubRefinement` | `ImplementsRoom` |

`TaskChatProofs`, for any users, requests, connections and messages under `ChatAssumption`:

| Theorem | Property |
|---|---|
| `ChatInvariance` | `Inv` |
| `WritersWereMembers` | `StoredByMembers` |
| `Truth` | `AnswersTellTruth` |
| `Honesty` | `StreamsAreHonest` |
| `OrderInvariance` | `Ordered` |
| `Typing` | `TypeOK` |
| `JoinersMissNothing` | `JoinThenListMissesNothing` |
| `CausalOrder` | `OrderIsCausal` |
| `Refinement` | `ImplementsRoom` |

`ServerProofs`, for any finite set of requests, any pool and any number of statements under `ServerAssumption`:

| Theorem | Property |
|---|---|
| `ServerInvariance` | `Inv` |
| `ServerTyping` | `TypeOK` (and with it the bound of the pool) |
| `PoolOutlives` | `PoolOutlivesRequests` |
| `CleanExit` | `CleanExitAnswersAll` |

`AccessProofs`, for any users, origins and requests under `AccessAssumption`:

| Theorem | Property |
|---|---|
| `AccessInvariance` | `Inv` |
| `AccessTyping` | `TypeOK` |
| `Genuineness` | `ServedUsersAreGenuine` |
| `Agreement` | `HandshakeAgrees` |
| `Expiry` | `ExpiredMeansRefresh` |
| `Pages` | `OriginsAgree` |

None of the task properties is inductive: a request about to write is as good as the checks it
made when it read. `Inductive` says what those checks leave true although the row may
have changed since: creators never change, rows are never deleted, and `assignees` only
grows (`Monotone`, `SoundLocalsStay`). So `CheckedOK` of a request at "write" (the user is still the
creator, or was the assignee at some time) survives the steps of the others, and gives the property when
the statement runs (`WrittenRowFits`). Every step changes one slot and stores at most one row, so the
proof has one lemma per action, each giving `SoundStep` of that slot. `Patches` adds that a
write is `UpdatedRow` of the row as it is when the statement runs (`OnlyWriteWrites`,
`UpdatedRowIsPatched`).

`OneAtATime` has a hypothesis, that any two slots are the same, because without it the property is false: that is the
first finding. With one slot the rows cannot change between a check and its statement, and the invariant can say more than
`CheckedOK`: a request about to write still finds its task open, itself the creator or the assignee, and the parent
accessible (`Fresh`), and the two times of a row agree with its status (`Stamped`), without which completing
and cancelling would not be the steps of the table. Each statement is then one step of `TaskLifecycle`
(`CreateIsCreate`, `UpdateIsEdit`, `StatusIsMove`), and everything else a stutter.

In the mirror, a profile fetched for a user is one of the accounts it was given, and stays so although
the user may have another by the time of the insert; the unique columns do the rest.

In the hub the invariant ties four things together: the channel of a client is open exactly while it is in
the room it asked for (`MemberWhileOpen`, `OwnRoomOnly`), it is open before it gets there
(`OpenBeforeRegister`), and what a broadcast has yet to visit are members (`VisitsOpenChannels`), because
`register` and `unregister` need the write lock, and nobody has that while it reads.

What the hub does with messages needs an invariant of its own, `Delivery`, next to the first. Every event is in one place at
most, a buffer, the hands of a `writePump` or the wire, and once in it (`OnceEach`); the two goroutines of a client
are in step (`Stages`: nothing is written before the pumps start, nothing after a close frame); and for each broadcast
and client, what was visited is in the stream or the client is stale, closed or cut off, and nobody else has it
(`Accounted`). The occurrences `NoSilentLoss` counts are then 0 or 1 (`OccurrencesCount`). For the refinement each step of
the hub is taken apart by what each client sees of it: the one that moves sees the step of `ChatRoom` of that name
(`ViewsOfGreeting`, `ViewsOfPump`, `ViewsOfVisit`, ...), the others nothing (`OthersSeeNothing`), except that
the start of a broadcast is a `Pass` of all those who are not in its room at once.

In the chat an id is in the hands of one request from its `INSERT` to its broadcast (`OneOwner`) and
nobody was sent it meanwhile (`StreamIsSound`), so each stream gets it once; it is the
id of a message that found its author among the members (`Written`), and a request answered with a 4xx has
none (`Sound`). `Shape` is `TypeOK` without the lists. The second invariant, `Ordered`, is about what came before what:
`stamped` has each id once (`StampedOnce`); a request only knows of messages whose broadcast is over, and no id that
is on its way has been broadcast (`EarlierArePosted`, `PendingAreNotPosted`), so whatever the author of a message knew of is in
every stream and list before it or not at all (`InOrder`). A list is a set of rows in the order of `stamped`, and it
has every message that was broadcast before, which gives `JoinThenListMissesNothing`. For `Refinement` a connection sees a
broadcast as a `Deliver`, a `Miss` or a `Pass`, and nothing of a list.

In `Server` requests come in only while `run` waits for ctx (`ListensOnlyWaiting`), and it gets past the drain with
nobody served, or with an error (`DrainedAfterwards`); the rest follows the order of the deferred calls. `busy`
grows by one only below the limit, for which the set of requests is finite. In `Access` the answer is a
function of the request and of whichever configuration passed `Load`, and the paths are compared case by case;
only `Genuineness` needs what `Load` refuses (`LoadedIsNoTemplate`).

Only model-checked is liveness, which is out of the prover's reach: the properties of `hub_liveness` and the four temporal
ones of `server_shutdown`. Every invariant, action property and refinement that a passing run checks is
the statement of one of the theorems above. What is not proved is that `Listings` is never empty, so that a list
can always be answered: it takes an induction over `stamped`. The runs answer lists in every state where one is due.

## Not modelled

* The logger, Sentry and the debug server keep no state a decision reads. `Server` has what they do to a shutdown: the
  debug listener, whose errors are logged, and the bounded flush.
* The close frame gorilla sends by itself when the peer sends one: it goes past `writePump`, to a peer that is leaving.
* The statistics and the messages of `Health`: the readiness handler passes on the status alone.
* How `Load` trims, unquotes and splits a value, the fallbacks of the auth service's URL and `AllowCredentials`:
  no property is about them.
* The migrations run by an external tool before the service starts: the tables and constraints they end in are in
  `TaskStore`, `TaskChat` and `UserMirror`.
* The two task lists, user search and `PublicProfile` read and reshape rows.
* The `WriteTimeout` of the HTTP server, which may drop the answer of a handler that was slow: the
  handler does not learn of it, and an answer here is one the handler gave.

## Running

    tlc -workers 2 -config TaskRaces.cfg MCTaskService
    tlc -workers 2 -config ChatDelivery.cfg MCTaskChat
    tlc -workers 2 -config HubRooms.cfg MCChatHub
    tlc -workers 2 -config ServerShutdown.cfg Server
    tlc -workers 2 -config AccessTokens.cfg MCAccess
    tlapm TaskServiceProofs.tla
    tlapm TaskChatProofs.tla
    tlapm ChatHubDeliveryProofs.tla
