----------------------------- MODULE TaskService -----------------------------
(* The task endpoints under concurrency: internal/app/handlers_task.go over   *)
(* internal/sdk/sqldb/tasks.go.  A request runs in a goroutine of its own and *)
(* no transaction spans its statements, so other requests interleave between  *)
(* them: a handler is one action up to its first statement and one action per *)
(* statement after that, each with the checks the code makes on the answer.   *)
(* A slot of Requests is a request being served; a new one may take it as     *)
(* soon as the last is answered.  The middleware has already rejected a       *)
(* request without a valid token, so each one has a user.                     *)
(*                                                                            *)
(* UPDATE ... WHERE id and GetTask may find no row; nothing deletes a task,   *)
(* so the 404 of those is part of the step that could meet it.                *)
EXTENDS TaskStore

CONSTANTS
    Requests,       \* slots: the requests served at the same time
    MalformedBody,  \* a body ShouldBindJSON refuses
    CreateBodies,   \* the bodies of POST /task that clients send
    UpdateBodies,   \* of PATCH /task/:task_id
    StatusBodies    \* of PATCH /task/:task_id/status

ASSUME BodiesAssumption ==
    /\ CreateBodies \subseteq CreateBody \cup {MalformedBody}
    /\ UpdateBodies \subseteq UpdateBody \cup {MalformedBody}

VARIABLES
    tasks,      \* todos.tasks: the row of each id, or NULL
    mirrored,   \* todos.users: the ids that have a row
    req,        \* the locals of the request in each slot
    assignees,  \* history: everyone a task was ever assigned to
    author      \* history: the user whose request last changed a task

vars == <<tasks, mirrored, req, assignees, author>>
database == <<tasks, mirrored, assignees, author>>

Bodies == CreateBodies \cup UpdateBodies \cup StatusBodies
existing == {t \in Tasks : tasks[t] # NULL}

Successes == {200, 201}
ClientErrors == {400, 403, 404, 409}

\* pc names the statement the request runs next; "idle" is an answered slot.
\* wrote: whether a statement of the request changed the database.
Request == [pc: {"idle", "get", "parent", "write", "read_back"},
            op: {"none", "create", "read", "update", "status"},
            user: Users \cup {NULL}, id: Tasks \cup {NULL},
            body: Bodies \cup {NULL},
            reply: Successes \cup ClientErrors \cup {0, 500}, wrote: BOOLEAN]

\* A slot nobody uses: its last answer, 0 if there is none.
Answered(op, code, wrote) ==
    [pc |-> "idle", op |-> op, user |-> NULL, id |-> NULL, body |-> NULL,
     reply |-> code, wrote |-> wrote]

Init ==
    /\ tasks = [t \in Tasks |-> NULL]
    /\ mirrored = {}
    /\ req = [r \in Requests |-> Answered("none", 0, FALSE)]
    /\ assignees = [t \in Tasks |-> {}]
    /\ author = [t \in Tasks |-> NULL]

------------------------------------------------------------------------------
(* Early returns.  A check is a status code, or OK to go on.                  *)

OK == 0

Reply(r, code) ==
    req' = [req EXCEPT ![r] = Answered(@.op, code, @.wrote)]

Goto(r, pc) == req' = [req EXCEPT ![r].pc = pc]

\* What canUseDelegatedFromTask decides before its GetTask: a nil pointer
\* needs none, and a string that is no UUID is refused.
AfterParentId(parent) == IF parent = NULL THEN "write" ELSE "parent"
ParentIdIsUUID(parent) == parent \in Tasks \cup {NULL}

\* getAuthorizedTask and canUseDelegatedFromTask, on the row GetTask found.
AccessRefusal(row, user) ==
    IF row = NULL THEN 404 ELSE IF canAccessTask(row, user) THEN OK ELSE 403

CreateRefusal(user, body) ==
    IF /\ body # MalformedBody
       /\ LET input == normalizeCreateTaskInput(body)
          IN /\ validateCreateTask(input, user)
             /\ ParentIdIsUUID(input.delegated_from)
    THEN OK ELSE 400

\* Variant: whoever may see a task may edit it.
UpdateRefusalForNobody(row, user, body) ==
    IF IsTerminalTaskStatus(row.status) THEN 409
    ELSE IF /\ body # MalformedBody
            /\ LET input == normalizeUpdateTaskInput(body)
               IN /\ validateUpdateTask(input, row.created_by)
                  /\ ParentIdIsUUID(input.delegated_from.Value)
    THEN OK ELSE 400

UpdateRefusal(row, user, body) ==
    IF row.created_by # user THEN 403
    ELSE IF IsTerminalTaskStatus(row.status) THEN 409
    ELSE IF /\ body # MalformedBody
            /\ LET input == normalizeUpdateTaskInput(body)
               IN /\ validateUpdateTask(input, row.created_by)
                  /\ ParentIdIsUUID(input.delegated_from.Value)
    THEN OK ELSE 400

\* Variant: no conflict between terminal statuses.
StatusRefusalWithoutConflict(row, user, body) ==
    LET status == TrimSpace(body.status)
        actor  == IF status = "done" THEN row.assigned_to ELSE row.created_by
    IN IF body = MalformedBody \/ status \notin Status THEN 400
       ELSE IF user = actor THEN OK ELSE 403

StatusRefusal(row, user, body) ==
    LET status == TrimSpace(body.status)
        actor  == IF status = "done" THEN row.assigned_to ELSE row.created_by
    IN IF body = MalformedBody \/ status \notin Status THEN 400
       ELSE IF IsTerminalTaskStatus(status) /\ IsTerminalTaskStatus(row.status)
       THEN 409
       ELSE IF user = actor THEN OK ELSE 403

\* The parent a request asks for, NULL when it names none.
RequestedParent(q) ==
    IF q.op = "create"
    THEN normalizeCreateTaskInput(q.body).delegated_from
    ELSE normalizeUpdateTaskInput(q.body).delegated_from.Value

\* Everything the code decides between the answer of getAuthorizedTask's
\* GetTask and the next statement.
RefusalAfterGet(q) ==
    LET row    == tasks[q.id]
        access == AccessRefusal(row, q.user)
    IN IF access # OK THEN access
       ELSE CASE q.op = "read"   -> OK
              [] q.op = "update" -> UpdateRefusal(row, q.user, q.body)
              [] q.op = "status" -> StatusRefusal(row, q.user, q.body)

------------------------------------------------------------------------------
(* Accepting a request.                                                       *)

Accept(r, pc, op, user, id, body) ==
    /\ req[r].pc = "idle"
    /\ req' = [req EXCEPT ![r] =
                  [pc |-> pc, op |-> op, user |-> user, id |-> id,
                   body |-> body, reply |-> 0, wrote |-> FALSE]]
    /\ UNCHANGED database

AcceptAndRefuse(r, op, code) ==
    /\ req[r].pc = "idle"
    /\ req' = [req EXCEPT ![r] = Answered(op, code, FALSE)]
    /\ UNCHANGED database

HandleCreateTask(r, user, body) ==
    LET refusal == CreateRefusal(user, body)
        parent  == normalizeCreateTaskInput(body).delegated_from
    IN \/ /\ refusal # OK
          /\ AcceptAndRefuse(r, "create", refusal)
       \/ /\ refusal = OK
          /\ Accept(r, AfterParentId(parent), "create", user, NULL, body)

\* Variant: the path parameter goes to the database unparsed.
HandleTaskByAnyId(r, op, user, id, body) ==
    Accept(r, "get", op, user, TrimSpace(id), body)

\* The other three start with getAuthorizedTask: the path must hold a UUID.
HandleTaskById(r, op, user, id, body) ==
    \/ /\ TrimSpace(id) \notin Tasks
       /\ AcceptAndRefuse(r, op, 400)
    \/ /\ TrimSpace(id) \in Tasks
       /\ Accept(r, "get", op, user, TrimSpace(id), body)

HandleGetTask(r, user, id) == HandleTaskById(r, "read", user, id, NULL)

HandleUpdateTask(r, user, id, body) ==
    HandleTaskById(r, "update", user, id, body)

HandleUpdateTaskStatus(r, user, id, body) ==
    HandleTaskById(r, "status", user, id, body)

------------------------------------------------------------------------------
(* Statements.                                                                *)

\* GetTask for getAuthorizedTask, and the handler's checks on that row.
GetTask(r) ==
    LET q == req[r]
        refusal == RefusalAfterGet(q)
    IN /\ q.pc = "get"
       /\ \/ /\ refusal # OK
             /\ Reply(r, refusal)
          \/ /\ refusal = OK /\ q.op = "read"
             /\ Reply(r, 200)
          \/ /\ refusal = OK /\ q.op = "update"
             /\ Goto(r, AfterParentId(RequestedParent(q)))
          \/ /\ refusal = OK /\ q.op = "status"
             /\ Goto(r, "write")
       /\ UNCHANGED database

\* Variant: the parent need only exist.
GetDelegatedFromTaskUnchecked(r) ==
    LET q == req[r]
    IN /\ q.pc = "parent"
       /\ IF tasks[RequestedParent(q)] # NULL
          THEN Goto(r, "write") ELSE Reply(r, 404)
       /\ UNCHANGED database

\* GetTask for canUseDelegatedFromTask.
GetDelegatedFromTask(r) ==
    LET q == req[r]
        refusal == AccessRefusal(tasks[RequestedParent(q)], q.user)
    IN /\ q.pc = "parent"
       /\ IF refusal = OK THEN Goto(r, "write") ELSE Reply(r, refusal)
       /\ UNCHANGED database

\* The row a writing request is about to store in place of `row`.
RowToWrite(q, row) ==
    CASE q.op = "create" ->
           InsertedRow(q.user, normalizeCreateTaskInput(q.body))
      [] q.op = "update" ->
           UpdatedRow(row, normalizeUpdateTaskInput(q.body))
      [] q.op = "status" -> RowWithStatus(row, TrimSpace(q.body.status))

\* A statement that stores RowToWrite under id t.  The locals the handler
\* does not read again are dropped.
Write(r, t) ==
    LET q   == req[r]
        row == RowToWrite(q, tasks[t])
    IN /\ q.pc = "write"
       /\ \/ /\ MeetsChecks(row)
             /\ MeetsReferences(row, mirrored, existing \cup {t})
             /\ tasks' = [tasks EXCEPT ![t] = row]
             /\ assignees' = [assignees EXCEPT ![t] = @ \cup {row.assigned_to}]
             /\ author' = [author EXCEPT ![t] = q.user]
             /\ req' = [req EXCEPT ![r] =
                           [q EXCEPT !.pc = "read_back", !.id = t,
                                     !.wrote = TRUE,
                                     !.user = NULL, !.body = NULL]]
          \/ /\ ~ /\ MeetsChecks(row)
                  /\ MeetsReferences(row, mirrored, existing \cup {t})
             /\ Reply(r, 400)
             /\ UNCHANGED <<tasks, assignees, author>>
       /\ UNCHANGED mirrored

CreateTask(r, t) ==
    /\ req[r].op = "create"
    /\ tasks[t] = NULL
    /\ Write(r, t)

UpdateTask(r) == req[r].op = "update" /\ Write(r, req[r].id)

UpdateTaskStatus(r) == req[r].op = "status" /\ Write(r, req[r].id)

\* The GetTask at the end of each of the three, whose row is the answer.
ReadBack(r) ==
    LET q == req[r]
        success == IF q.op = "create" THEN 201 ELSE 200
    IN /\ q.pc = "read_back"
       /\ Reply(r, IF tasks[q.id] = NULL THEN 404 ELSE success)
       /\ UNCHANGED database

\* Variant: an error of GetTask is taken for a missing row.
DBErrorAsNotFound(r) ==
    /\ req[r].pc # "idle"
    /\ Reply(r, 404)
    /\ UNCHANGED database

\* Any statement may fail: no connection, a cancelled context, a timeout.  A
\* write whose answer is lost after the commit is a Write and a DBError.
DBError(r) ==
    /\ req[r].pc # "idle"
    /\ Reply(r, 500)
    /\ UNCHANGED database

\* The process stops: no request in flight is answered.
Crash ==
    /\ \E r \in Requests : req[r].pc # "idle"
    /\ req' = [r \in Requests |->
                  IF req[r].pc = "idle" THEN req[r]
                  ELSE Answered(req[r].op, 0, req[r].wrote)]
    /\ UNCHANGED database

\* HandleMe mirrors a user (UserMirror has that handler in full).
MirrorUser(u) ==
    /\ u \notin mirrored
    /\ mirrored' = mirrored \cup {u}
    /\ UNCHANGED <<tasks, req, assignees, author>>

Arrive(r) ==
    \E u \in Users :
        \/ \E body \in CreateBodies : HandleCreateTask(r, u, body)
        \/ \E id \in Tasks \cup {NotUUID} :
              \/ HandleGetTask(r, u, id)
              \/ \E body \in UpdateBodies : HandleUpdateTask(r, u, id, body)
              \/ \E body \in StatusBodies :
                    HandleUpdateTaskStatus(r, u, id, body)

Statement(r) ==
    \/ GetTask(r)
    \/ GetDelegatedFromTask(r)
    \/ \E t \in Tasks : CreateTask(r, t)
    \/ UpdateTask(r)
    \/ UpdateTaskStatus(r)
    \/ ReadBack(r)
    \/ DBError(r)

Next ==
    \/ \E r \in Requests : Arrive(r) \/ Statement(r)
    \/ Crash
    \/ \E u \in Users : MirrorUser(u)

Spec == Init /\ [][Next]_vars

------------------------------------------------------------------------------
(* Properties.                                                                *)

\* Every variable holds what its declaration says.
TypeOK ==
    /\ tasks \in [Tasks -> Row \cup {NULL}]
    /\ mirrored \subseteq Users
    /\ req \in [Requests -> Request]
    /\ assignees \in [Tasks -> SUBSET Users]
    /\ author \in [Tasks -> Users \cup {NULL}]

\* The user behind the last change of a task is its creator, or completed it
\* and was its assignee at some time: whatever requests run between the check
\* of a handler and its UPDATE, which names no user (handlers_task.go:92,
\* 147, 156, 162; tasks.go:154, 186).
AuthorIsEntitled ==
    \A t \in existing :
        \/ author[t] = tasks[t].created_by
        \/ tasks[t].status = "done" /\ author[t] \in assignees[t]

\* A task delegates from a task that exists and that its creator created or
\* was assigned at some time: canUseDelegatedFromTask runs before the write,
\* on another row, and nothing repeats it (handlers_task.go:65, 111).
DelegationIsJustified ==
    \A t \in existing : LET parent == tasks[t].delegated_from IN
        parent # NULL =>
            /\ parent \in existing
            /\ tasks[t].created_by \in
                   {tasks[parent].created_by} \cup assignees[parent]

\* The values a request has checked still meet the table's constraints when
\* its statement runs, however old the row they were checked against: only an
\* assignee or creator who is not mirrored makes the database refuse a write
\* (validateUpdateTask takes the creator of the row read before).
WritesMeetChecks ==
    \A r \in Requests : LET row == RowToWrite(req[r], tasks[req[r].id]) IN
        req[r].pc = "write" =>
            /\ MeetsChecks(row)
            /\ row.delegated_from \in existing \cup {NULL}

\* What an answer says of the database: success of a writing request means
\* one of its statements wrote, a 4xx that none did, so a client may correct
\* and resend; 500 and no answer leave it open (the GetTask after a committed
\* write may fail, tasks.go:121, 176, 198).
ReplyTellsTruth ==
    \A r \in Requests :
        /\ req[r].reply \in Successes => (req[r].wrote <=> req[r].op # "read")
        /\ req[r].reply \in ClientErrors => ~req[r].wrote

\* What a PATCH with this body may make of a row.
Patched(old, new, body) ==
    /\ new.assigned_to = IF body.assigned_to \in {Absent, NULL}
                         THEN old.assigned_to ELSE TrimSpace(body.assigned_to)
    /\ new.title = IF body.title \in {Absent, NULL}
                   THEN old.title ELSE TrimSpace(body.title)
    /\ new.description = IF body.description = Absent
                         THEN old.description ELSE TrimSpace(body.description)
    /\ new.delegated_from = IF body.delegated_from = Absent
                            THEN old.delegated_from
                            ELSE TrimSpace(body.delegated_from)
    /\ \A column \in {"created_by", "status", "completed_at", "cancelled_at"} :
           new[column] = old[column]

\* PATCH changes what its body names and nothing else: an omitted field keeps
\* its value, null clears a nullable one, and no column of the row comes from
\* the read that authorized the request, so concurrent patches of different
\* fields and status changes all survive (README.md:31-33).
PatchTouchesOnlyNamedFields ==
    [][\A r \in Requests : LET t == req[r].id IN
        (req[r].op = "update" /\ req'[r].wrote /\ ~req[r].wrote) =>
            /\ Patched(tasks[t], tasks'[t], req[r].body)
            /\ \A other \in Tasks \ {t} : tasks'[other] = tasks[other]]_vars

\* What README.md:19-28 promises, in full: see TaskLifecycle.  The code keeps
\* it while requests are served one at a time.
Lifecycle == INSTANCE TaskLifecycle WITH tasks <- tasks, author <- author
ImplementsLifecycle == Lifecycle!Spec

\* README.md:24-28: a done or cancelled task only ever goes back to open, and
\* is not edited before.
TerminalTasksOnlyReopen ==
    [][\A t \in existing :
          IsTerminalTaskStatus(tasks[t].status) =>
              /\ tasks'[t].status \in {tasks[t].status, "open"}
              /\ \A column \in {"assigned_to", "title", "description",
                                "delegated_from"} :
                     tasks'[t][column] = tasks[t][column]]_vars

------------------------------------------------------------------------------
(* The inductive invariant behind the state properties.                       *)

\* What the program counter of a request says of its locals.
ControlOK(q) ==
    /\ q.pc # "idle" => q.reply = 0
    /\ q.pc \in {"get", "parent", "write"} => q.user \in Users /\ ~q.wrote
    /\ q.pc = "get" => q.id \in Tasks /\ q.op \in {"read", "update", "status"}
    /\ q.pc = "parent" => q.op \in {"create", "update"}
    /\ q.pc = "parent" => RequestedParent(q) \in Tasks
    /\ q.pc \in {"write", "read_back"} => q.op \in {"create", "update", "status"}
    /\ q.pc = "read_back" => q.wrote /\ q.id \in existing

\* What the checks passed so far leave true of a request about to write, in
\* spite of what other requests did since: creators never change, rows never
\* go away and assignees only accumulate.
CheckedOK(q) ==
    /\ q.op = "create" =>
           /\ q.body \in CreateBodies
           /\ CreateRefusal(q.user, q.body) = OK
    /\ q.op = "update" =>
           /\ q.body \in UpdateBodies \ {MalformedBody}
           /\ q.id \in existing
           /\ tasks[q.id].created_by = q.user
           /\ validateUpdateTask(normalizeUpdateTaskInput(q.body), q.user)
           /\ ParentIdIsUUID(RequestedParent(q))
    /\ q.op = "status" =>
           /\ q.id \in existing
           /\ TrimSpace(q.body.status) \in Status
           /\ q.user \in IF TrimSpace(q.body.status) = "done"
                         THEN assignees[q.id] ELSE {tasks[q.id].created_by}

JustifiedParent(parent, user) ==
    parent # NULL =>
        /\ parent \in existing
        /\ user \in {tasks[parent].created_by} \cup assignees[parent]

RequestOK(q) ==
    /\ ControlOK(q)
    /\ q.pc = "get" /\ q.op = "update" => q.body \in UpdateBodies
    /\ q.pc \in {"parent", "write"} => CheckedOK(q)
    /\ q.pc = "write" /\ q.op # "status" =>
           JustifiedParent(RequestedParent(q), q.user)

RowsOK ==
    \A t \in existing :
        /\ tasks[t].assigned_to \in assignees[t]
        /\ tasks[t].created_by # tasks[t].assigned_to
        /\ JustifiedParent(tasks[t].delegated_from, tasks[t].created_by)

\* Every conjunct that the next step of any request needs.
Inductive ==
    /\ RowsOK
    /\ AuthorIsEntitled
    /\ ReplyTellsTruth
    /\ \A r \in Requests : RequestOK(req[r])
==============================================================================
