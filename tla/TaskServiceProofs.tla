-------------------------- MODULE TaskServiceProofs --------------------------
(* What TaskService keeps for any users, tasks, texts, bodies and number of   *)
(* concurrent requests.                                                       *)
EXTENDS TaskService, TLAPS

------------------------------------------------------------------------------
(* Inputs.                                                                    *)

\* Trimming a spelling of a member of S gives that member.
LEMMA TrimSpelling ==
    ASSUME NEW S, S \subseteq Strings, NEW s \in Spelling(S)
    PROVE  TrimSpace(s) \in S
BY StringsAssumption DEF Spelling, TrimSpace

\* NULL, Absent and trimmed strings are left alone.
LEMMA TrimFixed ==
    /\ TrimSpace(NULL) = NULL
    /\ TrimSpace(Absent) = Absent
    /\ \A s \in Strings : TrimSpace(s) = s
BY StringsAssumption DEF TrimSpace

\* normalizeCreateTaskInput yields trimmed strings of the right kinds.
LEMMA CreateInputType ==
    ASSUME NEW body \in CreateBody
    PROVE  LET input == normalizeCreateTaskInput(body) IN
           /\ input.assigned_to \in Users \cup {Blank}
           /\ input.title \in Texts \cup {Blank}
           /\ input.description \in Texts \cup {Blank, NULL}
           /\ input.delegated_from \in Tasks \cup {NotUUID, Blank, NULL}
<1>1. TrimSpace(body.assigned_to) \in Users \cup {Blank}
  BY TrimSpelling DEF CreateBody, Strings
<1>2. TrimSpace(body.title) \in Texts \cup {Blank}
  BY TrimSpelling DEF CreateBody, Strings
<1>3. TrimSpace(body.description) \in Texts \cup {Blank, NULL}
  <2>1. CASE body.description = NULL  BY <2>1, TrimFixed
  <2>2. CASE body.description \in Spelling(Texts \cup {Blank})
    BY <2>2, TrimSpelling DEF Strings
  <2> QED  BY <2>1, <2>2 DEF CreateBody
<1>4. TrimSpace(body.delegated_from) \in Tasks \cup {NotUUID, Blank, NULL}
  <2>1. CASE body.delegated_from = NULL  BY <2>1, TrimFixed
  <2>2. CASE body.delegated_from \in Spelling(Tasks \cup {NotUUID, Blank})
    BY <2>2, TrimSpelling DEF Strings
  <2> QED  BY <2>1, <2>2 DEF CreateBody
<1> QED  BY <1>1, <1>2, <1>3, <1>4 DEF normalizeCreateTaskInput

\* A key of a PATCH body, trimmed: a trimmed string, NULL or Absent.
LEMMA TrimOptional ==
    ASSUME NEW S, S \subseteq Strings, NEW s \in Spelling(S) \cup {NULL, Absent}
    PROVE  /\ TrimSpace(s) \in S \cup {NULL, Absent}
           /\ TrimSpace(Pointer(s)) \in S \cup {NULL}
<1>1. CASE s = NULL  BY <1>1, TrimFixed DEF Pointer
<1>2. CASE s = Absent  BY <1>2, TrimFixed DEF Pointer
<1>3. CASE s \in Spelling(S) /\ s # Absent
  BY <1>3, TrimSpelling DEF Pointer
<1> QED  BY <1>1, <1>2, <1>3

\* normalizeUpdateTaskInput: nil or trimmed strings, and flags with values.
LEMMA UpdateInputType ==
    ASSUME NEW body \in UpdateBody
    PROVE  LET input == normalizeUpdateTaskInput(body) IN
           /\ input.assigned_to \in Users \cup {Blank, NULL}
           /\ input.title \in Texts \cup {Blank, NULL}
           /\ input.description.Value \in Texts \cup {Blank, NULL}
           /\ input.delegated_from.Value \in Tasks \cup {NotUUID, Blank, NULL}
<1>1. TrimSpace(Pointer(body.assigned_to)) \in Users \cup {Blank, NULL}
  <2>1. body.assigned_to \in Spelling(Users \cup {Blank}) \cup {NULL, Absent}
    BY DEF UpdateBody
  <2> QED  BY <2>1, TrimOptional DEF Strings
<1>2. TrimSpace(Pointer(body.title)) \in Texts \cup {Blank, NULL}
  <2>1. body.title \in Spelling(Texts \cup {Blank}) \cup {NULL, Absent}
    BY DEF UpdateBody
  <2> QED  BY <2>1, TrimOptional DEF Strings
<1>3. Pointer(TrimSpace(body.description)) \in Texts \cup {Blank, NULL}
  <2>1. body.description \in Spelling(Texts \cup {Blank}) \cup {NULL, Absent}
    BY DEF UpdateBody
  <2>2. TrimSpace(body.description) \in Texts \cup {Blank, NULL, Absent}
    BY <2>1, TrimOptional DEF Strings
  <2> QED  BY <2>2 DEF Pointer
<1>4. Pointer(TrimSpace(body.delegated_from)) \in Tasks \cup {NotUUID, Blank, NULL}
  <2>1. body.delegated_from \in
            Spelling(Tasks \cup {NotUUID, Blank}) \cup {NULL, Absent}
    BY DEF UpdateBody
  <2>2. TrimSpace(body.delegated_from) \in Tasks \cup {NotUUID, Blank, NULL, Absent}
    BY <2>1, TrimOptional DEF Strings
  <2> QED  BY <2>2 DEF Pointer
<1> QED  BY <1>1, <1>2, <1>3, <1>4 DEF normalizeUpdateTaskInput, Optional

------------------------------------------------------------------------------
(* Steps that leave the database alone.                                       *)

\* The answer in a slot agrees with what the request wrote.
ReplyOK(q) ==
    /\ q.reply \in Successes => (q.wrote <=> q.op # "read")
    /\ q.reply \in ClientErrors => ~q.wrote

\* A step that replaces the request in one slot by one with sound locals.
SoundStep(r) ==
    \E q \in Request :
        /\ RequestOK(q)
        /\ ReplyOK(q)
        /\ req' = [req EXCEPT ![r] = q]

\* Such a step keeps Inductive when it leaves the database alone.
LEMMA RequestStep ==
    ASSUME TypeOK, Inductive, UNCHANGED database,
           NEW r \in Requests, SoundStep(r)
    PROVE  TypeOK' /\ Inductive'
<1>1. PICK q \in Request : /\ RequestOK(q)
                          /\ ReplyOK(q)
                          /\ req' = [req EXCEPT ![r] = q]
  BY DEF SoundStep
<1>2. TypeOK'  BY <1>1 DEF TypeOK, database
<1>3. RowsOK'  BY DEF Inductive, RowsOK, JustifiedParent, existing, database
<1>4. AuthorIsEntitled'  BY DEF Inductive, AuthorIsEntitled, existing, database
<1>5. ReplyTellsTruth'
  BY <1>1 DEF Inductive, ReplyTellsTruth, ReplyOK, TypeOK
<1>6. \A o \in Requests : RequestOK(req'[o])
  BY <1>1 DEF Inductive, TypeOK
<1>7. (\A o \in Requests : RequestOK(req[o]))'
  BY <1>6 DEF RequestOK, ControlOK, CheckedOK, JustifiedParent, existing, database
<1> QED  BY <1>2, <1>3, <1>4, <1>5, <1>7 DEF Inductive

\* Answering a request with a code that matches what it wrote.
LEMMA ReplyStep ==
    ASSUME TypeOK, NEW r \in Requests,
           NEW code \in Successes \cup ClientErrors \cup {0, 500},
           ReplyOK(Answered(req[r].op, code, req[r].wrote)),
           Reply(r, code)
    PROVE  SoundStep(r)
<1> DEFINE q == Answered(req[r].op, code, req[r].wrote)
<1>1. q \in Request /\ RequestOK(q)
  BY DEF TypeOK, Request, Answered, RequestOK, ControlOK
<1>2. req' = [req EXCEPT ![r] = q]  BY DEF Reply
<1>3. ReplyOK(q)  OBVIOUS
<1> HIDE DEF q
<1> QED  BY <1>1, <1>2, <1>3 DEF SoundStep

\* Answering a request on arrival.
LEMMA AcceptAndRefuseStep ==
    ASSUME NEW r \in Requests, NEW op \in {"create", "read", "update", "status"},
           NEW code \in ClientErrors, AcceptAndRefuse(r, op, code)
    PROVE  SoundStep(r) /\ UNCHANGED database
<1> DEFINE q == Answered(op, code, FALSE)
<1>1. q \in Request /\ RequestOK(q) /\ ReplyOK(q)
  BY DEF Answered, Request, RequestOK, ControlOK, ReplyOK, Successes, ClientErrors
<1>2. req' = [req EXCEPT ![r] = q] /\ UNCHANGED database
  BY DEF AcceptAndRefuse
<1> HIDE DEF q
<1> QED  BY <1>1, <1>2 DEF SoundStep

\* Going on to the next statement.
LEMMA GotoStep ==
    ASSUME TypeOK, NEW r \in Requests,
           NEW pc \in {"get", "parent", "write"}, Goto(r, pc),
           req[r].reply = 0,
           RequestOK([req[r] EXCEPT !.pc = pc])
    PROVE  SoundStep(r)
<1> DEFINE q == [req[r] EXCEPT !.pc = pc]
<1>1. q \in Request  BY DEF TypeOK, Request
<1>2. ReplyOK(q)  BY DEF TypeOK, Request, ReplyOK, Successes, ClientErrors
<1> QED  BY <1>1, <1>2 DEF Goto, SoundStep, TypeOK

------------------------------------------------------------------------------
(* Steps that write.                                                          *)

\* What Inductive needs of the row a request stores under id t.
RowFits(q, t, row) ==
    /\ row \in Row
    /\ tasks[t] # NULL => tasks[t].created_by = row.created_by
    /\ row.created_by # row.assigned_to
    /\ JustifiedParent(row.delegated_from, row.created_by)
    /\ \/ q.user = row.created_by
       \/ row.status = "done" /\ q.user \in assignees[t]

\* The database after the statement of slot r stored row under id t.
Stores(r, t, row) ==
    /\ tasks' = [tasks EXCEPT ![t] = row]
    /\ assignees' = [assignees EXCEPT ![t] = @ \cup {row.assigned_to}]
    /\ author' = [author EXCEPT ![t] = req[r].user]
    /\ mirrored' = mirrored
    /\ req' = [req EXCEPT ![r] =
                  [req[r] EXCEPT !.pc = "read_back", !.id = t, !.wrote = TRUE,
                                 !.user = NULL, !.body = NULL]]

\* Rows stay, creators stay, assignees accumulate.
Monotone ==
    \A t \in Tasks :
        /\ tasks[t] # NULL =>
               tasks'[t] # NULL /\ tasks'[t].created_by = tasks[t].created_by
        /\ assignees[t] \subseteq assignees'[t]

\* Storing a row that fits keeps every row, creator and assignee.
LEMMA StoresMonotone ==
    ASSUME TypeOK, NEW r \in Requests, NEW t \in Tasks, NEW row,
           RowFits(req[r], t, row), Stores(r, t, row)
    PROVE  Monotone
BY RowAssumption DEF TypeOK, RowFits, Stores, Monotone

\* Locals that were sound stay sound while the database grows.
LEMMA SoundLocalsStay ==
    ASSUME TypeOK, Monotone, NEW q \in Request, RequestOK(q)
    PROVE  RequestOK(q)'
<1>1. existing \subseteq existing'
  BY DEF Monotone, existing
<1>2. \A parent, user :
          JustifiedParent(parent, user) => JustifiedParent(parent, user)'
  BY <1>1 DEF JustifiedParent, Monotone, existing
<1>3. ControlOK(q)'  BY <1>1 DEF RequestOK, ControlOK
<1>4. CheckedOK(q) => CheckedOK(q)'
  BY <1>1 DEF CheckedOK, Monotone, existing
<1> QED  BY <1>2, <1>3, <1>4 DEF RequestOK

\* A statement that stores a row that fits keeps Inductive.
LEMMA StoreStep ==
    ASSUME TypeOK, Inductive, NEW r \in Requests, NEW t \in Tasks, NEW row,
           req[r].pc = "write", RowFits(req[r], t, row), Stores(r, t, row)
    PROVE  TypeOK' /\ Inductive'
<1>1. Monotone  BY StoresMonotone
<1>2. /\ req[r].user \in Users
      /\ req[r].reply = 0
      /\ req[r].op \in {"create", "update", "status"}
  BY DEF Inductive, RequestOK, ControlOK
<1>3. TypeOK'
  <2>1. tasks' \in [Tasks -> Row \cup {NULL}]
    BY DEF TypeOK, RowFits, Stores
  <2>2. assignees' \in [Tasks -> SUBSET Users]
    BY DEF TypeOK, RowFits, Stores, Row
  <2>3. author' \in [Tasks -> Users \cup {NULL}]  BY <1>2 DEF TypeOK, Stores
  <2>4. req' \in [Requests -> Request]
    <3> DEFINE q == [req[r] EXCEPT !.pc = "read_back", !.id = t, !.wrote = TRUE,
                                   !.user = NULL, !.body = NULL]
    <3>1. req[r] \in Request  BY DEF TypeOK
    <3>2. q \in Request  BY <3>1, ZenonT(60) DEF Request
    <3>3. req' = [req EXCEPT ![r] = q]  BY DEF Stores
    <3> HIDE DEF q
    <3> QED  BY <3>2, <3>3 DEF TypeOK
  <2> QED  BY <2>1, <2>2, <2>3, <2>4 DEF TypeOK, Stores
<1>4. existing' = existing \cup {t}
  BY RowAssumption DEF existing, Stores, TypeOK, RowFits
<1>5. \A parent, user :
          JustifiedParent(parent, user) => JustifiedParent(parent, user)'
  BY <1>1 DEF JustifiedParent, Monotone, existing
<1>6. RowsOK'
  <2> SUFFICES ASSUME NEW u \in existing'
               PROVE  /\ tasks'[u].assigned_to \in assignees'[u]
                      /\ tasks'[u].created_by # tasks'[u].assigned_to
                      /\ JustifiedParent(tasks[u].delegated_from,
                                         tasks[u].created_by)'
    BY DEF RowsOK
  <2>1. CASE u = t
    <3>1. tasks'[u] = row /\ row.assigned_to \in assignees'[u]
      BY <2>1 DEF TypeOK, Stores
    <3>2. JustifiedParent(row.delegated_from, row.created_by)'
      BY <1>5 DEF RowFits
    <3> QED  BY <3>1, <3>2 DEF RowFits, JustifiedParent
  <2>2. CASE u # t
    <3>1. u \in existing /\ tasks'[u] = tasks[u] /\ assignees'[u] = assignees[u]
      BY <1>4, <2>2 DEF existing, TypeOK, Stores
    <3>2. JustifiedParent(tasks[u].delegated_from, tasks[u].created_by)
      BY <3>1 DEF Inductive, RowsOK
    <3>3. JustifiedParent(tasks[u].delegated_from, tasks[u].created_by)'
      BY <1>1, <3>1, <3>2 DEF JustifiedParent, Monotone, existing
    <3> QED  BY <3>1, <3>3 DEF Inductive, RowsOK
  <2> QED  BY <2>1, <2>2
<1>7. AuthorIsEntitled'
  BY <1>4 DEF AuthorIsEntitled, Inductive, RowFits, Stores, TypeOK, existing
<1>8. ReplyTellsTruth'
  BY <1>2 DEF Inductive, ReplyTellsTruth, Stores, TypeOK, Request,
              Successes, ClientErrors
<1>9. (\A o \in Requests : RequestOK(req[o]))'
  <2> SUFFICES ASSUME NEW o \in Requests
               PROVE  RequestOK(req[o])'
    OBVIOUS
  <2>1. CASE o = r
    BY <1>2, <1>4, <2>1 DEF Stores, TypeOK, Request, RequestOK, ControlOK
  <2>2. CASE o # r
    <3>1. PICK q \in Request : q = req[o]  BY DEF TypeOK
    <3>2. req'[o] = q /\ RequestOK(q)
      BY <2>2, <3>1 DEF Stores, TypeOK, Inductive
    <3>3. RequestOK(q)'  BY <1>1, <3>2, SoundLocalsStay
    <3> QED
      BY <3>2, <3>3 DEF RequestOK, ControlOK, CheckedOK, JustifiedParent, existing
  <2> QED  BY <2>1, <2>2
<1> QED  BY <1>3, <1>6, <1>7, <1>8, <1>9 DEF Inductive

------------------------------------------------------------------------------
(* One lemma per action.                                                      *)

\* HandleCreateTask: refused, or checked as far as the body goes.
LEMMA CreateAccepted ==
    ASSUME NEW r \in Requests, NEW user \in Users, NEW body \in CreateBodies,
           HandleCreateTask(r, user, body)
    PROVE  SoundStep(r) /\ UNCHANGED database
<1> DEFINE parent == normalizeCreateTaskInput(body).delegated_from
<1>1. CASE CreateRefusal(user, body) # OK
  <2>1. AcceptAndRefuse(r, "create", 400)
    BY <1>1 DEF HandleCreateTask, CreateRefusal
  <2> QED  BY <2>1, AcceptAndRefuseStep DEF ClientErrors
<1>2. CASE CreateRefusal(user, body) = OK
  <2> DEFINE q == [pc |-> AfterParentId(parent), op |-> "create", user |-> user,
                   id |-> NULL, body |-> body, reply |-> 0, wrote |-> FALSE]
  <2>1. req' = [req EXCEPT ![r] = q] /\ UNCHANGED database
    BY <1>2 DEF HandleCreateTask, Accept
  <2>2. q \in Request  BY DEF Request, AfterParentId, Bodies
  <2>3. RequestedParent(q) = parent  BY DEF RequestedParent
  <2>4. parent \in Tasks \cup {NULL}
    BY <1>2 DEF CreateRefusal, ParentIdIsUUID, OK
  <2>5. ControlOK(q)  BY <2>3, <2>4 DEF ControlOK, AfterParentId
  <2>6. CheckedOK(q)  BY <1>2 DEF CheckedOK
  <2>7. q.pc = "write" => JustifiedParent(RequestedParent(q), q.user)
    BY <2>3 DEF AfterParentId, JustifiedParent
  <2>8. RequestOK(q)  BY <2>5, <2>6, <2>7 DEF RequestOK
  <2>9. ReplyOK(q)  BY DEF ReplyOK, Successes, ClientErrors
  <2> HIDE DEF q
  <2> QED  BY <2>1, <2>2, <2>8, <2>9 DEF SoundStep
<1> QED  BY <1>1, <1>2

\* The three handlers that take a task id: refused, or about to read it.
LEMMA ByIdAccepted ==
    ASSUME NEW r \in Requests, NEW op \in {"read", "update", "status"},
           NEW user \in Users, NEW id, NEW body \in Bodies \cup {NULL},
           op = "update" => body \in UpdateBodies,
           HandleTaskById(r, op, user, id, body)
    PROVE  SoundStep(r) /\ UNCHANGED database
<1>1. CASE TrimSpace(id) \notin Tasks
  <2>1. AcceptAndRefuse(r, op, 400)  BY <1>1 DEF HandleTaskById
  <2> QED  BY <2>1, AcceptAndRefuseStep DEF ClientErrors
<1>2. CASE TrimSpace(id) \in Tasks
  <2> DEFINE q == [pc |-> "get", op |-> op, user |-> user, id |-> TrimSpace(id),
                   body |-> body, reply |-> 0, wrote |-> FALSE]
  <2>1. req' = [req EXCEPT ![r] = q] /\ UNCHANGED database
    BY <1>2 DEF HandleTaskById, Accept
  <2>2. q \in Request  BY <1>2 DEF Request
  <2>3. RequestOK(q)  BY <1>2 DEF RequestOK, ControlOK
  <2>4. ReplyOK(q)  BY DEF ReplyOK, Successes, ClientErrors
  <2> HIDE DEF q
  <2> QED  BY <2>1, <2>2, <2>3, <2>4 DEF SoundStep
<1> QED  BY <1>1, <1>2

\* A new request keeps Inductive.
LEMMA ArriveStep ==
    ASSUME TypeOK, Inductive, NEW r \in Requests, Arrive(r)
    PROVE  TypeOK' /\ Inductive'
<1>1. PICK user \in Users :
          \/ \E body \in CreateBodies : HandleCreateTask(r, user, body)
          \/ \E id \in Tasks \cup {NotUUID} :
                \/ HandleGetTask(r, user, id)
                \/ \E body \in UpdateBodies : HandleUpdateTask(r, user, id, body)
                \/ \E body \in StatusBodies :
                      HandleUpdateTaskStatus(r, user, id, body)
  BY DEF Arrive
<1>2. SoundStep(r) /\ UNCHANGED database
  BY <1>1, CreateAccepted, ByIdAccepted
     DEF HandleGetTask, HandleUpdateTask, HandleUpdateTaskStatus, Bodies
<1> QED  BY <1>2, RequestStep

\* The refusals of getAuthorizedTask and of the three handlers.
LEMMA RefusalCodes ==
    ASSUME NEW q, q.op \in {"read", "update", "status"}
    PROVE  RefusalAfterGet(q) \in {OK, 400, 403, 404, 409}
BY DEF RefusalAfterGet, AccessRefusal, UpdateRefusal, StatusRefusal, OK

\* What a request that passed the checks on its task knows of it.
LEMMA PassedChecks ==
    ASSUME TypeOK, Inductive, NEW q \in Request, RequestOK(q), q.pc = "get",
           RefusalAfterGet(q) = OK, q.op \in {"update", "status"}
    PROVE  CheckedOK(q)
<1>1. q.id \in Tasks  BY DEF RequestOK, ControlOK
<1>2. AccessRefusal(tasks[q.id], q.user) = OK  BY DEF RefusalAfterGet
<1>3. q.id \in existing  BY <1>1, <1>2 DEF AccessRefusal, existing, OK
<1>4. CASE q.op = "update"
  <2>1. UpdateRefusal(tasks[q.id], q.user, q.body) = OK
    BY <1>2, <1>4 DEF RefusalAfterGet
  <2>2. q.body \in UpdateBodies  BY <1>4 DEF RequestOK
  <2> QED  BY <1>3, <1>4, <2>1, <2>2
           DEF CheckedOK, UpdateRefusal, RequestedParent, OK
<1>5. CASE q.op = "status"
  <2>1. StatusRefusal(tasks[q.id], q.user, q.body) = OK
    BY <1>2, <1>5 DEF RefusalAfterGet
  <2>2. TrimSpace(q.body.status) \in Status
    BY <2>1 DEF StatusRefusal, OK
  <2>3. q.user = IF TrimSpace(q.body.status) = "done"
                 THEN tasks[q.id].assigned_to ELSE tasks[q.id].created_by
    BY <2>1 DEF StatusRefusal, OK
  <2>4. tasks[q.id].assigned_to \in assignees[q.id]
    BY <1>3 DEF Inductive, RowsOK
  <2> QED  BY <1>3, <1>5, <2>2, <2>3, <2>4 DEF CheckedOK
<1> QED  BY <1>4, <1>5

\* getAuthorizedTask and the checks on its row keep Inductive.
LEMMA GetTaskStep ==
    ASSUME TypeOK, Inductive, NEW r \in Requests, GetTask(r)
    PROVE  TypeOK' /\ Inductive'
<1>1. PICK q \in Request : q = req[r]  BY DEF TypeOK
<1>2. q.pc = "get" /\ UNCHANGED database  BY <1>1 DEF GetTask
<1>3. /\ RequestOK(q)
      /\ q.user \in Users /\ ~q.wrote /\ q.reply = 0
      /\ q.op \in {"read", "update", "status"}
  BY <1>1, <1>2 DEF Inductive, RequestOK, ControlOK
<1>4. SoundStep(r)
  <2>1. CASE RefusalAfterGet(q) # OK
    <3>1. PICK code \in ClientErrors : code = RefusalAfterGet(q)
      BY <1>3, <2>1, RefusalCodes DEF ClientErrors, OK
    <3>2. Reply(r, code)  BY <1>1, <2>1, <3>1 DEF GetTask
    <3>3. ReplyOK(Answered(req[r].op, code, req[r].wrote))
      BY <1>1, <1>3 DEF ReplyOK, Answered, Successes, ClientErrors
    <3> QED  BY <3>2, <3>3, ReplyStep
  <2>2. CASE RefusalAfterGet(q) = OK /\ q.op = "read"
    <3>1. Reply(r, 200)  BY <1>1, <2>2 DEF GetTask
    <3>2. ReplyOK(Answered(req[r].op, 200, req[r].wrote))
      BY <1>1, <1>3, <2>2 DEF ReplyOK, Answered, Successes, ClientErrors
    <3> QED  BY <3>1, <3>2, ReplyStep DEF Successes
  <2>3. CASE RefusalAfterGet(q) = OK /\ q.op = "update"
    <3> DEFINE pc == AfterParentId(RequestedParent(q))
    <3>1. Goto(r, pc)  BY <1>1, <2>3 DEF GetTask
    <3>2. CheckedOK(q)  BY <1>2, <1>3, <2>3, PassedChecks
    <3>3. CheckedOK([q EXCEPT !.pc = pc])
      BY <2>3, <3>2 DEF CheckedOK, Request, RequestedParent
    <3>4. RequestedParent([q EXCEPT !.pc = pc]) = RequestedParent(q)
      BY DEF RequestedParent, Request
    <3>5. RequestedParent(q) \in Tasks \cup {NULL}
      BY <2>3, <3>2 DEF CheckedOK, ParentIdIsUUID
    <3>6. ControlOK([q EXCEPT !.pc = pc])
      BY <1>3, <2>3, <3>4, <3>5 DEF ControlOK, Request, AfterParentId
    <3>7. pc = "write" => RequestedParent(q) = NULL  BY DEF AfterParentId
    <3>8. pc \in {"parent", "write"}  BY DEF AfterParentId
    <3>9. RequestOK([q EXCEPT !.pc = pc])
      BY <3>3, <3>4, <3>6, <3>7, <3>8 DEF RequestOK, JustifiedParent, Request
    <3> HIDE DEF pc
    <3> QED  BY <1>1, <1>3, <3>1, <3>8, <3>9, GotoStep
  <2>4. CASE RefusalAfterGet(q) = OK /\ q.op = "status"
    <3>1. Goto(r, "write")  BY <1>1, <2>4 DEF GetTask
    <3>2. CheckedOK(q)  BY <1>2, <1>3, <2>4, PassedChecks
    <3>3. CheckedOK([q EXCEPT !.pc = "write"])
      BY <2>4, <3>2 DEF CheckedOK, Request
    <3>4. RequestOK([q EXCEPT !.pc = "write"])
      BY <1>3, <2>4, <3>3 DEF RequestOK, ControlOK, Request
    <3> QED  BY <1>1, <1>3, <3>1, <3>4, GotoStep
  <2> QED  BY <1>3, <2>1, <2>2, <2>3, <2>4
<1> QED  BY <1>2, <1>4, RequestStep

\* canUseDelegatedFromTask keeps Inductive.
LEMMA ParentStep ==
    ASSUME TypeOK, Inductive, NEW r \in Requests, GetDelegatedFromTask(r)
    PROVE  TypeOK' /\ Inductive'
<1>1. PICK q \in Request : q = req[r]  BY DEF TypeOK
<1>2. q.pc = "parent" /\ UNCHANGED database
  BY <1>1 DEF GetDelegatedFromTask
<1>3. /\ RequestOK(q) /\ CheckedOK(q)
      /\ q.user \in Users /\ ~q.wrote /\ q.reply = 0
      /\ q.op \in {"create", "update"}
      /\ RequestedParent(q) \in Tasks
  BY <1>1, <1>2 DEF Inductive, RequestOK, ControlOK
<1> DEFINE refusal == AccessRefusal(tasks[RequestedParent(q)], q.user)
<1>4. SoundStep(r)
  <2>1. CASE refusal # OK
    <3>1. PICK code \in ClientErrors : code = refusal
      BY <2>1 DEF AccessRefusal, ClientErrors, OK
    <3>2. Reply(r, code)  BY <1>1, <2>1, <3>1 DEF GetDelegatedFromTask
    <3>3. ReplyOK(Answered(req[r].op, code, req[r].wrote))
      BY <1>1, <1>3 DEF ReplyOK, Answered, Successes, ClientErrors
    <3> QED  BY <3>2, <3>3, ReplyStep
  <2>2. CASE refusal = OK
    <3>1. Goto(r, "write")  BY <1>1, <2>2 DEF GetDelegatedFromTask
    <3>2. RequestedParent([q EXCEPT !.pc = "write"]) = RequestedParent(q)
      BY DEF RequestedParent, Request
    <3>3. CheckedOK([q EXCEPT !.pc = "write"])
      BY <1>3 DEF CheckedOK, Request, RequestedParent
    <3>4. JustifiedParent(RequestedParent(q), q.user)
      <4>1. RequestedParent(q) \in existing
        BY <1>3, <2>2 DEF AccessRefusal, existing, OK
      <4>2. canAccessTask(tasks[RequestedParent(q)], q.user)
        BY <2>2 DEF AccessRefusal, OK
      <4> QED  BY <4>1, <4>2 DEF JustifiedParent, canAccessTask, Inductive, RowsOK
    <3>5. RequestOK([q EXCEPT !.pc = "write"])
      BY <1>3, <3>2, <3>3, <3>4 DEF RequestOK, ControlOK, Request
    <3> QED  BY <1>1, <1>3, <3>1, <3>5, GotoStep
  <2> QED  BY <2>1, <2>2
<1> QED  BY <1>2, <1>4, RequestStep

\* The bodies a request about to write holds were not malformed.
LEMMA CheckedBodies ==
    ASSUME NEW q, CheckedOK(q)
    PROVE  /\ q.op = "create" =>
                  q.body \in CreateBody /\ CreateRefusal(q.user, q.body) = OK
           /\ q.op = "update" => q.body \in UpdateBody
BY BodiesAssumption DEF CheckedOK, CreateRefusal, OK

\* The row a checked request is about to write meets the constraints that its
\* values alone decide, whatever became of the row since the checks.
LEMMA CheckedRow ==
    ASSUME TypeOK, Inductive, NEW q \in Request, RequestOK(q), q.pc = "write"
    PROVE  LET row == RowToWrite(q, tasks[q.id])
           IN /\ MeetsChecks(row)
              /\ row.delegated_from \in existing \cup {NULL}
<1>1. /\ CheckedOK(q) /\ q.op \in {"create", "update", "status"}
      /\ q.op # "status" => JustifiedParent(RequestedParent(q), q.user)
  BY DEF RequestOK, ControlOK
<1>2. CASE q.op = "create"
  <2> DEFINE input == normalizeCreateTaskInput(q.body)
  <2>1. validateCreateTask(input, q.user)
    BY <1>1, <1>2, CheckedBodies DEF CreateRefusal, OK
  <2>2. TrimSpace(input.title) = input.title
    BY <1>1, <1>2, CheckedBodies, CreateInputType, TrimFixed DEF Strings
  <2>3. input.delegated_from = RequestedParent(q)
    BY <1>2 DEF RequestedParent
  <2> HIDE DEF input
  <2>4. RowToWrite(q, tasks[q.id]) = InsertedRow(q.user, input)
    BY <1>2 DEF RowToWrite, input
  <2> QED
    BY <1>1, <1>2, <2>1, <2>2, <2>3, <2>4
       DEF InsertedRow, MeetsChecks, validateCreateTask, Status, JustifiedParent
<1>3. q.op # "create" => /\ q.id \in existing
                         /\ tasks[q.id] \in Row
                         /\ TrimSpace(tasks[q.id].title) # Blank
  <2>1. q.op # "create" => q.id \in existing  BY <1>1 DEF CheckedOK
  <2>2. q.id \in existing => tasks[q.id] \in Row  BY DEF TypeOK, existing
  <2>3. \A text \in Texts : TrimSpace(text) # Blank
    BY TrimFixed, StringsAssumption DEF Strings
  <2> QED  BY <2>1, <2>2, <2>3 DEF Row
<1>4. CASE q.op = "update"
  <2> DEFINE input == normalizeUpdateTaskInput(q.body)
             row == tasks[q.id]
  <2>1. validateUpdateTask(input, q.user) /\ row.created_by = q.user
    BY <1>1, <1>4 DEF CheckedOK
  <2>2. input.title \in Texts \cup {Blank, NULL}
    BY <1>1, <1>4, CheckedBodies, UpdateInputType
  <2>3. input.title # NULL => TrimSpace(input.title) # Blank
    BY <2>1, <2>2, TrimFixed, StringsAssumption DEF Strings, validateUpdateTask
  <2>4. input.delegated_from.Value = RequestedParent(q)
    BY <1>4 DEF RequestedParent
  <2>5. row.delegated_from \in existing \cup {NULL}
        /\ row.created_by # row.assigned_to
    BY <1>3, <1>4 DEF Inductive, RowsOK, JustifiedParent
  <2>6. RowToWrite(q, row) = UpdatedRow(row, input)
    BY <1>4 DEF RowToWrite
  <2> HIDE DEF input, row
  <2>7. row \in Row /\ TrimSpace(row.title) # Blank  BY <1>3, <1>4 DEF row
  <2> DEFINE new == UpdatedRow(row, input)
  <2>8. new.created_by = row.created_by /\ new.status = row.status
    BY <2>7 DEF UpdatedRow, Row
  <2>9. new.assigned_to # new.created_by
    BY <2>1, <2>5, <2>7 DEF UpdatedRow, Row, Coalesce, validateUpdateTask
  <2>10. TrimSpace(new.title) # Blank
    BY <2>3, <2>7 DEF UpdatedRow, Row, Coalesce
  <2>11. new.delegated_from \in existing \cup {NULL}
    BY <1>1, <1>4, <2>4, <2>5, <2>7
       DEF UpdatedRow, Row, CaseWhen, JustifiedParent
  <2>12. MeetsChecks(new)  BY <2>7, <2>8, <2>9, <2>10 DEF MeetsChecks, Row
  <2> QED  BY <2>6, <2>11, <2>12 DEF row
<1>5. CASE q.op = "status"
  <2>1. TrimSpace(q.body.status) \in Status  BY <1>1, <1>5 DEF CheckedOK
  <2>2. RowToWrite(q, tasks[q.id])
          = RowWithStatus(tasks[q.id], TrimSpace(q.body.status))
    BY <1>5 DEF RowToWrite
  <2>3. tasks[q.id].delegated_from \in existing \cup {NULL}
        /\ tasks[q.id].created_by # tasks[q.id].assigned_to
    BY <1>3, <1>5 DEF Inductive, RowsOK, JustifiedParent
  <2> QED  BY <1>3, <1>5, <2>1, <2>2, <2>3 DEF RowWithStatus, MeetsChecks, Row
<1> QED  BY <1>1, <1>2, <1>4, <1>5

\* The same row keeps the invariant once it is stored.
LEMMA WrittenRowFits ==
    ASSUME TypeOK, Inductive, NEW r \in Requests, NEW t \in Tasks,
           req[r].pc = "write",
           req[r].op = "create" => tasks[t] = NULL,
           req[r].op # "create" => t = req[r].id,
           MeetsReferences(RowToWrite(req[r], tasks[t]), mirrored,
                           existing \cup {t})
    PROVE  RowFits(req[r], t, RowToWrite(req[r], tasks[t]))
<1>1. PICK q \in Request : q = req[r]  BY DEF TypeOK
<1> DEFINE row == RowToWrite(q, tasks[t])
<1>2. RequestOK(q) /\ q.pc = "write"  BY <1>1 DEF Inductive
<1>3. /\ CheckedOK(q) /\ q.op \in {"create", "update", "status"}
      /\ q.op # "status" => JustifiedParent(RequestedParent(q), q.user)
      /\ q.user \in Users
  BY <1>2 DEF RequestOK, ControlOK
<1>4. row = RowToWrite(q, tasks[q.id])  BY <1>1, <1>3 DEF RowToWrite
<1>5. MeetsChecks(row)  BY <1>2, <1>4, CheckedRow
<1>6. row.assigned_to \in Users /\ row.delegated_from \in Tasks \cup {NULL}
  BY <1>1 DEF MeetsReferences, TypeOK, existing
<1>7. CASE q.op = "create"
  <2> DEFINE input == normalizeCreateTaskInput(q.body)
  <2>1. row = InsertedRow(q.user, input)  BY <1>7 DEF RowToWrite
  <2>2. input.title \in Texts \cup {Blank}
        /\ input.description \in Texts \cup {Blank, NULL}
    BY <1>3, <1>7, CheckedBodies, CreateInputType
  <2>3. input.title # Blank
    BY <1>3, <1>7, CheckedBodies DEF CreateRefusal, validateCreateTask, OK
  <2>4. input.delegated_from = RequestedParent(q)
    BY <1>7 DEF RequestedParent
  <2> HIDE DEF input
  <2>5. row \in Row
    BY <1>3, <1>6, <2>1, <2>2, <2>3 DEF InsertedRow, Row, Status
  <2>6. row.created_by = q.user /\ row.delegated_from = RequestedParent(q)
    BY <2>1, <2>4 DEF InsertedRow
  <2> QED  BY <1>1, <1>3, <1>5, <1>7, <2>5, <2>6 DEF RowFits, MeetsChecks
<1>8. q.op # "create" => /\ t = q.id /\ t \in existing
                         /\ tasks[t] \in Row
                         /\ tasks[t].assigned_to \in assignees[t]
                         /\ JustifiedParent(tasks[t].delegated_from,
                                           tasks[t].created_by)
  <2>1. q.op # "create" => t = q.id /\ t \in existing
    BY <1>1, <1>3 DEF CheckedOK
  <2>2. t \in existing => tasks[t] \in Row  BY DEF TypeOK, existing
  <2> QED  BY <2>1, <2>2 DEF Inductive, RowsOK
<1>9. CASE q.op = "update"
  <2> DEFINE input == normalizeUpdateTaskInput(q.body)
  <2>1. row = UpdatedRow(tasks[t], input)  BY <1>9 DEF RowToWrite
  <2>2. tasks[t].created_by = q.user /\ validateUpdateTask(input, q.user)
    BY <1>3, <1>8, <1>9 DEF CheckedOK
  <2>3. input.title \in Texts \cup {Blank, NULL}
        /\ input.description.Value \in Texts \cup {Blank, NULL}
    BY <1>3, <1>9, CheckedBodies, UpdateInputType
  <2>4. input.delegated_from.Value = RequestedParent(q)
    BY <1>9 DEF RequestedParent
  <2>5. input.title # Blank  BY <2>2 DEF validateUpdateTask
  <2>6. tasks[t] \in Row  BY <1>8, <1>9
  <2> HIDE DEF input
  <2>7. Coalesce(input.title, tasks[t].title) \in Texts
    BY <2>3, <2>5, <2>6 DEF Coalesce, Row
  <2>8. CaseWhen(input.description, tasks[t].description)
            \in Texts \cup {Blank, NULL}
    BY <2>3, <2>6 DEF CaseWhen, Row
  <2>9. row \in Row
    <3>1. row.assigned_to = Coalesce(input.assigned_to, tasks[t].assigned_to)
          /\ row.delegated_from
               = CaseWhen(input.delegated_from, tasks[t].delegated_from)
      BY <2>1, <2>6 DEF UpdatedRow, Row
    <3> QED  BY <1>6, <2>1, <2>6, <2>7, <2>8, <3>1 DEF UpdatedRow, Row
  <2>10. row.created_by = q.user  BY <2>1, <2>2, <2>6 DEF UpdatedRow, Row
  <2>11. JustifiedParent(row.delegated_from, q.user)
    BY <1>3, <1>8, <1>9, <2>1, <2>2, <2>4, <2>6
       DEF UpdatedRow, CaseWhen, Row
  <2> QED
    BY <1>1, <1>5, <2>2, <2>9, <2>10, <2>11 DEF RowFits, MeetsChecks
<1>10. CASE q.op = "status"
  <2> DEFINE status == TrimSpace(q.body.status)
  <2>1. row = RowWithStatus(tasks[t], status)  BY <1>10 DEF RowToWrite
  <2>2. /\ status \in Status
        /\ q.user \in IF status = "done" THEN assignees[t]
                      ELSE {tasks[t].created_by}
    BY <1>3, <1>8, <1>10 DEF CheckedOK
  <2>3. tasks[t] \in Row  BY <1>8, <1>10
  <2> HIDE DEF status
  <2>4. row \in Row  BY <2>1, <2>2, <2>3 DEF RowWithStatus, Row
  <2>5. /\ row.created_by = tasks[t].created_by
        /\ row.delegated_from = tasks[t].delegated_from
        /\ row.status = status
    BY <2>1, <2>3 DEF RowWithStatus, Row
  <2> QED  BY <1>1, <1>5, <1>8, <1>10, <2>2, <2>4, <2>5 DEF RowFits, MeetsChecks
<1> QED  BY <1>3, <1>7, <1>9, <1>10

\* The writing statements keep Inductive, whether they are accepted or not.
LEMMA WriteStep ==
    ASSUME TypeOK, Inductive, NEW r \in Requests, NEW t \in Tasks,
           req[r].op = "create" => tasks[t] = NULL,
           req[r].op # "create" => t = req[r].id,
           Write(r, t)
    PROVE  TypeOK' /\ Inductive'
<1> DEFINE row == RowToWrite(req[r], tasks[t])
           Allowed == /\ MeetsChecks(row)
                      /\ MeetsReferences(row, mirrored, existing \cup {t})
<1>1. req[r].pc = "write"  BY DEF Write
<1>2. CASE Allowed
  <2>1. RowFits(req[r], t, row)  BY <1>1, <1>2, WrittenRowFits
  <2>2. Stores(r, t, row)  BY <1>2 DEF Write, Stores
  <2> HIDE DEF row
  <2> QED  BY <1>1, <2>1, <2>2, StoreStep
<1>3. CASE ~Allowed
  <2>1. Reply(r, 400) /\ UNCHANGED database
    BY <1>3 DEF Write, database
  <2>2. ReplyOK(Answered(req[r].op, 400, req[r].wrote))
    BY <1>1 DEF ReplyOK, Answered, Successes, ClientErrors, Inductive,
                RequestOK, ControlOK
  <2>3. SoundStep(r)  BY <2>1, <2>2, ReplyStep DEF ClientErrors
  <2> QED  BY <2>1, <2>3, RequestStep
<1> QED  BY <1>2, <1>3

\* The last SELECT keeps Inductive: its row is there.
LEMMA ReadBackStep ==
    ASSUME TypeOK, Inductive, NEW r \in Requests, ReadBack(r)
    PROVE  TypeOK' /\ Inductive'
<1>1. /\ req[r].pc = "read_back" /\ UNCHANGED database
      /\ Reply(r, IF tasks[req[r].id] = NULL THEN 404
                  ELSE IF req[r].op = "create" THEN 201 ELSE 200)
  BY DEF ReadBack
<1>2. /\ req[r].wrote /\ req[r].op \in {"create", "update", "status"}
      /\ tasks[req[r].id] # NULL
  BY <1>1 DEF Inductive, RequestOK, ControlOK, existing
<1>3. PICK code \in Successes : Reply(r, code)
  BY <1>1, <1>2 DEF Successes
<1>4. ReplyOK(Answered(req[r].op, code, req[r].wrote))
  BY <1>2 DEF ReplyOK, Answered, Successes, ClientErrors
<1>5. SoundStep(r)  BY <1>3, <1>4, ReplyStep
<1> QED  BY <1>1, <1>5, RequestStep

\* A failed statement keeps Inductive: 500 claims nothing.
LEMMA DBErrorStep ==
    ASSUME TypeOK, Inductive, NEW r \in Requests, DBError(r)
    PROVE  TypeOK' /\ Inductive'
<1>1. Reply(r, 500) /\ UNCHANGED database  BY DEF DBError
<1>2. ReplyOK(Answered(req[r].op, 500, req[r].wrote))
  BY DEF ReplyOK, Answered, Successes, ClientErrors
<1>3. SoundStep(r)  BY <1>1, <1>2, ReplyStep
<1> QED  BY <1>1, <1>3, RequestStep

\* A crash keeps Inductive: no request in flight is answered.
LEMMA CrashStep ==
    ASSUME TypeOK, Inductive, Crash
    PROVE  TypeOK' /\ Inductive'
<1>1. UNCHANGED database  BY DEF Crash
<1>2. \A r \in Requests :
         req'[r] \in Request /\ RequestOK(req'[r]) /\ ReplyOK(req'[r])
  <2> SUFFICES ASSUME NEW r \in Requests
               PROVE  /\ req'[r] \in Request /\ RequestOK(req'[r])
                      /\ ReplyOK(req'[r])
    OBVIOUS
  <2>1. CASE req[r].pc = "idle"
    BY <2>1 DEF Crash, TypeOK, Inductive, ReplyTellsTruth, ReplyOK
  <2>2. CASE req[r].pc # "idle"
    <3> DEFINE q == Answered(req[r].op, 0, req[r].wrote)
    <3>1. req'[r] = q  BY <2>2 DEF Crash
    <3>2. q \in Request /\ RequestOK(q) /\ ReplyOK(q)
      BY DEF TypeOK, Request, Answered, RequestOK, ControlOK, ReplyOK,
             Successes, ClientErrors
    <3> HIDE DEF q
    <3> QED  BY <3>1, <3>2
  <2> QED  BY <2>1, <2>2
<1>3. TypeOK'  BY <1>1, <1>2 DEF TypeOK, database, Crash
<1>4. RowsOK'
  BY <1>1 DEF Inductive, RowsOK, JustifiedParent, existing, database
<1>5. AuthorIsEntitled'
  BY <1>1 DEF Inductive, AuthorIsEntitled, existing, database
<1>6. ReplyTellsTruth'  BY <1>2 DEF ReplyTellsTruth, ReplyOK
<1>7. (\A r \in Requests : RequestOK(req[r]))'
  BY <1>1, <1>2
     DEF RequestOK, ControlOK, CheckedOK, JustifiedParent, existing, database
<1> QED  BY <1>3, <1>4, <1>5, <1>6, <1>7 DEF Inductive

\* A mirrored user keeps Inductive.
LEMMA MirrorStep ==
    ASSUME TypeOK, Inductive, NEW user \in Users, MirrorUser(user)
    PROVE  TypeOK' /\ Inductive'
<1>1. UNCHANGED <<tasks, req, assignees, author>>  BY DEF MirrorUser
<1>2. TypeOK'  BY <1>1 DEF TypeOK, MirrorUser
<1>3. Inductive'
  BY <1>1 DEF Inductive, RowsOK, AuthorIsEntitled, ReplyTellsTruth, RequestOK,
              ControlOK, CheckedOK, JustifiedParent, existing
<1> QED  BY <1>2, <1>3

------------------------------------------------------------------------------
(* The invariants.                                                            *)

\* The empty database and idle slots satisfy Inductive.
LEMMA InitInductive == Init => TypeOK /\ Inductive
<1> SUFFICES ASSUME Init PROVE TypeOK /\ Inductive
  OBVIOUS
<1>1. TypeOK
  BY DEF Init, TypeOK, Answered, Request, Successes, ClientErrors
<1>2. existing = {}  BY DEF Init, existing
<1>3. RowsOK /\ AuthorIsEntitled  BY <1>2 DEF RowsOK, AuthorIsEntitled
<1>4. ReplyTellsTruth
  BY DEF Init, ReplyTellsTruth, Answered, Successes, ClientErrors
<1>5. \A r \in Requests : RequestOK(req[r])
  BY DEF Init, RequestOK, ControlOK, Answered
<1> QED  BY <1>1, <1>3, <1>4, <1>5 DEF Inductive

\* Every step keeps Inductive.
LEMMA NextInductive ==
    TypeOK /\ Inductive /\ [Next]_vars => TypeOK' /\ Inductive'
<1> SUFFICES ASSUME TypeOK, Inductive, [Next]_vars
             PROVE  TypeOK' /\ Inductive'
  OBVIOUS
<1>1. ASSUME NEW r \in Requests, Arrive(r) PROVE TypeOK' /\ Inductive'
  BY <1>1, ArriveStep
<1>2. ASSUME NEW r \in Requests, Statement(r) PROVE TypeOK' /\ Inductive'
  <2>1. CASE GetTask(r)  BY <2>1, GetTaskStep
  <2>2. CASE GetDelegatedFromTask(r)  BY <2>2, ParentStep
  <2>3. ASSUME NEW t \in Tasks, CreateTask(r, t) PROVE TypeOK' /\ Inductive'
    BY <2>3, WriteStep DEF CreateTask
  <2>4. CASE UpdateTask(r) \/ UpdateTaskStatus(r)
    <3>1. req[r].id \in Tasks /\ req[r].op # "create"
      <4>1. req[r].pc = "write" /\ req[r].op \in {"update", "status"}
        BY <2>4 DEF UpdateTask, UpdateTaskStatus, Write
      <4> QED  BY <4>1 DEF Inductive, RequestOK, CheckedOK, existing
    <3>2. PICK t \in Tasks : t = req[r].id  BY <3>1
    <3>3. Write(r, t)  BY <2>4, <3>2 DEF UpdateTask, UpdateTaskStatus
    <3> QED  BY <3>1, <3>2, <3>3, WriteStep
  <2>5. CASE ReadBack(r)  BY <2>5, ReadBackStep
  <2>6. CASE DBError(r)  BY <2>6, DBErrorStep
  <2> QED  BY <1>2, <2>1, <2>2, <2>3, <2>4, <2>5, <2>6 DEF Statement
<1>3. CASE Crash  BY <1>3, CrashStep
<1>4. ASSUME NEW u \in Users, MirrorUser(u) PROVE TypeOK' /\ Inductive'
  BY <1>4, MirrorStep
<1>5. CASE UNCHANGED vars
  <2>1. TypeOK'  BY <1>5 DEF vars, TypeOK
  <2>2. Inductive'
    BY <1>5, SMTT(30)
       DEF vars, Inductive, RowsOK, AuthorIsEntitled, ReplyTellsTruth, RequestOK,
           ControlOK, CheckedOK, JustifiedParent, existing
  <2> QED  BY <2>1, <2>2
<1> QED  BY <1>1, <1>2, <1>3, <1>4, <1>5 DEF Next

\* The inductive invariant holds in every reachable state.
THEOREM Invariance == Spec => [](TypeOK /\ Inductive)
BY InitInductive, NextInductive, PTL DEF Spec

\* Every variable keeps its type, for any number of requests and bodies.
THEOREM Typing == Spec => []TypeOK
BY Invariance, PTL

\* The last change of a task is its creator's, or its completion by someone
\* who was its assignee, however the requests of any number of users overlap.
THEOREM Entitlement == Spec => []AuthorIsEntitled
<1>1. Inductive => AuthorIsEntitled  BY DEF Inductive
<1> QED  BY <1>1, Invariance, PTL

\* Every delegation is from a task its creator took part in.
THEOREM Delegation == Spec => []DelegationIsJustified
<1>1. Inductive => DelegationIsJustified
  BY DEF Inductive, RowsOK, JustifiedParent, DelegationIsJustified
<1> QED  BY <1>1, Invariance, PTL

\* The answers of the service do not lie about what was written.
THEOREM Answers == Spec => []ReplyTellsTruth
<1>1. Inductive => ReplyTellsTruth  BY DEF Inductive
<1> QED  BY <1>1, Invariance, PTL

\* No checked value has become illegal by the time it is written.
THEOREM Checks == Spec => []WritesMeetChecks
<1>1. TypeOK /\ Inductive => WritesMeetChecks
  <2> SUFFICES ASSUME TypeOK, Inductive, NEW r \in Requests,
                      req[r].pc = "write"
               PROVE  LET row == RowToWrite(req[r], tasks[req[r].id])
                      IN /\ MeetsChecks(row)
                         /\ row.delegated_from \in existing \cup {NULL}
    BY DEF WritesMeetChecks
  <2>1. PICK q \in Request : q = req[r]  BY DEF TypeOK
  <2>2. RequestOK(q) /\ q.pc = "write"  BY <2>1 DEF Inductive
  <2> QED  BY <2>1, <2>2, CheckedRow
<1> QED  BY <1>1, Invariance, PTL

------------------------------------------------------------------------------
(* What a patch may change.                                                   *)

\* Trimming a key of a body neither makes nor removes a NULL or an Absent.
LEMMA TrimKeepsKey ==
    ASSUME NEW S, S \subseteq Strings, NEW s \in Spelling(S) \cup {NULL, Absent}
    PROVE  /\ TrimSpace(s) = Absent <=> s = Absent
           /\ TrimSpace(s) = NULL <=> s = NULL
           /\ s # Absent => Pointer(TrimSpace(s)) = TrimSpace(s)
           /\ TrimSpace(Pointer(s)) = NULL <=> s \in {NULL, Absent}
<1>1. CASE s = NULL  BY <1>1, TrimFixed, StringsAssumption DEF Pointer
<1>2. CASE s = Absent  BY <1>2, TrimFixed, StringsAssumption DEF Pointer
<1>3. CASE s \in Spelling(S) /\ s \notin {NULL, Absent}
  <2>1. TrimSpace(s) \in Strings  BY <1>3, TrimSpelling
  <2>2. TrimSpace(s) \notin {NULL, Absent}  BY <2>1, StringsAssumption
  <2> QED  BY <1>3, <2>2 DEF Pointer
<1> QED  BY <1>1, <1>2, <1>3

\* CASE WHEN on an Optional: an absent key leaves the column.
LEMMA CaseWhenOptional ==
    ASSUME NEW key, NEW column
    PROVE  CaseWhen(Optional(key), column) =
               IF key = Absent THEN column ELSE Pointer(key)
<1>1. CASE key = Absent
  <2>1. Optional(key).Set = FALSE  BY <1>1 DEF Optional
  <2> QED  BY <1>1, <2>1 DEF CaseWhen
<1>2. CASE key # Absent
  <2>1. Optional(key).Set = TRUE  BY <1>2 DEF Optional
  <2>2. Optional(key).Value = Pointer(key)  BY DEF Optional
  <2> QED  BY <1>2, <2>1, <2>2 DEF CaseWhen
<1> QED  BY <1>1, <1>2

\* The SET clauses of UpdateTask on the normalized body do what Patched says.
LEMMA UpdatedRowIsPatched ==
    ASSUME NEW row \in Row, NEW body \in UpdateBody
    PROVE  Patched(row, UpdatedRow(row, normalizeUpdateTaskInput(body)), body)
<1> DEFINE input == normalizeUpdateTaskInput(body)
           new == UpdatedRow(row, input)
<1>1. /\ body.assigned_to \in Spelling(Users \cup {Blank}) \cup {NULL, Absent}
      /\ body.title \in Spelling(Texts \cup {Blank}) \cup {NULL, Absent}
      /\ body.description \in Spelling(Texts \cup {Blank}) \cup {NULL, Absent}
      /\ body.delegated_from
            \in Spelling(Tasks \cup {NotUUID, Blank}) \cup {NULL, Absent}
  BY DEF UpdateBody
<1>2. new = [row EXCEPT
               !.assigned_to = Coalesce(input.assigned_to, row.assigned_to),
               !.title = Coalesce(input.title, row.title),
               !.description = CaseWhen(input.description, row.description),
               !.delegated_from =
                   CaseWhen(input.delegated_from, row.delegated_from)]
  BY DEF UpdatedRow
<1>3. new.assigned_to = IF body.assigned_to \in {Absent, NULL}
                        THEN row.assigned_to ELSE TrimSpace(body.assigned_to)
  <2>1. input.assigned_to = TrimSpace(Pointer(body.assigned_to))
    BY DEF normalizeUpdateTaskInput
  <2>2. input.assigned_to = NULL <=> body.assigned_to \in {NULL, Absent}
    BY <1>1, <2>1, TrimKeepsKey DEF Strings
  <2>3. new.assigned_to = Coalesce(input.assigned_to, row.assigned_to)
    BY <1>2 DEF Row
  <2> QED  BY <2>1, <2>2, <2>3 DEF Coalesce, Pointer
<1>4. new.title = IF body.title \in {Absent, NULL}
                  THEN row.title ELSE TrimSpace(body.title)
  <2>1. input.title = TrimSpace(Pointer(body.title))
    BY DEF normalizeUpdateTaskInput
  <2>2. input.title = NULL <=> body.title \in {NULL, Absent}
    BY <1>1, <2>1, TrimKeepsKey DEF Strings
  <2>3. new.title = Coalesce(input.title, row.title)  BY <1>2 DEF Row
  <2> QED  BY <2>1, <2>2, <2>3 DEF Coalesce, Pointer
<1>5. new.description = IF body.description = Absent
                        THEN row.description ELSE TrimSpace(body.description)
  <2>1. input.description = Optional(TrimSpace(body.description))
    BY DEF normalizeUpdateTaskInput
  <2>2. new.description = CaseWhen(input.description, row.description)
    BY <1>2 DEF Row
  <2>3. /\ TrimSpace(body.description) = Absent <=> body.description = Absent
        /\ body.description # Absent =>
               Pointer(TrimSpace(body.description)) = TrimSpace(body.description)
    BY <1>1, TrimKeepsKey DEF Strings
  <2> QED  BY <2>1, <2>2, <2>3, CaseWhenOptional
<1>6. new.delegated_from = IF body.delegated_from = Absent
                           THEN row.delegated_from
                           ELSE TrimSpace(body.delegated_from)
  <2>1. input.delegated_from = Optional(TrimSpace(body.delegated_from))
    BY DEF normalizeUpdateTaskInput
  <2>2. new.delegated_from = CaseWhen(input.delegated_from, row.delegated_from)
    BY <1>2 DEF Row
  <2>3. /\ TrimSpace(body.delegated_from) = Absent <=> body.delegated_from = Absent
        /\ body.delegated_from # Absent =>
               Pointer(TrimSpace(body.delegated_from)) = TrimSpace(body.delegated_from)
    BY <1>1, TrimKeepsKey DEF Strings
  <2> QED  BY <2>1, <2>2, <2>3, CaseWhenOptional
<1>7. \A column \in {"created_by", "status", "completed_at", "cancelled_at"} :
          new[column] = row[column]
  BY <1>2 DEF Row
<1> QED  BY <1>3, <1>4, <1>5, <1>6, <1>7 DEF Patched

\* Only its own UPDATE makes a patch a request that wrote.
LEMMA OnlyWriteWrites ==
    ASSUME TypeOK, Inductive, Next, NEW r \in Requests,
           req[r].op = "update", req'[r].wrote, ~req[r].wrote
    PROVE  /\ req[r].pc = "write"
           /\ tasks' = [tasks EXCEPT ![req[r].id] =
                            RowToWrite(req[r], tasks[req[r].id])]
<1>1. ASSUME NEW o \in Requests, Arrive(o) PROVE FALSE
  <2>1. \/ req' = [req EXCEPT ![o] = req'[o]] /\ ~req'[o].wrote
    BY <1>1 DEF Arrive, HandleCreateTask, HandleGetTask, HandleUpdateTask,
                HandleUpdateTaskStatus, HandleTaskById, Accept,
                AcceptAndRefuse, Answered, TypeOK
  <2> QED  BY <2>1 DEF TypeOK
<1>2. ASSUME NEW o \in Requests,
             GetTask(o) \/ GetDelegatedFromTask(o) \/ ReadBack(o) \/ DBError(o)
      PROVE  FALSE
  <2>1. \A p \in Requests : req'[p].wrote = req[p].wrote
    <3>1. ASSUME NEW code, Reply(o, code)
          PROVE  \A p \in Requests : req'[p].wrote = req[p].wrote
      BY <3>1 DEF Reply, Answered, TypeOK
    <3>2. ASSUME NEW pc, Goto(o, pc)
          PROVE  \A p \in Requests : req'[p].wrote = req[p].wrote
      BY <3>2 DEF Goto, TypeOK, Request
    <3> QED  BY <1>2, <3>1, <3>2
             DEF GetTask, GetDelegatedFromTask, ReadBack, DBError
  <2> QED  BY <2>1
<1>3. ASSUME NEW o \in Requests, NEW t \in Tasks, CreateTask(o, t) PROVE FALSE
  <2>1. req' = [req EXCEPT ![o] = req'[o]] /\ req[o].op = "create"
    BY <1>3 DEF CreateTask, Write, Reply, TypeOK
  <2> QED  BY <2>1 DEF TypeOK
<1>4. ASSUME NEW o \in Requests, UpdateTask(o) \/ UpdateTaskStatus(o)
      PROVE  /\ req[r].pc = "write"
             /\ tasks' = [tasks EXCEPT ![req[r].id] =
                              RowToWrite(req[r], tasks[req[r].id])]
  <2>1. Write(o, req[o].id)  BY <1>4 DEF UpdateTask, UpdateTaskStatus
  <2>2. req' = [req EXCEPT ![o] = req'[o]]  BY <2>1 DEF Write, Reply, TypeOK
  <2>3. o = r  BY <2>2 DEF TypeOK
  <2>4. ~Reply(o, 400)  BY <2>3 DEF Reply, Answered, TypeOK
  <2> QED  BY <2>1, <2>3, <2>4 DEF Write
<1>5. CASE Crash
  <2>1. req'[r].wrote = req[r].wrote  BY <1>5 DEF Crash, Answered
  <2> QED  BY <2>1
<1>6. ASSUME NEW u \in Users, MirrorUser(u) PROVE FALSE
  BY <1>6 DEF MirrorUser
<1> QED  BY <1>1, <1>2, <1>3, <1>4, <1>5, <1>6 DEF Next, Statement

\* A patch changes the named fields of its own row and nothing else, whatever
\* other requests did since it read that row.
THEOREM Patches == Spec => PatchTouchesOnlyNamedFields
<1> DEFINE Touches(r) ==
        LET t == req[r].id IN
        (req[r].op = "update" /\ req'[r].wrote /\ ~req[r].wrote) =>
            /\ Patched(tasks[t], tasks'[t], req[r].body)
            /\ \A other \in Tasks \ {t} : tasks'[other] = tasks[other]
<1>1. TypeOK /\ Inductive /\ [Next]_vars
          => [\A r \in Requests : Touches(r)]_vars
  <2> SUFFICES ASSUME TypeOK, Inductive, Next, NEW r \in Requests,
                      req[r].op = "update", req'[r].wrote, ~req[r].wrote
               PROVE  LET t == req[r].id IN
                      /\ Patched(tasks[t], tasks'[t], req[r].body)
                      /\ \A other \in Tasks \ {t} : tasks'[other] = tasks[other]
    OBVIOUS
  <2>1. /\ req[r].pc = "write"
        /\ tasks' = [tasks EXCEPT ![req[r].id] =
                         RowToWrite(req[r], tasks[req[r].id])]
    BY OnlyWriteWrites
  <2>2. PICK q \in Request : q = req[r]  BY DEF TypeOK
  <2>3. CheckedOK(q)  BY <2>1, <2>2 DEF Inductive, RequestOK
  <2>4. q.body \in UpdateBody /\ q.id \in existing
    BY <2>2, <2>3, CheckedBodies DEF CheckedOK
  <2>5. tasks[q.id] \in Row /\ q.id \in Tasks
    BY <2>4 DEF TypeOK, existing
  <2>6. tasks'[q.id] = UpdatedRow(tasks[q.id], normalizeUpdateTaskInput(q.body))
    BY <2>1, <2>2, <2>5 DEF RowToWrite, TypeOK
  <2>7. Patched(tasks[q.id], tasks'[q.id], q.body)
    BY <2>4, <2>5, <2>6, UpdatedRowIsPatched
  <2>8. \A other \in Tasks \ {q.id} : tasks'[other] = tasks[other]
    BY <2>1, <2>2 DEF TypeOK
  <2> QED  BY <2>2, <2>7, <2>8
<1>2. Spec => [][\A r \in Requests : Touches(r)]_vars
  BY <1>1, Invariance, PTL DEF Spec
<1> QED  BY <1>2 DEF PatchTouchesOnlyNamedFields

------------------------------------------------------------------------------
(* One request at a time: the rows the checks were made on are still there    *)
(* when the statement runs, and every write is a step of TaskLifecycle.       *)

\* The two times are set by the status they belong to.
Stamped(row) ==
    /\ row.completed_at = (row.status = "done")
    /\ row.cancelled_at = (row.status = "cancelled")

\* What a request found, and still holds if nobody else wrote since.
Fresh(q) ==
    /\ q.op = "update" /\ q.pc \in {"parent", "write"} =>
           tasks[q.id].status = "open"
    /\ q.op # "status" /\ q.pc = "write" =>
           RequestedParent(q) \in Lifecycle!Accessible(q.user) \cup {NULL}
    /\ q.op = "status" /\ q.pc = "write" =>
           LET status == TrimSpace(q.body.status)
           IN /\ q.user = IF status = "done" THEN tasks[q.id].assigned_to
                          ELSE tasks[q.id].created_by
              /\ status # "open" => tasks[q.id].status = "open"

Current ==
    /\ \A t \in existing : Stamped(tasks[t])
    /\ \A r \in Requests : Fresh(req[r])

\* A step of the only request that leaves the tasks alone.
LEMMA FreshStep ==
    ASSUME TypeOK, Current, NEW r \in Requests, \A o \in Requests : o = r,
           NEW q, Fresh(q), req' = [req EXCEPT ![r] = q], UNCHANGED tasks
    PROVE  Current'
<1>1. \A o \in Requests : req'[o] = q  BY DEF TypeOK
<1>2. Fresh(q)'  BY DEF Fresh, Lifecycle!Accessible
<1>3. \A o \in Requests : Fresh(req[o])'
  BY <1>1, <1>2 DEF Fresh, RequestedParent, Lifecycle!Accessible
<1> QED  BY <1>3 DEF Current, existing

\* An answer leaves nothing to be fresh.
LEMMA FreshReply ==
    ASSUME TypeOK, Current, NEW r \in Requests, \A o \in Requests : o = r,
           NEW code, Reply(r, code), UNCHANGED tasks
    PROVE  Current'
<1> DEFINE q == Answered(req[r].op, code, req[r].wrote)
<1>1. req' = [req EXCEPT ![r] = q] /\ q.pc = "idle"  BY DEF Reply, Answered
<1>2. PICK p : p = q  OBVIOUS
<1>3. Fresh(p)  BY <1>1, <1>2 DEF Fresh
<1> HIDE DEF q
<1> QED  BY <1>1, <1>2, <1>3, FreshStep

LEMMA FreshArrival ==
    ASSUME TypeOK, Current, NEW r \in Requests, \A o \in Requests : o = r,
           Arrive(r)
    PROVE  Current'
<1>1. ASSUME NEW op, NEW code, AcceptAndRefuse(r, op, code)
      PROVE  Current'
  <2> DEFINE q == Answered(op, code, FALSE)
  <2>1. req' = [req EXCEPT ![r] = q] /\ UNCHANGED tasks /\ q.pc = "idle"
    BY <1>1 DEF AcceptAndRefuse, Answered, database
  <2>2. Fresh(q)  BY <2>1 DEF Fresh
  <2> HIDE DEF q
  <2> QED  BY <2>1, <2>2, FreshStep
<1>2. ASSUME NEW op, NEW user, NEW id, NEW body, HandleTaskById(r, op, user, id, body)
      PROVE  Current'
  <2> DEFINE q == [pc |-> "get", op |-> op, user |-> user, id |-> TrimSpace(id),
                   body |-> body, reply |-> 0, wrote |-> FALSE]
  <2>1. CASE AcceptAndRefuse(r, op, 400)
    BY <1>1, <2>1
  <2>2. CASE req' = [req EXCEPT ![r] = q] /\ UNCHANGED tasks
    <3>1. q.pc = "get"  OBVIOUS
    <3>2. Fresh(q)  BY <3>1 DEF Fresh
    <3> HIDE DEF q
    <3> QED  BY <2>2, <3>2, FreshStep
  <2> QED  BY <1>2, <2>1, <2>2 DEF HandleTaskById, Accept, database
<1>3. ASSUME NEW user, NEW body, HandleCreateTask(r, user, body)
      PROVE  Current'
  <2> DEFINE parent == normalizeCreateTaskInput(body).delegated_from
             q == [pc |-> AfterParentId(parent), op |-> "create", user |-> user,
                   id |-> NULL, body |-> body, reply |-> 0, wrote |-> FALSE]
  <2>1. CASE CreateRefusal(user, body) # OK
    BY <1>1, <1>3, <2>1 DEF HandleCreateTask
  <2>2. CASE CreateRefusal(user, body) = OK
    <3>1. req' = [req EXCEPT ![r] = q] /\ UNCHANGED tasks
      BY <1>3, <2>2 DEF HandleCreateTask, Accept, database
    <3>2. q.op = "create" /\ q.pc = AfterParentId(parent) /\ RequestedParent(q) = parent
      BY DEF RequestedParent
    <3>3. Fresh(q)  BY <3>2 DEF Fresh, AfterParentId
    <3> HIDE DEF q
    <3> QED  BY <3>1, <3>3, FreshStep
  <2> QED  BY <2>1, <2>2
<1> QED
  BY <1>2, <1>3 DEF Arrive, HandleGetTask, HandleUpdateTask, HandleUpdateTaskStatus

\* The two reads before a write find what Fresh says.
LEMMA FreshRead ==
    ASSUME TypeOK, Inductive, Current,
           NEW r \in Requests, \A o \in Requests : o = r,
           GetTask(r) \/ GetDelegatedFromTask(r)
    PROVE  Current'
<1>1. PICK q \in Request : q = req[r]  BY DEF TypeOK
<1>2. UNCHANGED tasks  BY DEF GetTask, GetDelegatedFromTask, database
<1>3. ASSUME NEW pc \in {"parent", "write"}, Goto(r, pc),
             Fresh([q EXCEPT !.pc = pc])
      PROVE  Current'
  <2>1. req' = [req EXCEPT ![r] = [q EXCEPT !.pc = pc]]
    BY <1>1, <1>3 DEF Goto, TypeOK
  <2> QED  BY <1>2, <1>3, <2>1, FreshStep
<1>4. \A pc : /\ [q EXCEPT !.pc = pc].pc = pc
              /\ [q EXCEPT !.pc = pc].op = q.op /\ [q EXCEPT !.pc = pc].id = q.id
              /\ [q EXCEPT !.pc = pc].user = q.user
              /\ [q EXCEPT !.pc = pc].body = q.body
              /\ RequestedParent([q EXCEPT !.pc = pc]) = RequestedParent(q)
  BY DEF Request, RequestedParent
<1>5. CASE GetTask(r) /\ RefusalAfterGet(q) = OK /\ q.op = "update"
  <2> DEFINE pc == AfterParentId(RequestedParent(q))
  <2>1. Goto(r, pc) /\ pc \in {"parent", "write"}
    BY <1>1, <1>5 DEF GetTask, AfterParentId
  <2>2. q.id \in existing
    BY <1>1, <1>5, PassedChecks DEF GetTask, CheckedOK, Inductive
  <2>3. UpdateRefusal(tasks[q.id], q.user, q.body) = OK
    BY <1>5 DEF RefusalAfterGet
  <2>4. tasks[q.id].status = "open"
    BY <2>2, <2>3 DEF UpdateRefusal, OK, IsTerminalTaskStatus, TerminalStatus,
                      Status, Row, TypeOK, existing
  <2>5. pc = "write" => RequestedParent(q) = NULL  BY DEF AfterParentId
  <2> HIDE DEF pc
  <2>6. Fresh([q EXCEPT !.pc = pc])
    BY <1>4, <1>5, <2>4, <2>5 DEF Fresh
  <2> QED  BY <1>3, <2>1, <2>6
<1>6. CASE GetTask(r) /\ RefusalAfterGet(q) = OK /\ q.op = "status"
  <2>1. Goto(r, "write")  BY <1>1, <1>6 DEF GetTask
  <2>2. q.id \in existing
    BY <1>1, <1>6, PassedChecks DEF GetTask, CheckedOK, Inductive
  <2>3. StatusRefusal(tasks[q.id], q.user, q.body) = OK
    BY <1>6 DEF RefusalAfterGet
  <2> DEFINE status == TrimSpace(q.body.status)
  <2>4. /\ status \in Status
        /\ q.user = IF status = "done" THEN tasks[q.id].assigned_to
                    ELSE tasks[q.id].created_by
        /\ ~(IsTerminalTaskStatus(status) /\ IsTerminalTaskStatus(tasks[q.id].status))
    BY <2>3 DEF StatusRefusal, OK
  <2>5. status # "open" => tasks[q.id].status = "open"
    BY <2>2, <2>4 DEF IsTerminalTaskStatus, TerminalStatus, Status, Row, TypeOK, existing
  <2>6. Fresh([q EXCEPT !.pc = "write"])
    BY <1>4, <1>6, <2>4, <2>5 DEF Fresh
  <2> QED  BY <1>3, <2>1, <2>6
<1>7. CASE GetDelegatedFromTask(r) /\ Goto(r, "write")
  <2>1. /\ q.op \in {"create", "update"} /\ RequestedParent(q) \in Tasks
        /\ q.pc = "parent" /\ Fresh(q)
    BY <1>1, <1>7 DEF GetDelegatedFromTask, Inductive, RequestOK, ControlOK, Current
  <2>2. AccessRefusal(tasks[RequestedParent(q)], q.user) = OK
    BY <1>1, <1>7 DEF GetDelegatedFromTask, Goto, Reply, Answered, TypeOK, Request
  <2>3. RequestedParent(q) \in Lifecycle!Accessible(q.user)
    BY <2>1, <2>2
       DEF AccessRefusal, OK, Lifecycle!Accessible, canAccessTask, Lifecycle!canAccessTask
  <2>4. Fresh([q EXCEPT !.pc = "write"])
    BY <1>4, <2>1, <2>3 DEF Fresh
  <2> QED  BY <1>3, <1>7, <2>4
<1> QED
  BY <1>1, <1>2, <1>5, <1>6, <1>7, FreshReply DEF GetTask, GetDelegatedFromTask

\* What the three statements make of the two times.
LEMMA RowsStamped ==
    ASSUME NEW row \in Row, Stamped(row), NEW input, NEW status \in Status
    PROVE  /\ Stamped(UpdatedRow(row, input))
           /\ Stamped(RowWithStatus(row, status))
           /\ RowWithStatus(row, "open") = [row EXCEPT !.status = "open",
                                                       !.completed_at = FALSE,
                                                       !.cancelled_at = FALSE]
           /\ row.status = "open" =>
                  /\ RowWithStatus(row, "done")
                        = [row EXCEPT !.status = "done", !.completed_at = TRUE]
                  /\ RowWithStatus(row, "cancelled")
                        = [row EXCEPT !.status = "cancelled", !.cancelled_at = TRUE]
<1>1. Stamped(UpdatedRow(row, input))
  BY DEF Stamped, UpdatedRow, Row
<1>2. Stamped(RowWithStatus(row, status))
  BY DEF Stamped, RowWithStatus, Row
<1>3. RowWithStatus(row, "open") = [row EXCEPT !.status = "open",
                                               !.completed_at = FALSE,
                                               !.cancelled_at = FALSE]
  BY DEF RowWithStatus, Row
<1>4. CASE row.status = "open"
  <2>1. row.completed_at = FALSE /\ row.cancelled_at = FALSE
    BY <1>4 DEF Stamped
  <2>2. RowWithStatus(row, "done")
           = [row EXCEPT !.status = "done", !.completed_at = TRUE]
    BY <2>1 DEF RowWithStatus, Row
  <2>3. RowWithStatus(row, "cancelled")
           = [row EXCEPT !.status = "cancelled", !.cancelled_at = TRUE]
    BY <2>1 DEF RowWithStatus, Row
  <2> QED  BY <1>1, <1>2, <1>3, <2>2, <2>3
<1> QED  BY <1>1, <1>2, <1>3, <1>4

\* The row a patch stores, as an edit of the old one.
Edited(row, assignee, title, description, parent) ==
    [row EXCEPT !.assigned_to = assignee, !.title = title,
                !.description = description, !.delegated_from = parent]

LEMMA UpdatedRowIsEdited ==
    ASSUME NEW row \in Row, NEW input
    PROVE  LET new == UpdatedRow(row, input) IN
           /\ new = Edited(row, new.assigned_to, new.title, new.description,
                           new.delegated_from)
           /\ new.delegated_from \in {row.delegated_from, input.delegated_from.Value}
<1> DEFINE new == UpdatedRow(row, input)
           a == Coalesce(input.assigned_to, row.assigned_to)
           n == Coalesce(input.title, row.title)
           d == CaseWhen(input.description, row.description)
           p == CaseWhen(input.delegated_from, row.delegated_from)
<1>1. new = Edited(row, a, n, d, p)
  BY DEF UpdatedRow, Edited
<1>2. p \in {row.delegated_from, input.delegated_from.Value}
  BY DEF CaseWhen
<1> HIDE DEF a, n, d, p, new
<1>3. new.assigned_to = a /\ new.title = n /\ new.description = d
      /\ new.delegated_from = p
  BY <1>1 DEF Edited, Row
<1> QED  BY <1>1, <1>2, <1>3 DEF new

\* Each accepted statement of the only request is a step of the lifecycle.
LEMMA CreateIsCreate ==
    ASSUME TypeOK, Inductive, NEW t \in Tasks, NEW q \in Request, NEW row,
           q.op = "create", tasks[t] = NULL, RowFits(q, t, row),
           row = RowToWrite(q, tasks[t]), q.user \in Users,
           RequestedParent(q) \in Lifecycle!Accessible(q.user) \cup {NULL},
           Lifecycle!Change(t, q.user, row)
    PROVE  Lifecycle!Create(t, q.user)
<1> DEFINE input == normalizeCreateTaskInput(q.body)
<1>1. /\ row = InsertedRow(q.user, input)
      /\ input.delegated_from = RequestedParent(q)
  BY DEF RowToWrite, RequestedParent
<1> HIDE DEF input
<1>2. row = [created_by |-> q.user, assigned_to |-> input.assigned_to,
             title |-> input.title, description |-> input.description,
             status |-> "open", delegated_from |-> input.delegated_from,
             completed_at |-> FALSE, cancelled_at |-> FALSE]
  BY <1>1 DEF InsertedRow
<1>3. /\ input.assigned_to \in Users \ {q.user} /\ input.title \in Texts
      /\ input.description \in Texts \cup {Blank, NULL}
  <2>1. row \in Row /\ row.created_by # row.assigned_to  BY DEF RowFits
  <2>2. /\ row.created_by = q.user /\ row.assigned_to = input.assigned_to
        /\ row.title = input.title /\ row.description = input.description
    BY <1>2
  <2> QED  BY <2>1, <2>2 DEF Row
<1> QED  BY <1>1, <1>2, <1>3 DEF Lifecycle!Create

LEMMA UpdateIsEdit ==
    ASSUME TypeOK, Inductive, NEW t \in Tasks, NEW q \in Request, NEW row,
           q.op = "update", t \in existing, RowFits(q, t, row),
           row = RowToWrite(q, tasks[t]), CheckedOK(q), q.id = t,
           tasks[t].status = "open",
           RequestedParent(q) \in Lifecycle!Accessible(q.user) \cup {NULL},
           Lifecycle!Change(t, q.user, row)
    PROVE  Lifecycle!Edit(t, q.user)
<1> DEFINE input == normalizeUpdateTaskInput(q.body)
<1>1. /\ tasks[t] \in Row /\ tasks[t] # NULL /\ tasks[t].created_by = q.user
      /\ row = UpdatedRow(tasks[t], input)
      /\ input.delegated_from.Value = RequestedParent(q)
  BY DEF TypeOK, existing, CheckedOK, RowToWrite, RequestedParent
<1> HIDE DEF input
<1>2. PICK a, n, d, p : /\ a = row.assigned_to /\ n = row.title
                        /\ d = row.description /\ p = row.delegated_from
  OBVIOUS
<1>3. /\ row = Edited(tasks[t], a, n, d, p)
      /\ p \in {tasks[t].delegated_from, RequestedParent(q)}
  BY <1>1, <1>2, UpdatedRowIsEdited
<1>4. /\ a \in Users \ {q.user} /\ n \in Texts /\ d \in Texts \cup {Blank, NULL}
      /\ p \in Lifecycle!Accessible(q.user) \cup {NULL, tasks[t].delegated_from}
  BY <1>1, <1>2, <1>3 DEF RowFits, Row
<1>5. Lifecycle!Change(t, q.user, Edited(tasks[t], a, n, d, p))
  BY <1>3
<1> QED  BY <1>1, <1>4, <1>5 DEF Lifecycle!Edit, Edited

LEMMA StatusIsMove ==
    ASSUME TypeOK, NEW t \in Tasks, NEW q \in Request, NEW row,
           q.op = "status", q.pc = "write", t \in existing, Stamped(tasks[t]),
           row = RowToWrite(q, tasks[t]), CheckedOK(q), q.id = t, Fresh(q),
           Lifecycle!Change(t, q.user, row)
    PROVE  Lifecycle!Complete(t, q.user) \/ Lifecycle!Cancel(t, q.user)
               \/ Lifecycle!Reopen(t, q.user)
<1> DEFINE status == TrimSpace(q.body.status)
<1>1. /\ tasks[t] \in Row /\ tasks[t] # NULL
      /\ row = RowWithStatus(tasks[t], status) /\ status \in Status
      /\ q.user = IF status = "done" THEN tasks[t].assigned_to
                  ELSE tasks[t].created_by
      /\ status # "open" => tasks[t].status = "open"
  BY DEF TypeOK, existing, RowToWrite, CheckedOK, Fresh
<1> HIDE DEF status
<1>2. CASE status = "open"
  <2>1. row = [tasks[t] EXCEPT !.status = "open", !.completed_at = FALSE,
                               !.cancelled_at = FALSE]
    BY <1>1, <1>2, RowsStamped
  <2> QED  BY <1>1, <1>2, <2>1 DEF Lifecycle!Reopen
<1>3. CASE status = "done"
  <2>1. row = [tasks[t] EXCEPT !.status = "done", !.completed_at = TRUE]
    BY <1>1, <1>3, RowsStamped
  <2> QED  BY <1>1, <1>3, <2>1 DEF Lifecycle!Complete
<1>4. CASE status = "cancelled"
  <2>1. row = [tasks[t] EXCEPT !.status = "cancelled", !.cancelled_at = TRUE]
    BY <1>1, <1>4, RowsStamped
  <2> QED  BY <1>1, <1>4, <2>1 DEF Lifecycle!Cancel
<1> QED  BY <1>1, <1>2, <1>3, <1>4 DEF Status, TerminalStatus

LEMMA LoneWrite ==
    ASSUME TypeOK, Inductive, Current,
           NEW r \in Requests, \A o \in Requests : o = r, NEW t \in Tasks,
           req[r].op = "create" => tasks[t] = NULL,
           req[r].op # "create" => t = req[r].id,
           Write(r, t)
    PROVE  Current' /\ [Lifecycle!Next]_<<tasks, author>>
<1>1. PICK q \in Request : q = req[r]  BY DEF TypeOK
<1>2. PICK row : row = RowToWrite(q, tasks[t])  OBVIOUS
<1>3. /\ q.pc = "write" /\ q.user \in Users /\ CheckedOK(q) /\ Fresh(q)
      /\ q.op \in {"create", "update", "status"}
      /\ q.op # "create" => t = q.id /\ t \in existing
  BY <1>1 DEF Write, Inductive, RequestOK, ControlOK, CheckedOK, Current
<1>4. CASE ~(MeetsChecks(row) /\ MeetsReferences(row, mirrored, existing \cup {t}))
  <2>1. Reply(r, 400) /\ UNCHANGED <<tasks, author>>
    BY <1>1, <1>2, <1>4 DEF Write
  <2> QED  BY <2>1, FreshReply
<1>5. CASE MeetsChecks(row) /\ MeetsReferences(row, mirrored, existing \cup {t})
  <2>1. RowFits(q, t, row) /\ Stores(r, t, row)
    BY <1>1, <1>2, <1>3, <1>5, WrittenRowFits DEF Write, Stores
  <2>2. Lifecycle!Change(t, q.user, row)
    BY <1>1, <2>1 DEF Stores, Lifecycle!Change
  <2>3. t \in existing => tasks[t] \in Row /\ Stamped(tasks[t])
    BY DEF Current, TypeOK, existing
  <2>4. Stamped(row)
    <3>1. CASE q.op = "create"
      BY <1>2, <3>1 DEF RowToWrite, InsertedRow, Stamped
    <3>2. CASE q.op = "update"
      BY <1>2, <1>3, <2>3, <3>2, RowsStamped DEF RowToWrite, Status
    <3>3. CASE q.op = "status"
      BY <1>2, <1>3, <2>3, <3>3, RowsStamped DEF RowToWrite, CheckedOK
    <3> QED  BY <1>3, <3>1, <3>2, <3>3
  <2>5. Current'
    <3>1. \A u \in existing' : Stamped(tasks'[u])
      BY <2>1, <2>4 DEF Current, Stores, TypeOK, existing
    <3>2. \A o \in Requests : req'[o].pc = "read_back"
      BY <2>1 DEF Stores, TypeOK, Request
    <3>3. (\A u \in existing : Stamped(tasks[u]))'
      BY <3>1 DEF Stamped
    <3>4. (\A o \in Requests : Fresh(req[o]))'
      BY <3>2 DEF Fresh
    <3> QED  BY <3>3, <3>4 DEF Current
  <2>6. Lifecycle!Next
    <3>1. q.op # "status" =>
              RequestedParent(q) \in Lifecycle!Accessible(q.user) \cup {NULL}
      BY <1>3 DEF Fresh
    <3>2. CASE q.op = "create"
      <4>1. Lifecycle!Create(t, q.user)
        BY <1>1, <1>2, <1>3, <2>1, <2>2, <3>1, <3>2, CreateIsCreate
      <4> QED  BY <1>3, <4>1 DEF Lifecycle!Next
    <3>3. CASE q.op = "update"
      <4>1. tasks[t].status = "open"  BY <1>3, <3>3 DEF Fresh
      <4>2. Lifecycle!Edit(t, q.user)
        BY <1>2, <1>3, <2>1, <2>2, <3>1, <3>3, <4>1, UpdateIsEdit
      <4> QED  BY <1>3, <4>2 DEF Lifecycle!Next
    <3>4. CASE q.op = "status"
      <4>1. \/ Lifecycle!Complete(t, q.user) \/ Lifecycle!Cancel(t, q.user)
            \/ Lifecycle!Reopen(t, q.user)
        BY <1>2, <1>3, <2>2, <2>3, <3>4, StatusIsMove
      <4> QED  BY <1>3, <4>1 DEF Lifecycle!Next
    <3> QED  BY <1>3, <3>2, <3>3, <3>4
  <2> QED  BY <2>5, <2>6
<1> QED  BY <1>4, <1>5

LEMMA LoneStep ==
    ASSUME \A r, o \in Requests : r = o, TypeOK, Inductive, Current, [Next]_vars
    PROVE  Current' /\ [Lifecycle!Next]_<<tasks, author>>
<1>1. ASSUME NEW r \in Requests, Arrive(r) \/ Statement(r)
      PROVE  Current' /\ [Lifecycle!Next]_<<tasks, author>>
  <2>1. \A o \in Requests : o = r  OBVIOUS
  <2>2. CASE Arrive(r)
    <3>1. UNCHANGED <<tasks, author>>
      BY <2>2 DEF Arrive, HandleCreateTask, HandleGetTask, HandleUpdateTask,
                  HandleUpdateTaskStatus, HandleTaskById, Accept, AcceptAndRefuse,
                  database
    <3> QED  BY <2>1, <2>2, <3>1, FreshArrival
  <2>3. CASE GetTask(r) \/ GetDelegatedFromTask(r)
    <3>1. UNCHANGED <<tasks, author>>
      BY <2>3 DEF GetTask, GetDelegatedFromTask, database
    <3> QED  BY <2>1, <2>3, <3>1, FreshRead
  <2>4. CASE ReadBack(r) \/ DBError(r)
    <3>1. /\ UNCHANGED <<tasks, author>>
          /\ \E code : Reply(r, code)
      BY <2>4 DEF ReadBack, DBError, database
    <3> QED  BY <2>1, <3>1, FreshReply
  <2>5. ASSUME NEW t \in Tasks, CreateTask(r, t)
        PROVE  Current' /\ [Lifecycle!Next]_<<tasks, author>>
    BY <2>1, <2>5, LoneWrite DEF CreateTask
  <2>6. CASE UpdateTask(r) \/ UpdateTaskStatus(r)
    <3>1. req[r].pc = "write" /\ req[r].op \in {"update", "status"}
      BY <2>6 DEF UpdateTask, UpdateTaskStatus, Write
    <3>2. req[r].id \in Tasks
      BY <3>1 DEF Inductive, RequestOK, CheckedOK, existing
    <3>3. PICK t \in Tasks : t = req[r].id  BY <3>2
    <3>4. Write(r, t)  BY <2>6, <3>3 DEF UpdateTask, UpdateTaskStatus
    <3> QED  BY <2>1, <3>1, <3>3, <3>4, LoneWrite
  <2> QED  BY <1>1, <2>2, <2>3, <2>4, <2>5, <2>6 DEF Statement
<1>2. CASE Crash
  <2>1. /\ UNCHANGED <<tasks, author>>
        /\ \A r \in Requests : req'[r].pc = "idle"
    BY <1>2 DEF Crash, Answered, database
  <2>2. (\A r \in Requests : Fresh(req[r]))'  BY <2>1 DEF Fresh
  <2> QED  BY <2>1, <2>2 DEF Current, existing
<1>3. ASSUME \/ UNCHANGED vars
             \/ \E u \in Users : MirrorUser(u)
      PROVE  Current' /\ [Lifecycle!Next]_<<tasks, author>>
  <2>1. UNCHANGED <<tasks, author, req>>
    BY <1>3 DEF vars, MirrorUser
  <2>2. (\A r \in Requests : Fresh(req[r]))'
    BY <2>1 DEF Current, Fresh, Lifecycle!Accessible
  <2> QED  BY <2>1, <2>2 DEF Current, existing
<1> QED  BY <1>1, <1>2, <1>3 DEF Next

\* Served one at a time the requests keep the whole table of statuses: who may
\* create, edit, complete, cancel and reopen, from which status, and with which
\* parent (README.md:19-28; handlers_task.go:60-181).  With two at a time they do
\* not: the check of a handler and its UPDATE are then two steps.
THEOREM OneAtATime ==
    ASSUME \A r, o \in Requests : r = o
    PROVE  Spec => ImplementsLifecycle
<1>1. Init => Lifecycle!Init /\ Current
  BY DEF Init, Lifecycle!Init, Current, existing, Fresh, Answered
<1>2. TypeOK /\ Inductive /\ Current /\ [Next]_vars
          => Current' /\ [Lifecycle!Next]_<<tasks, author>>
  BY LoneStep
<1> QED  BY <1>1, <1>2, Invariance, PTL DEF Spec, ImplementsLifecycle, Lifecycle!Spec
==============================================================================
