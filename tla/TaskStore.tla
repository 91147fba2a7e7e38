------------------------------ MODULE TaskStore ------------------------------
(* The task table, the request bodies that change it and the pure checks the  *)
(* handlers make on them: internal/sdk/models (tasks.go, optional.go), the    *)
(* statements of internal/sdk/sqldb/tasks.go, the constraints of migration    *)
(* 000004, and the normalize, validate and canAccess helpers of               *)
(* internal/app/handlers_task.go.  No state lives here.                       *)
(*                                                                            *)
(* A string is a member of a small set: what matters of it is whether it is   *)
(* blank once trimmed, whether it names a user or a task, and whether two of  *)
(* them are equal.  due_at is handled like description in every statement     *)
(* (flag and value) and is left out; created_at and updated_at are not read   *)
(* by any decision.                                                           *)
CONSTANTS
    Users,          \* user ids, mirrored in the database or not
    Tasks,          \* the ids gen_random_uuid() may hand out
    Texts,          \* trimmed, non-blank titles and descriptions
    Unpadded,       \* a string with outer whitespace |-> the string without it
    Blank,          \* the empty string
    NotUUID,        \* a string uuid.Parse refuses
    NULL,           \* a nil pointer, a NULL column, no row
    Absent          \* a key that is missing from a JSON body

Strings == Users \cup Tasks \cup Texts \cup {Blank, NotUUID}

ASSUME StringsAssumption ==
    /\ NULL \notin Strings \cup DOMAIN Unpadded
    /\ Absent \notin Strings \cup DOMAIN Unpadded \cup {NULL}
    /\ DOMAIN Unpadded \cap Strings = {}
    /\ Blank \notin Users \cup Tasks \cup Texts
    /\ NotUUID \notin Tasks

\* The ways a client may spell the members of S.
Spelling(S) == S \cup {s \in DOMAIN Unpadded : Unpadded[s] \in S}

TrimSpace(s) == IF s \in DOMAIN Unpadded THEN Unpadded[s] ELSE s

------------------------------------------------------------------------------
(* Rows of todos.tasks.                                                       *)

TerminalStatus == {"done", "cancelled"}
Status == {"open"} \cup TerminalStatus

\* completed_at and cancelled_at: whether the column holds a time.
Row == [created_by: Users, assigned_to: Users, title: Texts,
        description: Texts \cup {Blank, NULL}, status: Status,
        delegated_from: Tasks \cup {NULL},
        completed_at: BOOLEAN, cancelled_at: BOOLEAN]

ASSUME RowAssumption == NULL \notin Row

IsTerminalTaskStatus(status) == status \in TerminalStatus

canAccessTask(row, user) == row.created_by = user \/ row.assigned_to = user

\* The CHECK constraints of the table, for the columns a write chooses.
MeetsChecks(row) ==
    /\ TrimSpace(row.title) # Blank
    /\ row.status \in Status
    /\ row.created_by # row.assigned_to

\* Its foreign keys, given the mirrored users and the ids of existing tasks.
MeetsReferences(row, mirrored, existing) ==
    /\ row.created_by \in mirrored
    /\ row.assigned_to \in mirrored
    /\ row.delegated_from \in existing \cup {NULL}

------------------------------------------------------------------------------
(* Bodies as they arrive, and what normalize and validate make of them.       *)

\* models.CreateTask: a missing string reads as "", a missing pointer as nil.
CreateBody == [assigned_to: Spelling(Users \cup {Blank}),
               title: Spelling(Texts \cup {Blank}),
               description: Spelling(Texts \cup {Blank}) \cup {NULL},
               delegated_from: Spelling(Tasks \cup {NotUUID, Blank}) \cup {NULL}]

\* The JSON of models.UpdateTask: any key may be absent, null or a value.
UpdateBody == [assigned_to: Spelling(Users \cup {Blank}) \cup {NULL, Absent},
               title: Spelling(Texts \cup {Blank}) \cup {NULL, Absent},
               description: Spelling(Texts \cup {Blank}) \cup {NULL, Absent},
               delegated_from:
                   Spelling(Tasks \cup {NotUUID, Blank}) \cup {NULL, Absent}]

\* A *string field: an absent key leaves it nil, as null does.
Pointer(json) == IF json = Absent THEN NULL ELSE json

\* An Optional field: UnmarshalJSON runs only when the key is present.
Optional(json) == [Set |-> json # Absent, Value |-> Pointer(json)]

normalizeCreateTaskInput(body) ==
    [assigned_to    |-> TrimSpace(body.assigned_to),
     title          |-> TrimSpace(body.title),
     description    |-> TrimSpace(body.description),
     delegated_from |-> TrimSpace(body.delegated_from)]

\* Variant: the title is taken as it comes.
normalizeWithoutTitle(body) ==
    [assigned_to    |-> TrimSpace(Pointer(body.assigned_to)),
     title          |-> Pointer(body.title),
     description    |-> Optional(TrimSpace(body.description)),
     delegated_from |-> Optional(TrimSpace(body.delegated_from))]

normalizeUpdateTaskInput(body) ==
    [assigned_to    |-> TrimSpace(Pointer(body.assigned_to)),
     title          |-> TrimSpace(Pointer(body.title)),
     description    |-> Optional(TrimSpace(body.description)),
     delegated_from |-> Optional(TrimSpace(body.delegated_from))]

\* TRUE where the code returns no details.
validateCreateTask(input, creator) ==
    /\ input.assigned_to \notin {Blank, creator}
    /\ input.title # Blank
    /\ input.delegated_from # Blank

validateUpdateTask(input, creator) ==
    /\ input.assigned_to \notin {Blank, creator}
    /\ input.title # Blank
    /\ input.delegated_from.Value # Blank

------------------------------------------------------------------------------
(* What the three writing statements make of a row.                           *)

Coalesce(value, column) == IF value = NULL THEN column ELSE value

CaseWhen(optional, column) ==
    IF optional.Set THEN optional.Value ELSE column

InsertedRow(creator, input) ==
    [created_by |-> creator, assigned_to |-> input.assigned_to,
     title |-> input.title, description |-> input.description,
     status |-> "open", delegated_from |-> input.delegated_from,
     completed_at |-> FALSE, cancelled_at |-> FALSE]

\* Variant: COALESCE for every column, so null leaves a nullable one alone.
UpdatedRowCoalesced(row, input) ==
    [row EXCEPT !.assigned_to = Coalesce(input.assigned_to, @),
                !.title = Coalesce(input.title, @),
                !.description = Coalesce(input.description.Value, @),
                !.delegated_from = Coalesce(input.delegated_from.Value, @)]

UpdatedRow(row, input) ==
    [row EXCEPT !.assigned_to = Coalesce(input.assigned_to, @),
                !.title = Coalesce(input.title, @),
                !.description = CaseWhen(input.description, @),
                !.delegated_from = CaseWhen(input.delegated_from, @)]

RowWithStatus(row, status) ==
    [row EXCEPT !.status = status,
                !.completed_at = status = "done",
                !.cancelled_at = status = "cancelled"]
==============================================================================
