---------------------------- MODULE TaskLifecycle ----------------------------
(* What the task endpoints promise, one change of one task at a time: the     *)
(* status table of README.md:19-28 with the actor each move is reserved for,  *)
(* edits of open tasks only, and delegation only from a task the author may   *)
(* access.  No requests, no statements, no failures: TaskService implements   *)
(* it where requests do not overlap.                                          *)
EXTENDS TaskStore

VARIABLES
    tasks,      \* the row of each task, or NULL
    author      \* the user who last changed it

Init ==
    /\ tasks = [t \in Tasks |-> NULL]
    /\ author = [t \in Tasks |-> NULL]

Change(t, user, row) ==
    /\ tasks' = [tasks EXCEPT ![t] = row]
    /\ author' = [author EXCEPT ![t] = user]

Accessible(user) ==
    {t \in Tasks : tasks[t] # NULL /\ canAccessTask(tasks[t], user)}

Create(t, user) ==
    /\ tasks[t] = NULL
    /\ \E assignee \in Users \ {user}, title \in Texts,
          description \in Texts \cup {Blank, NULL},
          parent \in Accessible(user) \cup {NULL} :
          Change(t, user, [created_by |-> user, assigned_to |-> assignee,
                           title |-> title, description |-> description,
                           status |-> "open", delegated_from |-> parent,
                           completed_at |-> FALSE, cancelled_at |-> FALSE])

Edit(t, user) ==
    /\ tasks[t] # NULL
    /\ tasks[t].status = "open"
    /\ tasks[t].created_by = user
    /\ \E assignee \in Users \ {user}, title \in Texts,
          description \in Texts \cup {Blank, NULL},
          parent \in Accessible(user) \cup {NULL, tasks[t].delegated_from} :
          Change(t, user, [tasks[t] EXCEPT !.assigned_to = assignee,
                                           !.title = title,
                                           !.description = description,
                                           !.delegated_from = parent])

\* One row of the table per target status.
Complete(t, user) ==
    /\ tasks[t] # NULL
    /\ tasks[t].status = "open"
    /\ tasks[t].assigned_to = user
    /\ Change(t, user, [tasks[t] EXCEPT !.status = "done",
                                        !.completed_at = TRUE])

Cancel(t, user) ==
    /\ tasks[t] # NULL
    /\ tasks[t].status = "open"
    /\ tasks[t].created_by = user
    /\ Change(t, user, [tasks[t] EXCEPT !.status = "cancelled",
                                        !.cancelled_at = TRUE])

\* Re-asserting open is reserved for the creator as well.
Reopen(t, user) ==
    /\ tasks[t] # NULL
    /\ tasks[t].created_by = user
    /\ Change(t, user, [tasks[t] EXCEPT !.status = "open",
                                        !.completed_at = FALSE,
                                        !.cancelled_at = FALSE])

Next ==
    \E t \in Tasks, user \in Users :
        \/ Create(t, user)
        \/ Edit(t, user)
        \/ Complete(t, user)
        \/ Cancel(t, user)
        \/ Reopen(t, user)

Spec == Init /\ [][Next]_<<tasks, author>>
==============================================================================
