------------------------------ MODULE UserMirror ------------------------------
(* The mirror of the auth service's users: HandleMe and HandleAccountLookup   *)
(* (internal/app/handlers_user.go) over todos.users (internal/sdk/sqldb,      *)
(* migrations 000001 and 000012).                                             *)
(*                                                                            *)
(* HandleMe selects, asks the auth service and inserts, with no transaction   *)
(* around the three: an action each.  A profile is its account: the email is  *)
(* unique in the same way, the name decides nothing.  The auth service is     *)
(* modelled from its use: its accounts are unique at any one time, and a user *)
(* may give one up for another.                                               *)
CONSTANTS
    Users,          \* user ids, the subjects of tokens
    Accounts,       \* account names
    Requests,       \* slots: the requests served at the same time
    MayRename,      \* whether the auth service lets users change accounts
    NULL            \* no row, no value

ASSUME MirrorAssumption ==
    /\ NULL \notin Users \cup Accounts
    /\ MayRename \in BOOLEAN

VARIABLES
    users,      \* todos.users: the account in the row of each id, or NULL
    profile,    \* the auth service: the account of each user
    given,      \* history: every account a user ever had there
    req         \* the locals of the request in each slot

vars == <<users, profile, given, req>>

Request == [pc: {"idle", "select", "fetch", "insert"},
            op: {"none", "me", "lookup"},
            user: Users \cup {NULL},        \* the subject, or the user found
            account: Accounts \cup {NULL},  \* of authUser, or of the answer
            reply: {0, 200, 401, 404, 500}]

Answered(op, user, account, code) ==
    [pc |-> "idle", op |-> op, user |-> user, account |-> account,
     reply |-> code]

Init ==
    /\ users = [u \in Users |-> NULL]
    /\ profile \in {f \in [Users -> Accounts] :
                       \A u, v \in Users : f[u] = f[v] => u = v}
    /\ given = [u \in Users |-> {profile[u]}]
    /\ req = [r \in Requests |-> Answered("none", NULL, NULL, 0)]

------------------------------------------------------------------------------
(* HandleMe.                                                                  *)

Fail(r, code) ==
    req' = [req EXCEPT ![r] = Answered("me", @.user, NULL, code)]

HandleMe(r, u) ==
    /\ req[r].pc = "idle"
    /\ req' = [req EXCEPT ![r] = [pc |-> "select", op |-> "me", user |-> u,
                                  account |-> NULL, reply |-> 0]]
    /\ UNCHANGED <<users, profile, given>>

\* GetUserByID: the row is the answer; only a missing one goes on.
GetUserByID(r) ==
    LET u == req[r].user
    IN /\ req[r].pc = "select"
       /\ req' = [req EXCEPT ![r] =
                     IF users[u] # NULL THEN Answered("me", u, users[u], 200)
                     ELSE [@ EXCEPT !.pc = "fetch"]]
       /\ UNCHANGED <<users, profile, given>>

\* Variant: the profile is one level deeper in the body, which decodes to
\* empty strings without an error.
AuthAnswersWrapped(r) ==
    /\ req[r].pc = "fetch"
    /\ req' = [req EXCEPT ![r].pc = "insert", ![r].account = ""]
    /\ UNCHANGED <<users, profile, given>>

\* The auth service answers 200 with the profile of the token's subject.
AuthAnswers(r) ==
    /\ req[r].pc = "fetch"
    /\ req' = [req EXCEPT ![r].pc = "insert",
                          ![r].account = profile[req[r].user]]
    /\ UNCHANGED <<users, profile, given>>

\* It answers another status (401), not at all within ten seconds, or with a
\* body that does not decode (500).
AuthFails(r) ==
    /\ req[r].pc = "fetch"
    /\ \E code \in {401, 500} : Fail(r, code)
    /\ UNCHANGED <<users, profile, given>>

\* Variant: the schema before migration 000012, for this column.
TakenById(u, account) == users[u] # NULL

\* The unique constraints an insert of this row would violate.
Taken(u, account) == users[u] # NULL \/ \E v \in Users : users[v] = account

\* Variant: a duplicate entry is answered with the profile just fetched.
CreateUserOrShow(r) ==
    LET u == req[r].user account == req[r].account
    IN /\ req[r].pc = "insert"
       /\ users' = IF Taken(u, account) THEN users
                   ELSE [users EXCEPT ![u] = account]
       /\ req' = [req EXCEPT ![r] = Answered("me", u, account, 200)]
       /\ UNCHANGED <<profile, given>>

\* Variant: ON CONFLICT (id) DO UPDATE.
CreateUserUpserts(r) ==
    LET u == req[r].user account == req[r].account
    IN /\ req[r].pc = "insert"
       /\ \/ /\ \A v \in Users \ {u} : users[v] # account
             /\ users' = [users EXCEPT ![u] = account]
             /\ req' = [req EXCEPT ![r] = Answered("me", u, account, 200)]
          \/ /\ \E v \in Users \ {u} : users[v] = account
             /\ Fail(r, 500)
             /\ UNCHANGED users
       /\ UNCHANGED <<profile, given>>

\* CreateUser: every error of it is a 500, a duplicate entry too.  The row may
\* be stored and its answer lost.
CreateUser(r) ==
    LET u == req[r].user account == req[r].account
    IN /\ req[r].pc = "insert"
       /\ \/ /\ ~Taken(u, account)
             /\ users' = [users EXCEPT ![u] = account]
             /\ \/ req' = [req EXCEPT ![r] = Answered("me", u, account, 200)]
                \/ Fail(r, 500)
          \/ /\ Taken(u, account)
             /\ Fail(r, 500)
             /\ UNCHANGED users
       /\ UNCHANGED <<profile, given>>

\* A statement fails.
DBError(r) ==
    /\ req[r].pc \in {"select", "insert"}
    /\ Fail(r, 500)
    /\ UNCHANGED <<users, profile, given>>

\* The process stops: no request in flight is answered.
Crash ==
    /\ \E r \in Requests : req[r].pc # "idle"
    /\ req' = [r \in Requests |->
                  IF req[r].pc = "idle" THEN req[r]
                  ELSE Answered("me", req[r].user, NULL, 0)]
    /\ UNCHANGED <<users, profile, given>>

------------------------------------------------------------------------------
(* HandleAccountLookup, one statement; and the auth service.                  *)

HandleAccountLookup(r, account) ==
    /\ req[r].pc = "idle"
    /\ \/ \E u \in Users :
             /\ users[u] = account
             /\ req' = [req EXCEPT ![r] = Answered("lookup", u, account, 200)]
       \/ /\ \A u \in Users : users[u] # account
          /\ req' = [req EXCEPT ![r] = Answered("lookup", NULL, NULL, 404)]
       \/ req' = [req EXCEPT ![r] = Answered("lookup", NULL, NULL, 500)]
    /\ UNCHANGED <<users, profile, given>>

\* A user changes to an account nobody has.
Rename(u, account) ==
    /\ MayRename
    /\ \A v \in Users : profile[v] # account
    /\ profile' = [profile EXCEPT ![u] = account]
    /\ given' = [given EXCEPT ![u] = @ \cup {account}]
    /\ UNCHANGED <<users, req>>

Serve(r) ==
    \/ \E u \in Users : HandleMe(r, u)
    \/ GetUserByID(r)
    \/ AuthAnswers(r)
    \/ AuthFails(r)
    \/ CreateUser(r)
    \/ DBError(r)
    \/ \E account \in Accounts : HandleAccountLookup(r, account)

Next ==
    \/ \E r \in Requests : Serve(r)
    \/ Crash
    \/ \E u \in Users, account \in Accounts : Rename(u, account)

Spec == Init /\ [][Next]_vars

------------------------------------------------------------------------------
(* Properties.                                                                *)

\* Every variable holds what its declaration says.
TypeOK ==
    /\ users \in [Users -> Accounts \cup {NULL}]
    /\ profile \in [Users -> Accounts]
    /\ given \in [Users -> SUBSET Accounts]
    /\ req \in [Requests -> Request]

\* A row is a profile the auth service gave for that very user at some time,
\* and an answered profile is the caller's (or the found user's) row, which it
\* still is whenever the answer arrives: whatever first requests overlap, and
\* however old the profile one of them fetched.
MirrorIsHonest ==
    /\ \A u \in Users : users[u] # NULL => users[u] \in given[u]
    /\ \A r \in Requests :
           (req[r].pc = "idle" /\ req[r].reply = 200) =>
               users[req[r].user] = req[r].account

\* GetUserByAccount assumes that an account has one row (migration 000012,
\* lines 1-4): it does although accounts change hands at the auth service.
OneRowPerAccount ==
    \A u, v \in Users : (users[u] = users[v] /\ users[u] # NULL) => u = v

\* The mirror only grows, one user at a time: what TaskService assumes of it
\* in MirrorUser.
MirrorOnlyGrows ==
    [][/\ \A u \in Users : users[u] # NULL => users'[u] = users[u]
       /\ \A u, v \in Users :
              (users'[u] # users[u] /\ users'[v] # users[v]) => u = v]_users

\* README.md:8-10: users are mirrored on their first request.  So nothing but
\* its own row keeps a user the auth service vouches for from being mirrored.
OnlyOwnRowBlocksMirroring ==
    \A r \in Requests :
        (req[r].pc = "insert" /\ Taken(req[r].user, req[r].account)) =>
            users[req[r].user] # NULL

\* The inductive invariant behind them: what a slot knows of its user, and a
\* fetched account was the user's at some time.
Inductive ==
    /\ MirrorIsHonest
    /\ OneRowPerAccount
    /\ \A u \in Users : profile[u] \in given[u]
    /\ \A r \in Requests :
          /\ req[r].pc # "idle" => req[r].user \in Users
          /\ req[r].pc = "insert" =>
                 req[r].account \in Accounts \cap given[req[r].user]
          /\ (req[r].pc = "idle" /\ req[r].reply = 200) =>
                 req[r].user \in Users /\ req[r].account \in Accounts
==============================================================================
