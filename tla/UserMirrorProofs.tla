--------------------------- MODULE UserMirrorProofs ---------------------------
(* What UserMirror keeps for any users, accounts and number of concurrent     *)
(* requests, whatever the auth service answers.                               *)
EXTENDS UserMirror, TLAPS

\* The empty mirror and idle slots satisfy the invariant.
LEMMA InitInductive == Init => TypeOK /\ Inductive
<1> SUFFICES ASSUME Init PROVE TypeOK /\ Inductive
  OBVIOUS
<1>1. /\ users = [u \in Users |-> NULL]
      /\ profile \in [Users -> Accounts]
      /\ given = [u \in Users |-> {profile[u]}]
  BY DEF Init
<1>2. \A r \in Requests :
         req[r] \in Request /\ req[r].pc = "idle" /\ req[r].reply = 0
  BY DEF Init, Answered, Request
<1>3. req \in [Requests -> Request]  BY <1>2 DEF Init
<1>4. TypeOK  BY <1>1, <1>3 DEF TypeOK
<1>5. MirrorIsHonest /\ OneRowPerAccount
  BY <1>1, <1>2 DEF MirrorIsHonest, OneRowPerAccount
<1>6. \A u \in Users : profile[u] \in given[u]  BY <1>1
<1> QED  BY <1>2, <1>4, <1>5, <1>6 DEF Inductive

\* A request in one slot is replaced and the tables stay: enough for every
\* step but CreateUser and Rename.
SoundStep(r, q) ==
    /\ req' = [req EXCEPT ![r] = q]
    /\ UNCHANGED <<users, profile, given>>
    /\ q \in Request
    /\ q.pc # "idle" => q.user \in Users
    /\ q.pc = "insert" => q.account \in Accounts \cap given[q.user]
    /\ (q.pc = "idle" /\ q.reply = 200) =>
           /\ q.user \in Users /\ q.account \in Accounts
           /\ users[q.user] = q.account

\* Such a step keeps the invariant.
LEMMA SoundStepInductive ==
    ASSUME TypeOK, Inductive, NEW r \in Requests, NEW q, SoundStep(r, q)
    PROVE  TypeOK' /\ Inductive'
<1>1. TypeOK'  BY DEF SoundStep, TypeOK
<1>2. MirrorIsHonest'  BY DEF SoundStep, TypeOK, Inductive, MirrorIsHonest
<1>3. OneRowPerAccount'  BY DEF SoundStep, Inductive, OneRowPerAccount
<1> QED  BY <1>1, <1>2, <1>3 DEF SoundStep, TypeOK, Inductive

\* Failing a request in flight is such a step.
LEMMA FailStep ==
    ASSUME TypeOK, Inductive, NEW r \in Requests, NEW code \in {401, 500},
           req[r].pc # "idle", Fail(r, code), UNCHANGED <<users, profile, given>>
    PROVE  TypeOK' /\ Inductive'
<1>1. SoundStep(r, Answered("me", req[r].user, NULL, code))
  BY DEF Fail, SoundStep, Answered, Request, TypeOK, Inductive
<1> QED  BY <1>1, SoundStepInductive

\* An insert that no constraint refuses keeps the invariant, whether its
\* answer arrives or not: nobody had the row or the account.
LEMMA InsertStep ==
    ASSUME TypeOK, Inductive, NEW r \in Requests, req[r].pc = "insert",
           ~Taken(req[r].user, req[r].account),
           users' = [users EXCEPT ![req[r].user] = req[r].account],
           UNCHANGED <<profile, given>>,
           \/ req' = [req EXCEPT ![r] =
                         Answered("me", req[r].user, req[r].account, 200)]
           \/ Fail(r, 500)
    PROVE  TypeOK' /\ Inductive'
<1>1. PICK q \in Request :
          /\ req' = [req EXCEPT ![r] = q]
          /\ q.pc = "idle" /\ q.user = req[r].user
          /\ q.reply = 200 => q.account = req[r].account
  <2>1. CASE Fail(r, 500)
    <3> DEFINE q == Answered("me", req[r].user, NULL, 500)
    <3>1. q \in Request /\ q.pc = "idle" /\ q.user = req[r].user /\ q.reply = 500
      BY DEF Answered, Request, TypeOK
    <3>2. req' = [req EXCEPT ![r] = q]  BY <2>1 DEF Fail
    <3> HIDE DEF q
    <3>3. q.reply = 200 => q.account = req[r].account  BY <3>1
    <3> QED  BY <3>1, <3>2, <3>3
  <2>2. CASE req' = [req EXCEPT ![r] =
                        Answered("me", req[r].user, req[r].account, 200)]
    <3> DEFINE q == Answered("me", req[r].user, req[r].account, 200)
    <3>1. /\ q \in Request /\ q.pc = "idle" /\ q.user = req[r].user
          /\ q.account = req[r].account
      BY DEF Answered, Request, TypeOK
    <3>2. req' = [req EXCEPT ![r] = q]  BY <2>2
    <3> HIDE DEF q
    <3>3. q.reply = 200 => q.account = req[r].account  BY <3>1
    <3> QED  BY <3>1, <3>2, <3>3
  <2> QED  BY <2>1, <2>2
<1>2. PICK u \in Users, account \in Accounts :
          /\ u = req[r].user /\ account = req[r].account
          /\ account \in given[u]
  BY DEF Inductive
<1>3. users[u] = NULL /\ \A v \in Users : users[v] # account
  BY <1>2 DEF Taken
<1>4. users' = [users EXCEPT ![u] = account]  BY <1>2
<1>5. TypeOK'  BY <1>1, <1>4 DEF TypeOK
<1>6. OneRowPerAccount'
  BY <1>3, <1>4 DEF OneRowPerAccount, Inductive, TypeOK
<1>7. \A v \in Users : users'[v] # NULL => users'[v] \in given'[v]
  BY <1>2, <1>4 DEF Inductive, MirrorIsHonest, TypeOK
<1>8. ASSUME NEW o \in Requests, req'[o].pc = "idle", req'[o].reply = 200
      PROVE  /\ req'[o].user \in Users /\ req'[o].account \in Accounts
             /\ users'[req'[o].user] = req'[o].account
  <2>1. CASE o = r
    BY <1>1, <1>2, <1>4, <1>8, <2>1 DEF TypeOK
  <2>2. CASE o # r
    <3>1. req'[o] = req[o]  BY <1>1, <2>2 DEF TypeOK
    <3>2. /\ req[o].user \in Users /\ req[o].account \in Accounts
          /\ users[req[o].user] = req[o].account
      BY <1>8, <3>1 DEF Inductive, MirrorIsHonest
    <3>3. req[o].user # u  BY <1>3, <3>2, MirrorAssumption
    <3> QED  BY <1>4, <3>1, <3>2, <3>3 DEF TypeOK
  <2> QED  BY <2>1, <2>2
<1>9. MirrorIsHonest'  BY <1>7, <1>8 DEF MirrorIsHonest
<1>10. \A o \in Requests :
          /\ req'[o].pc # "idle" => req'[o].user \in Users
          /\ req'[o].pc = "insert" =>
                 req'[o].account \in Accounts \cap given'[req'[o].user]
  <2> SUFFICES ASSUME NEW o \in Requests
               PROVE  /\ req'[o].pc # "idle" => req'[o].user \in Users
                      /\ req'[o].pc = "insert" =>
                             req'[o].account \in Accounts \cap given'[req'[o].user]
    OBVIOUS
  <2>1. CASE o = r  BY <1>1, <2>1 DEF TypeOK
  <2>2. CASE o # r  BY <1>1, <2>2 DEF TypeOK, Inductive
  <2> QED  BY <2>1, <2>2
<1> QED  BY <1>5, <1>6, <1>8, <1>9, <1>10 DEF Inductive

\* Every step of a slot keeps the invariant.
LEMMA ServeStep ==
    ASSUME TypeOK, Inductive, NEW r \in Requests, Serve(r)
    PROVE  TypeOK' /\ Inductive'
<1>1. ASSUME NEW u \in Users, HandleMe(r, u) PROVE TypeOK' /\ Inductive'
  <2>1. SoundStep(r, [pc |-> "select", op |-> "me", user |-> u,
                      account |-> NULL, reply |-> 0])
    BY <1>1 DEF HandleMe, SoundStep, Request
  <2> QED  BY <2>1, SoundStepInductive
<1>2. CASE GetUserByID(r)
  <2>1. CASE users[req[r].user] # NULL
    <3>1. SoundStep(r, Answered("me", req[r].user, users[req[r].user], 200))
      BY <1>2, <2>1
         DEF GetUserByID, SoundStep, Answered, Request, TypeOK, Inductive
    <3> QED  BY <3>1, SoundStepInductive
  <2>2. CASE users[req[r].user] = NULL
    <3>1. SoundStep(r, [req[r] EXCEPT !.pc = "fetch"])
      BY <1>2, <2>2 DEF GetUserByID, SoundStep, Request, TypeOK, Inductive
    <3> QED  BY <3>1, SoundStepInductive
  <2> QED  BY <2>1, <2>2
<1>3. CASE AuthAnswers(r)
  <2> DEFINE q == [req[r] EXCEPT !.pc = "insert",
                                 !.account = profile[req[r].user]]
  <2>1. /\ req' = [req EXCEPT ![r] = q]
        /\ UNCHANGED <<users, profile, given>>
    BY <1>3 DEF AuthAnswers, TypeOK
  <2>2. req[r] \in Request /\ req[r].user \in Users
    BY <1>3 DEF AuthAnswers, TypeOK, Inductive
  <2>3. profile[req[r].user] \in Accounts \cap given[req[r].user]
    BY <2>2 DEF TypeOK, Inductive
  <2>4. /\ q \in Request /\ q.pc = "insert" /\ q.user = req[r].user
        /\ q.account = profile[req[r].user]
    BY <2>2, <2>3, ZenonT(60) DEF Request
  <2> HIDE DEF q
  <2> QED  BY <2>1, <2>2, <2>3, <2>4, SoundStepInductive DEF SoundStep
<1>4. CASE AuthFails(r)
  BY <1>4, FailStep DEF AuthFails
<1>5. CASE CreateUser(r)
  <2>1. CASE Taken(req[r].user, req[r].account)
    BY <1>5, <2>1, FailStep DEF CreateUser
  <2>2. CASE ~Taken(req[r].user, req[r].account)
    BY <1>5, <2>2, InsertStep DEF CreateUser
  <2> QED  BY <2>1, <2>2
<1>6. CASE DBError(r)
  BY <1>6, FailStep DEF DBError
<1>7. ASSUME NEW account \in Accounts, HandleAccountLookup(r, account)
      PROVE  TypeOK' /\ Inductive'
  <2>1. PICK q : SoundStep(r, q)
    BY <1>7 DEF HandleAccountLookup, SoundStep, Answered, Request, TypeOK
  <2> QED  BY <2>1, SoundStepInductive
<1> QED  BY <1>1, <1>2, <1>3, <1>4, <1>5, <1>6, <1>7 DEF Serve

\* Every step keeps the invariant.
LEMMA NextInductive ==
    TypeOK /\ Inductive /\ [Next]_vars => TypeOK' /\ Inductive'
<1> SUFFICES ASSUME TypeOK, Inductive, [Next]_vars
             PROVE  TypeOK' /\ Inductive'
  OBVIOUS
<1>1. ASSUME NEW r \in Requests, Serve(r) PROVE TypeOK' /\ Inductive'
  BY <1>1, ServeStep
<1>2. CASE Crash
  <2>1. \A r \in Requests :
           \/ req'[r] = req[r]
           \/ /\ req'[r] \in Request
              /\ req'[r].pc = "idle" /\ req'[r].reply = 0
    BY <1>2 DEF Crash, Answered, Request, TypeOK
  <2>2. TypeOK'  BY <1>2, <2>1 DEF Crash, TypeOK
  <2> QED
    BY <1>2, <2>1, <2>2 DEF Crash, Inductive, MirrorIsHonest, OneRowPerAccount
<1>3. ASSUME NEW u \in Users, NEW account \in Accounts, Rename(u, account)
      PROVE  TypeOK' /\ Inductive'
  <2>1. TypeOK'  BY <1>3 DEF Rename, TypeOK
  <2>2. \A v \in Users : given[v] \subseteq given'[v] /\ profile'[v] \in given'[v]
    BY <1>3 DEF Rename, TypeOK, Inductive
  <2> QED
    BY <1>3, <2>1, <2>2 DEF Rename, Inductive, MirrorIsHonest, OneRowPerAccount
<1>4. CASE UNCHANGED vars
  BY <1>4 DEF vars, TypeOK, Inductive, MirrorIsHonest, OneRowPerAccount
<1> QED  BY <1>1, <1>2, <1>3, <1>4 DEF Next

\* The inductive invariant holds in every reachable state.
THEOREM MirrorInvariance == Spec => [](TypeOK /\ Inductive)
BY InitInductive, NextInductive, PTL DEF Spec

\* Every variable holds what its declaration says, whatever account the auth
\* service answers with.
THEOREM MirrorTyping == Spec => []TypeOK
BY MirrorInvariance, PTL

\* Rows and answers are the user's own, for any overlap of first requests.
THEOREM Honesty == Spec => []MirrorIsHonest
<1>1. Inductive => MirrorIsHonest  BY DEF Inductive
<1> QED  BY <1>1, MirrorInvariance, PTL

\* No two rows share an account, whatever renames the auth service allows.
THEOREM Uniqueness == Spec => []OneRowPerAccount
<1>1. Inductive => OneRowPerAccount  BY DEF Inductive
<1> QED  BY <1>1, MirrorInvariance, PTL

\* No row changes or goes away and no step adds two: TaskService may take the
\* mirror for a set of users that grows by one.
THEOREM Growth == Spec => MirrorOnlyGrows
<1> DEFINE Grows ==
        /\ \A u \in Users : users[u] # NULL => users'[u] = users[u]
        /\ \A u, v \in Users :
               (users'[u] # users[u] /\ users'[v] # users[v]) => u = v
<1>1. TypeOK /\ Inductive /\ [Next]_vars => [Grows]_users
  <2> SUFFICES ASSUME TypeOK, Inductive, Next, users' # users
               PROVE  Grows
    BY DEF vars
  <2>1. PICK r \in Requests : CreateUser(r)
    BY DEF Next, Serve, HandleMe, GetUserByID, AuthAnswers, AuthFails, DBError,
           HandleAccountLookup, Crash, Rename
  <2>2. /\ users[req[r].user] = NULL
        /\ users' = [users EXCEPT ![req[r].user] = req[r].account]
    BY <2>1 DEF CreateUser, Taken
  <2> QED  BY <2>2 DEF TypeOK
<1>2. Spec => [][Grows]_users
  BY <1>1, MirrorInvariance, PTL DEF Spec
<1> QED  BY <1>2 DEF MirrorOnlyGrows
==============================================================================
