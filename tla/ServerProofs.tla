----------------------------- MODULE ServerProofs -----------------------------
(* The safety properties of Server for any number of requests, connections and *)
(* statements.  What makes them hold is the order of run(): requests come in  *)
(* only while it waits for ctx, and it gets from there to the deferred calls  *)
(* with nobody served, or with an error.                                      *)
EXTENDS Server, FiniteSetTheorems, TLAPS

\* Outside the wait for ctx the listener takes no request.
ListensOnlyWaiting == main # "wait" => listener \notin {"starting", "open"}

\* Nobody is served before the wait and after the drain, if it did not fail.
DrainedAfterwards == (main \notin {"wait", "drain"} /\ ~failure) => InFlight = {}

FailsLate == failure => main \in {"flush", "exit", "exited"}
ClosesLast == pool = "closed" => main \in {"exit", "exited"}
ExitsOnce == exit # Running => main = "exited"
NotCutBefore == main # "exited" => \A r \in Requests : req[r].state # "cut"
HijackedAreSockets ==
    \A r \in Requests :
        req[r].state = "hijacked" => req[r].kind = "socket" /\ req[r].left = 0

\* Who waits for a connection or has one has a statement to run.
AsksForStatements ==
    \A r \in Requests : req[r].state \in {"waiting", "querying"} => req[r].left > 0

\* The inductive invariant.
Inv ==
    /\ TypeOK /\ AsksForStatements
    /\ ListensOnlyWaiting /\ DrainedAfterwards
    /\ FailsLate /\ ClosesLast /\ ExitsOnce
    /\ NotCutBefore /\ HijackedAreSockets
    /\ CleanExitAnswersAll

States == {"none", "running", "waiting", "querying", "failed", "hijacked",
           "answered", "ended", "cut"}
Served == {"running", "waiting", "querying", "failed"}

\* What a step of a handler does: its request goes from served or hijacked to
\* another state, and to a statement only if a connection is free.
Steps(r, q) ==
    /\ req' = [req EXCEPT ![r] = q]
    /\ q \in Request
    /\ req[r].state \in Served \cup {"hijacked"}
    /\ q.state \in Served \cup {"hijacked", "answered", "ended"}
    /\ req[r].state = "hijacked" => q.state = "ended"
    /\ q.state = "hijacked" => q.kind = "socket" /\ q.left = 0
    /\ q.state \in {"waiting", "querying"} => q.left > 0
    /\ q.state = "querying" => Cardinality(busy) < MaxOpenConns
    /\ UNCHANGED <<main, ctxVars, listener, debug, pool, reachable>>

\* Move is such a step.
LEMMA MoveSteps ==
    ASSUME TypeOK, NEW r \in Requests, NEW from, NEW to,
           Move(r, from, to), from \subseteq Served \cup {"hijacked"},
           to \in Served \cup {"hijacked", "answered", "ended"},
           "hijacked" \in from => to = "ended",
           to = "hijacked" => req[r].kind = "socket" /\ req[r].left = 0,
           to \in {"waiting", "querying"} => req[r].left > 0,
           to = "querying" => Cardinality(busy) < MaxOpenConns
    PROVE  \E q : Steps(r, q)
<1> DEFINE q == [req[r] EXCEPT !.state = to]
<1>1. req[r] \in Request /\ req \in [Requests -> Request]
  BY DEF TypeOK
<1>2. q \in Request /\ q.state = to /\ q.kind = req[r].kind /\ q.left = req[r].left
  BY <1>1 DEF Request, Served
<1>3. req' = [req EXCEPT ![r] = q]
  BY DEF Move
<1>4. req[r].state \in from
  BY DEF Move
<1>5. UNCHANGED <<main, ctxVars, listener, debug, pool, reachable>>
  BY DEF Move
<1>6. (req[r].state = "hijacked" => q.state = "ended")
  BY <1>2, <1>4
<1> QED
  BY <1>2, <1>3, <1>4, <1>5, <1>6 DEF Steps

\* Every action of a handler is one.
LEMMA HandleSteps ==
    ASSUME TypeOK, AsksForStatements, NEW r \in Requests, Handle(r)
    PROVE  \E q : Steps(r, q)
<1>1. CASE Query(r)
  BY <1>1, MoveSteps DEF Query, Served
<1>2. CASE Acquire(r)
  <2>1. req[r].left > 0
    BY <1>2 DEF Acquire, Move, AsksForStatements
  <2> QED
    BY <1>2, <2>1, MoveSteps DEF Acquire, Served
<1>3. CASE WaitFails(r)
  BY <1>3, MoveSteps DEF WaitFails, Served
<1>4. CASE QueryEnds(r)
  <2> DEFINE q == [req[r] EXCEPT !.state = "running", !.left = @ - 1]
  <2>1. /\ req[r] \in Request
        /\ req[r].state = "querying"
        /\ req[r].left \in 0..MaxStatements /\ req[r].left > 0
        /\ MaxStatements \in Nat
    BY <1>4, ServerAssumption DEF TypeOK, QueryEnds, AsksForStatements, Request
  <2>2. req[r].left - 1 \in 0..MaxStatements
    BY <2>1
  <2>3. q \in Request /\ q.state = "running"
    BY <2>1, <2>2 DEF Request
  <2>4. /\ req' = [req EXCEPT ![r] = q]
        /\ UNCHANGED <<main, ctxVars, listener, debug, pool, reachable>>
    BY <1>4 DEF QueryEnds
  <2> HIDE DEF q
  <2> QED
    BY <2>1, <2>3, <2>4 DEF Steps, Served
<1>5. CASE QueryFails(r)
  BY <1>5, MoveSteps DEF QueryFails, Served
<1>6. CASE ClientLeaves(r)
  BY <1>6, MoveSteps DEF ClientLeaves, Served
<1>7. CASE PingTimesOut(r)
  BY <1>7, MoveSteps DEF PingTimesOut, Served
<1>8. CASE Answer(r)
  <2>1. CASE Move(r, {"running"}, "answered")
    BY <2>1, MoveSteps DEF Served
  <2>2. CASE Move(r, {"failed"}, "answered")
    BY <2>2, MoveSteps DEF Served
  <2> QED
    BY <1>8, <2>1, <2>2 DEF Answer
<1>9. CASE Hijack(r)
  BY <1>9, MoveSteps DEF Hijack, Served
<1>10. CASE SocketEnds(r)
  BY <1>10, MoveSteps DEF SocketEnds, Served
<1> QED
  BY <1>1, <1>2, <1>3, <1>4, <1>5, <1>6, <1>7, <1>8, <1>9, <1>10 DEF Handle

\* One more statement runs only if a connection was free.
LEMMA PoolIsBounded ==
    ASSUME TypeOK, NEW r \in Requests, NEW q, Steps(r, q)
    PROVE  Cardinality(busy)' <= MaxOpenConns
<1>1. /\ IsFiniteSet(Requests) /\ MaxOpenConns \in Nat
      /\ Cardinality(busy) <= MaxOpenConns /\ req \in [Requests -> Request]
  BY ServerAssumption DEF TypeOK
<1>2. IsFiniteSet(busy) /\ Cardinality(busy) \in Nat
  BY <1>1, FS_Subset, FS_CardinalityType DEF busy
<1>3. CASE q.state = "querying"
  <2>1. busy' \subseteq busy \cup {r}
    BY <1>1 DEF Steps, busy
  <2>2. Cardinality(busy) < MaxOpenConns
    BY <1>3 DEF Steps
  <2>3. /\ IsFiniteSet(busy \cup {r})
        /\ \/ Cardinality(busy \cup {r}) = Cardinality(busy)
           \/ Cardinality(busy \cup {r}) = Cardinality(busy) + 1
    BY <1>2, FS_AddElement
  <2>4. /\ Cardinality(busy') <= Cardinality(busy \cup {r})
        /\ Cardinality(busy') \in Nat
    BY <2>1, <2>3, FS_Subset, FS_CardinalityType
  <2> QED
    BY <1>1, <1>2, <2>2, <2>3, <2>4
<1>4. CASE q.state # "querying"
  <2>1. busy' \subseteq busy
    BY <1>1, <1>4 DEF Steps, busy
  <2>2. Cardinality(busy') <= Cardinality(busy) /\ Cardinality(busy') \in Nat
    BY <1>2, <2>1, FS_Subset, FS_CardinalityType
  <2> QED
    BY <1>1, <1>2, <2>2
<1> QED
  BY <1>3, <1>4

\* A step of a handler preserves the invariant.
LEMMA StepsPreserve ==
    ASSUME Inv, NEW r \in Requests, NEW q, Steps(r, q)
    PROVE  Inv'
<1>1. /\ req \in [Requests -> Request] /\ req' \in [Requests -> Request]
      /\ req'[r] = q
      /\ \A s \in Requests : s # r => req'[s] = req[s]
  BY DEF Inv, TypeOK, Steps
<1>2. UNCHANGED <<main, stopping, late, failure, exit, listener, debug, pool, reachable>>
  BY DEF Steps, ctxVars
<1>3. TypeOK'
  BY <1>1, <1>2, PoolIsBounded DEF Inv, TypeOK
<1>4. InFlight = {} => InFlight' = {}
  BY <1>1 DEF Steps, InFlight, Served
<1>5. DrainedAfterwards'
  BY <1>2, <1>4 DEF Inv, DrainedAfterwards
<1>6. AsksForStatements' /\ HijackedAreSockets'
  BY <1>1 DEF Inv, Steps, AsksForStatements, HijackedAreSockets, Served
<1>7. NotCutBefore'
  BY <1>1, <1>2 DEF Inv, Steps, NotCutBefore, Served
<1>8. CleanExitAnswersAll'
  <2>1. exit # 0
    BY DEF Inv, CleanExitAnswersAll, Steps, Served
  <2> QED
    BY <1>2, <2>1 DEF CleanExitAnswersAll
<1> QED
  BY <1>2, <1>3, <1>5, <1>6, <1>7, <1>8
  DEF Inv, ListensOnlyWaiting, FailsLate, ClosesLast, ExitsOnce

\* A request is accepted only while run() waits for ctx.
LEMMA AcceptPreserves ==
    ASSUME Inv, NEW r \in Requests, NEW kind \in Kind, Accept(r, kind)
    PROVE  Inv'
<1>1. /\ req \in [Requests -> Request] /\ MaxStatements \in Nat \ {0}
      /\ listener = "open"
      /\ UNCHANGED <<main, stopping, late, failure, exit, listener, debug, pool, reachable>>
  BY ServerAssumption DEF Inv, TypeOK, Accept, ctxVars
<1>2. main = "wait" /\ exit # 0
  BY <1>1 DEF Inv, ListensOnlyWaiting, ExitsOnce, Running
<1>3. PICK n \in 0..MaxStatements :
          req' = [req EXCEPT ![r] = [kind |-> kind, left |-> n, state |-> "running"]]
  <2> DEFINE Starts(n) ==
          req' = [req EXCEPT ![r] = [kind |-> kind, left |-> n, state |-> "running"]]
  <2>1. \E n \in IF kind = "task" THEN 0..MaxStatements ELSE {1} : Starts(n)
    BY DEF Accept
  <2>2. 1 \in 0..MaxStatements
    BY <1>1
  <2> HIDE DEF Starts
  <2>3. \E n \in 0..MaxStatements : Starts(n)
    BY <2>1, <2>2
  <2> QED
    BY <2>3 DEF Starts
<1>4. [kind |-> kind, left |-> n, state |-> "running"] \in Request
  BY <1>3 DEF Request
<1>5. /\ req' \in [Requests -> Request]
      /\ req'[r].state = "running"
      /\ \A s \in Requests : s # r => req'[s] = req[s]
  BY <1>1, <1>3, <1>4
<1>6. busy' \subseteq busy
  BY <1>5 DEF busy
<1>7. Cardinality(busy') <= MaxOpenConns
  <2>1. IsFiniteSet(busy)
    BY ServerAssumption, FS_Subset DEF busy
  <2>2. /\ Cardinality(busy') <= Cardinality(busy)
        /\ Cardinality(busy') \in Nat /\ Cardinality(busy) \in Nat
    BY <1>6, <2>1, FS_Subset, FS_CardinalityType
  <2> QED
    BY <2>2, ServerAssumption DEF Inv, TypeOK
<1>8. TypeOK'
  BY <1>1, <1>5, <1>7 DEF Inv, TypeOK
<1>9. NotCutBefore' /\ HijackedAreSockets' /\ AsksForStatements'
  BY <1>2, <1>5 DEF Inv, NotCutBefore, HijackedAreSockets, AsksForStatements
<1> QED
  BY <1>1, <1>2, <1>8, <1>9
  DEF Inv, ListensOnlyWaiting, DrainedAfterwards, FailsLate, ClosesLast, ExitsOnce,
      CleanExitAnswersAll

\* What run() and its surroundings do with the requests left alone.
LEMMA RequestsAlone ==
    ASSUME Inv, UNCHANGED req
    PROVE  /\ InFlight' = InFlight /\ busy' = busy
           /\ AsksForStatements' /\ HijackedAreSockets'
           /\ (main # "exited" => \A r \in Requests : req'[r].state # "cut")
           /\ req' \in [Requests -> Request]
           /\ Cardinality(busy)' <= MaxOpenConns
  BY DEF Inv, TypeOK, InFlight, busy, AsksForStatements, HijackedAreSockets, NotCutBefore

\* The end of the process cuts off what is left of the requests.
LEMMA ExitPreserves ==
    ASSUME Inv, Exit
    PROVE  Inv'
<1> DEFINE Cut(r) == r \in InFlight \/ req[r].state = "hijacked"
<1>1. /\ req \in [Requests -> Request]
      /\ main = "exit" /\ main' = "exited" /\ exit' \in {0, 1}
      /\ exit' = 0 => ~failure
      /\ UNCHANGED <<stopping, late, failure, listener, debug, pool, reachable>>
  BY DEF Inv, TypeOK, Exit, Goto
<1>2. ASSUME NEW r \in Requests
      PROVE  /\ req'[r] = IF Cut(r) THEN [req[r] EXCEPT !.state = "cut"] ELSE req[r]
             /\ req'[r] \in Request
             /\ req'[r].kind = req[r].kind /\ req'[r].left = req[r].left
             /\ req'[r].state = IF Cut(r) THEN "cut" ELSE req[r].state
  <2>1. req'[r] = IF Cut(r) THEN [req[r] EXCEPT !.state = "cut"] ELSE req[r]
    BY DEF Exit
  <2>2. req[r] \in Request
    BY <1>1
  <2> HIDE DEF Cut
  <2> QED
    BY <2>1, <2>2 DEF Request
<1>3. req' \in [Requests -> Request]
  <2>1. req' = [r \in Requests |-> req'[r]]
    BY DEF Exit
  <2> QED
    BY <1>2, <2>1
<1>4. InFlight' = {} /\ busy' = {}
  BY <1>2 DEF InFlight, busy
<1>5. TypeOK'
  <2>1. Cardinality(busy') = 0
    BY <1>4, FS_EmptySet
  <2> QED
    BY <1>1, <1>3, <2>1, ServerAssumption DEF Inv, TypeOK
<1>6. AsksForStatements' /\ HijackedAreSockets'
  BY <1>2 DEF Inv, AsksForStatements, HijackedAreSockets
<1>7. CleanExitAnswersAll'
  <2> SUFFICES ASSUME exit' = 0, NEW r \in Requests
               PROVE  \/ req'[r].state \in {"none", "answered", "ended"}
                      \/ /\ req'[r].state = "cut"
                         /\ req'[r].kind = "socket" /\ req'[r].left = 0
    BY DEF CleanExitAnswersAll
  <2>1. InFlight = {}
    BY <1>1 DEF Inv, DrainedAfterwards
  <2>2. /\ req[r].state \in States
        /\ req[r].state \notin Served \cup {"cut"}
        /\ req[r].state = "hijacked" => req[r].kind = "socket" /\ req[r].left = 0
    BY <1>1, <2>1 DEF Inv, Request, States, Served, InFlight, NotCutBefore, HijackedAreSockets
  <2> QED
    BY <1>2, <2>1, <2>2 DEF States, Served
<1> QED
  BY <1>1, <1>4, <1>5, <1>6, <1>7
  DEF Inv, ListensOnlyWaiting, DrainedAfterwards, FailsLate, ClosesLast, ExitsOnce,
      NotCutBefore

\* Every other step of run() leaves the requests alone.
LEMMA RunPreserves ==
    ASSUME Inv, Run
    PROVE  Inv'
<1>1. CASE Exit
  BY <1>1, ExitPreserves
<1>2. ASSUME UNCHANGED <<req, reachable>>, main # "exited",
             main' \in {"open", "wait", "drain", "debug", "flush", "exit", "exited"},
             stopping' \in BOOLEAN, late' \in BOOLEAN, failure' \in BOOLEAN,
             exit' \in {Running, 1}, exit' # Running => main' = "exited",
             listener' \in Listener, debug' \in Listener,
             pool' \in {"none", "open", "closed"},
             ListensOnlyWaiting', DrainedAfterwards', FailsLate', ClosesLast'
      PROVE  Inv'
  <2>1. TypeOK'
    BY <1>2, RequestsAlone DEF Inv, TypeOK
  <2>2. CleanExitAnswersAll'
    BY <1>2 DEF CleanExitAnswersAll, Running
  <2>3. NotCutBefore' /\ AsksForStatements' /\ HijackedAreSockets'
    BY <1>2, RequestsAlone DEF NotCutBefore
  <2> QED
    BY <1>2, <2>1, <2>2, <2>3 DEF Inv, ExitsOnce
<1>3. /\ {stopping, late, failure, reachable} \subseteq BOOLEAN
      /\ exit \in {Running, 0, 1} /\ listener \in Listener /\ debug \in Listener
      /\ pool \in {"none", "open", "closed"}
  BY DEF Inv, TypeOK
<1>4. UNCHANGED req => InFlight' = InFlight
  BY DEF InFlight
<1>5. ASSUME main \in {"load", "open"}, ReturnError
      PROVE  Inv'
  BY <1>2, <1>3, <1>4, <1>5
  DEF Inv, ReturnError, ListensOnlyWaiting, DrainedAfterwards, FailsLate, ClosesLast
<1>6. CASE Load
  <2>1. CASE main' = "open" /\ main = "load" /\ UNCHANGED <<ctxVars, listener, debug, pool, reachable, req>>
    BY <1>2, <1>3, <1>4, <2>1
    DEF Inv, ctxVars, ListensOnlyWaiting, DrainedAfterwards, FailsLate, ClosesLast, ExitsOnce
  <2> QED
    BY <1>5, <1>6, <2>1 DEF Load
<1>7. CASE Start
  <2>1. CASE /\ main = "open" /\ main' = "wait" /\ pool' = "open"
             /\ listener' = "starting" /\ debug' = "starting"
             /\ UNCHANGED <<ctxVars, reachable, req>>
    BY <1>2, <1>3, <1>4, <2>1
    DEF Inv, ctxVars, Listener, ListensOnlyWaiting, DrainedAfterwards, FailsLate, ClosesLast,
        ExitsOnce
  <2> QED
    BY <1>5, <1>7, <2>1 DEF Start
<1>8. CASE Shutdown
  BY <1>2, <1>3, <1>4, <1>8
  DEF Inv, Shutdown, Goto, ctxVars, Listener, ListensOnlyWaiting, DrainedAfterwards, FailsLate,
      ClosesLast, ExitsOnce
<1>9. CASE Drained
  BY <1>2, <1>3, <1>4, <1>9
  DEF Inv, Drained, Goto, ctxVars, ListensOnlyWaiting, DrainedAfterwards, FailsLate,
      ClosesLast, ExitsOnce
<1>10. CASE ShutdownFails
  BY <1>2, <1>3, <1>4, <1>10
  DEF Inv, ShutdownFails, Goto, ListensOnlyWaiting, DrainedAfterwards, FailsLate,
      ClosesLast, ExitsOnce
<1>11. CASE ShutdownDebug
  BY <1>2, <1>3, <1>4, <1>11
  DEF Inv, ShutdownDebug, Goto, ctxVars, Listener, ListensOnlyWaiting, DrainedAfterwards,
      FailsLate, ClosesLast, ExitsOnce
<1>12. CASE CloseServices
  BY <1>2, <1>3, <1>4, <1>12
  DEF Inv, CloseServices, Goto, ctxVars, ListensOnlyWaiting, DrainedAfterwards, FailsLate,
      ClosesLast, ExitsOnce
<1> QED
  BY <1>1, <1>6, <1>7, <1>8, <1>9, <1>10, <1>11, <1>12 DEF Run

\* Signals, timers, listeners and the database come in between anywhere.
LEMMA SurroundingsPreserve ==
    ASSUME Inv, Signal \/ Deadline \/ Listen \/ ListenFails \/ DebugListens \/ DatabaseChanges
    PROVE  Inv'
<1>1. /\ UNCHANGED <<main, failure, exit, pool, req>>
      /\ {stopping', late', reachable'} \subseteq BOOLEAN
      /\ {listener', debug'} \subseteq Listener
      /\ listener' \in {"starting", "open"} => listener \in {"starting", "open"}
  BY DEF Inv, TypeOK, Signal, Deadline, Listen, ListenFails, DebugListens, DatabaseChanges,
         ctxVars, Listener
<1>2. TypeOK'
  BY <1>1, RequestsAlone DEF Inv, TypeOK
<1>3. DrainedAfterwards' /\ AsksForStatements' /\ HijackedAreSockets'
  BY <1>1, RequestsAlone DEF Inv, DrainedAfterwards
<1> QED
  BY <1>1, <1>2, <1>3
  DEF Inv, ListensOnlyWaiting, FailsLate, ClosesLast, ExitsOnce, NotCutBefore,
      CleanExitAnswersAll

\* The invariant holds in every state of every execution.
THEOREM ServerInvariance == Spec => []Inv
<1>1. Init => Inv
  <2> SUFFICES ASSUME Init PROVE Inv
    OBVIOUS
  <2>1. \A r \in Requests : req[r] = [kind |-> "task", left |-> 0, state |-> "none"]
    BY DEF Init
  <2>2. [kind |-> "task", left |-> 0, state |-> "none"] \in Request
    BY ServerAssumption DEF Request, Kind
  <2>3. req \in [Requests -> Request]
    BY <2>2 DEF Init
  <2>4. InFlight = {} /\ busy = {}
    BY <2>1 DEF InFlight, busy
  <2>5. TypeOK
    <3>1. Cardinality(busy) = 0 /\ MaxOpenConns \in Nat
      BY <2>4, FS_EmptySet, ServerAssumption
    <3>2. Cardinality(busy) <= MaxOpenConns
      BY <3>1
    <3>3. {stopping, late, failure, reachable} \subseteq BOOLEAN
      BY DEF Init
    <3> QED
      BY <2>3, <3>2, <3>3 DEF Init, TypeOK, Listener
  <2>6. AsksForStatements /\ NotCutBefore /\ HijackedAreSockets /\ CleanExitAnswersAll
    BY <2>1 DEF AsksForStatements, NotCutBefore, HijackedAreSockets, CleanExitAnswersAll
  <2> QED
    BY <2>4, <2>5, <2>6
    DEF Init, Inv, ListensOnlyWaiting, DrainedAfterwards, FailsLate, ClosesLast, ExitsOnce
<1>2. Inv /\ [Next]_vars => Inv'
  <2> SUFFICES ASSUME Inv, [Next]_vars PROVE Inv'
    OBVIOUS
  <2>1. CASE Run
    BY <2>1, RunPreserves
  <2>2. CASE Signal \/ Deadline \/ Listen \/ ListenFails \/ DebugListens \/ DatabaseChanges
    BY <2>2, SurroundingsPreserve
  <2>3. ASSUME NEW r \in Requests, NEW kind \in Kind, Accept(r, kind)
        PROVE  Inv'
    BY <2>3, AcceptPreserves
  <2>4. ASSUME NEW r \in Requests, Handle(r)
        PROVE  Inv'
    BY <2>4, HandleSteps, StepsPreserve DEF Inv
  <2>5. CASE UNCHANGED vars
    <3>1. UNCHANGED <<main, stopping, late, failure, exit, listener, debug, pool, reachable, req>>
      BY <2>5 DEF vars, ctxVars
    <3>2. TypeOK' /\ DrainedAfterwards' /\ AsksForStatements' /\ HijackedAreSockets'
      BY <3>1, RequestsAlone DEF Inv, TypeOK, DrainedAfterwards
    <3> QED
      BY <3>1, <3>2
      DEF Inv, ListensOnlyWaiting, FailsLate, ClosesLast, ExitsOnce, NotCutBefore,
          CleanExitAnswersAll
  <2> QED
    BY <2>1, <2>2, <2>3, <2>4, <2>5 DEF Next
<1> QED
  BY <1>1, <1>2, PTL DEF Spec

\* Types are kept and the pool is never overdrawn (sqldb.go:78).
THEOREM ServerTyping == Spec => []TypeOK
<1>1. Inv => TypeOK
  BY DEF Inv
<1> QED
  BY <1>1, ServerInvariance, PTL

\* The deferred Close of the pool finds a request being served only if the
\* drain was cut off (main.go:62, 118).
THEOREM PoolOutlives == Spec => []PoolOutlivesRequests
<1>1. Inv => PoolOutlivesRequests
  BY DEF Inv, PoolOutlivesRequests, ClosesLast, DrainedAfterwards
<1> QED
  BY <1>1, ServerInvariance, PTL

\* Success as exit code means that every accepted request was answered
\* (main.go:118-127).
THEOREM CleanExit == Spec => []CleanExitAnswersAll
<1>1. Inv => CleanExitAnswersAll
  BY DEF Inv
<1> QED
  BY <1>1, ServerInvariance, PTL
==============================================================================
