-------------------------------- MODULE Server --------------------------------
(* The process: run() of cmd/api/main.go from the configuration to the exit    *)
(* code, with its two HTTP servers, the requests in flight and the pool they   *)
(* share (internal/sdk/sqldb/sqldb.go, internal/app/handlers_health.go).       *)
(*                                                                            *)
(* A handler is reduced to the statements it runs one after the other, each on *)
(* a connection it waits for and gives back; what they do is in TaskService,  *)
(* TaskChat and UserMirror.  net/http and database/sql are known from their   *)
(* use: Shutdown closes the listener and waits for the requests being served, *)
(* hijacked connections aside; a wait for a connection ends with one, with    *)
(* the context of the request or with the pool.                               *)
EXTENDS Naturals, FiniteSets

CONSTANTS
    Requests,       \* the requests clients may make, once each
    MaxOpenConns,   \* db.SetMaxOpenConns, 25 in the code
    MaxStatements   \* bound: the statements of one handler

ASSUME ServerAssumption ==
    /\ IsFiniteSet(Requests)
    /\ MaxOpenConns \in Nat \ {0}
    /\ MaxStatements \in Nat \ {0}

VARIABLES
    main,       \* where run() is
    stopping,   \* ctx is done: a signal came, or the server called stop()
    late,       \* shutdownCtx is done
    failure,    \* run() returns an error
    exit,       \* the exit code; Running before
    listener,   \* srv.ListenAndServe
    debug,      \* debugSrv.ListenAndServe
    pool,       \* the sql.DB
    reachable,  \* the database answers
    req         \* the requests

ctxVars == <<stopping, late, failure, exit>>
vars == <<main, ctxVars, listener, debug, pool, reachable, req>>

Running == 255

\* A handler that uses the database, GET /health/readiness, or a websocket
\* handshake, whose connection leaves the HTTP server once it is hijacked.
Kind == {"task", "probe", "socket"}
Listener == {"none", "starting", "open", "failed", "closed"}

\* left: the statements the handler has yet to run.
Request ==
    [kind: Kind, left: 0..MaxStatements,
     state: {"none", "running", "waiting", "querying", "failed", "hijacked",
             "answered", "ended", "cut"}]

Init ==
    /\ main = "load"
    /\ stopping = FALSE /\ late = FALSE /\ failure = FALSE
    /\ exit = Running
    /\ listener = "none" /\ debug = "none"
    /\ pool = "none" /\ reachable \in BOOLEAN
    /\ req = [r \in Requests |-> [kind |-> "task", left |-> 0, state |-> "none"]]

------------------------------------------------------------------------------
(* The requests and the pool.                                                 *)

InFlight == {r \in Requests :
                req[r].state \in {"running", "waiting", "querying", "failed"}}

\* Variant: a handler keeps its connection from one statement to the next.
busyBetweenStatements ==
    {r \in Requests : \/ req[r].state = "querying"
                      \/ /\ req[r].kind = "task"
                         /\ req[r].state \in {"running", "waiting"}
                         /\ req[r].left < MaxStatements}

\* The connections in use: a statement has one, a handler between two has none.
busy == {r \in Requests : req[r].state = "querying"}

Move(r, from, to) ==
    /\ req[r].state \in from
    /\ req' = [req EXCEPT ![r].state = to]
    /\ UNCHANGED <<main, ctxVars, listener, debug, pool, reachable>>

\* A request arrives and its handler starts.
Accept(r, kind) ==
    /\ listener = "open"
    /\ req[r].state = "none"
    /\ \E n \in IF kind = "task" THEN 0..MaxStatements ELSE {1} :
           req' = [req EXCEPT ![r] = [kind |-> kind, left |-> n,
                                      state |-> "running"]]
    /\ UNCHANGED <<main, ctxVars, listener, debug, pool, reachable>>

\* Its next statement asks the pool for a connection; a closed pool has none.
Query(r) ==
    /\ req[r].left > 0
    /\ Move(r, {"running"}, IF pool = "open" THEN "waiting" ELSE "failed")

\* Variant: the driver's default, any number of connections.
AcquireUnbounded(r) == pool = "open" /\ Move(r, {"waiting"}, "querying")

Acquire(r) ==
    /\ pool = "open"
    /\ Cardinality(busy) < MaxOpenConns
    /\ Move(r, {"waiting"}, "querying")

\* Close of the pool ends every wait for a connection.
WaitFails(r) == pool = "closed" /\ Move(r, {"waiting"}, "failed")

QueryEnds(r) ==
    /\ reachable
    /\ req[r].state = "querying"
    /\ req' = [req EXCEPT ![r].state = "running", ![r].left = @ - 1]
    /\ UNCHANGED <<main, ctxVars, listener, debug, pool, reachable>>

QueryFails(r) == Move(r, {"querying"}, "failed")

\* The client goes away and the context of its request ends what the handler
\* waits for; Health pings on a context of its own.
ClientLeaves(r) ==
    /\ req[r].kind # "probe"
    /\ Move(r, {"running", "waiting", "querying"}, "failed")

\* Variant: Health pings without a deadline.
PingNeverTimesOut(r) == FALSE /\ UNCHANGED vars

\* The ping of Health has had its second, waiting or under way.
PingTimesOut(r) ==
    /\ req[r].kind = "probe"
    /\ Move(r, {"waiting", "querying"}, "failed")

\* 200, 500 or 503.
Answer(r) ==
    \/ req[r].left = 0 /\ req[r].kind # "socket" /\ Move(r, {"running"}, "answered")
    \/ Move(r, {"failed"}, "answered")

\* The upgrade takes the connection over from the HTTP server.
Hijack(r) ==
    /\ req[r].left = 0 /\ req[r].kind = "socket"
    /\ Move(r, {"running"}, "hijacked")

SocketEnds(r) == Move(r, {"hijacked"}, "ended")

DatabaseChanges ==
    /\ reachable' = ~reachable
    /\ UNCHANGED <<main, ctxVars, listener, debug, pool, req>>

------------------------------------------------------------------------------
(* run().                                                                     *)

Goto(from, to) == main = from /\ main' = to

\* run() returns before anything was started: os.Exit(1).
ReturnError ==
    /\ main' = "exited"
    /\ exit' = 1
    /\ UNCHANGED <<stopping, late, failure, listener, debug, pool, reachable, req>>

\* config.Load.
Load ==
    /\ main = "load"
    /\ \/ /\ main' = "open"
          /\ UNCHANGED <<ctxVars, listener, debug, pool, reachable, req>>
       \/ ReturnError

\* sqldb.New, which connects to nothing, up to the two listener goroutines.
Start ==
    /\ main = "open"
    /\ \/ /\ main' = "wait"
          /\ pool' = "open"
          /\ listener' = "starting" /\ debug' = "starting"
          /\ UNCHANGED <<ctxVars, reachable, req>>
       \/ ReturnError

\* SIGINT or SIGTERM; later ones change nothing, since ctx is done already.
Signal ==
    /\ main # "exited"
    /\ stopping' = TRUE
    /\ UNCHANGED <<main, late, failure, exit, listener, debug, pool, reachable, req>>

Listen ==
    /\ listener = "starting"
    /\ listener' = "open"
    /\ UNCHANGED <<main, ctxVars, debug, pool, reachable, req>>

\* Variant: the error is logged only, as for the debug server.
ListenFailsQuietly ==
    /\ listener \in {"starting", "open"}
    /\ listener' = "failed"
    /\ UNCHANGED <<main, ctxVars, debug, pool, reachable, req>>

\* ListenAndServe returns an error, at once or later: stop().
ListenFails ==
    /\ listener \in {"starting", "open"}
    /\ listener' = "failed"
    /\ stopping' = TRUE
    /\ UNCHANGED <<main, late, failure, exit, debug, pool, reachable, req>>

\* The debug server does as it likes: its error is logged.
DebugListens ==
    /\ debug = "starting"
    /\ debug' \in {"open", "failed"}
    /\ UNCHANGED <<main, ctxVars, listener, pool, reachable, req>>

\* <-ctx.Done(), and srv.Shutdown closes the listener, or keeps a starting one
\* from opening.
Shutdown ==
    /\ Goto("wait", "drain")
    /\ stopping
    /\ listener' = IF listener = "failed" THEN "failed" ELSE "closed"
    /\ UNCHANGED <<ctxVars, debug, pool, reachable, req>>

\* Variant: a shutdown context without a deadline.
NoDeadline == FALSE /\ UNCHANGED vars

\* The 15 seconds are over.
Deadline ==
    /\ main \in {"drain", "debug"}
    /\ ~late
    /\ late' = TRUE
    /\ UNCHANGED <<main, stopping, failure, exit, listener, debug, pool, reachable, req>>

\* Variant: srv.Close instead of srv.Shutdown, which waits for nobody.
DrainedAtOnce ==
    /\ Goto("drain", "debug")
    /\ UNCHANGED <<ctxVars, listener, debug, pool, reachable, req>>

\* srv.Shutdown finds no request being served; hijacked connections are not
\* its concern.
Drained ==
    /\ Goto("drain", "debug")
    /\ InFlight = {}
    /\ UNCHANGED <<ctxVars, listener, debug, pool, reachable, req>>

\* Variant: the error of srv.Shutdown is logged only, as for the debug server.
ShutdownFailsQuietly ==
    /\ Goto("drain", "debug")
    /\ late
    /\ UNCHANGED <<ctxVars, listener, debug, pool, reachable, req>>

\* The deadline ends the wait: run() returns an error, the debug server is left
\* as it is.
ShutdownFails ==
    /\ Goto("drain", "flush")
    /\ late
    /\ failure' = TRUE
    /\ UNCHANGED <<stopping, late, exit, listener, debug, pool, reachable, req>>

\* debugSrv.Shutdown, by the same deadline, whose error is logged.
ShutdownDebug ==
    /\ Goto("debug", "flush")
    /\ debug' = IF debug = "failed" THEN "failed" ELSE "closed"
    /\ UNCHANGED <<ctxVars, listener, pool, reachable, req>>

\* The deferred calls: Sentry's flush of two seconds at most, then the pool.
CloseServices ==
    /\ Goto("flush", "exit")
    /\ pool' = "closed"
    /\ UNCHANGED <<ctxVars, listener, debug, reachable, req>>

\* main returns or exits, and with it every goroutine.
Exit ==
    /\ Goto("exit", "exited")
    /\ exit' = IF failure THEN 1 ELSE 0
    /\ req' = [r \in Requests |->
                  IF r \in InFlight \/ req[r].state = "hijacked"
                  THEN [req[r] EXCEPT !.state = "cut"] ELSE req[r]]
    /\ UNCHANGED <<stopping, late, failure, listener, debug, pool, reachable>>

------------------------------------------------------------------------------

Handle(r) ==
    \/ Query(r) \/ Acquire(r) \/ WaitFails(r) \/ QueryEnds(r) \/ QueryFails(r)
    \/ ClientLeaves(r) \/ PingTimesOut(r) \/ Answer(r) \/ Hijack(r)
    \/ SocketEnds(r)

Run ==
    \/ Load \/ Start \/ Shutdown \/ Drained \/ ShutdownFails
    \/ ShutdownDebug \/ CloseServices \/ Exit

Next ==
    \/ Run
    \/ Signal \/ Deadline \/ Listen \/ ListenFails \/ DebugListens
    \/ DatabaseChanges
    \/ \E r \in Requests, kind \in Kind : Accept(r, kind)
    \/ \E r \in Requests : Handle(r)

Spec == Init /\ [][Next]_vars

\* The goroutines of main and of the handlers run, timers expire, and a
\* database that answers ends its statements.  Nothing makes a client come or
\* leave, a websocket end, a signal come or the database answer.
FairSpec ==
    /\ Spec
    /\ WF_vars(Run)
    /\ WF_vars(Deadline)
    /\ \A r \in Requests :
          /\ WF_vars(Query(r) \/ WaitFails(r) \/ Answer(r) \/ Hijack(r))
          /\ WF_vars(Acquire(r))
          /\ WF_vars(QueryEnds(r))
          /\ WF_vars(PingTimesOut(r))

------------------------------------------------------------------------------
(* Properties.                                                                *)

\* Every variable holds what its declaration says, and no more statements run
\* than the pool has connections.
TypeOK ==
    /\ main \in {"load", "open", "wait", "drain", "debug", "flush", "exit", "exited"}
    /\ {stopping, late, failure, reachable} \subseteq BOOLEAN
    /\ exit \in {Running, 0, 1}
    /\ {listener, debug} \subseteq Listener
    /\ pool \in {"none", "open", "closed"}
    /\ req \in [Requests -> Request]
    /\ Cardinality(busy) <= MaxOpenConns

\* The pool is closed under a request being served only when the shutdown
\* deadline cut it off: otherwise every accepted request has its database to
\* the end, and the deferred Close comes after the drain (main.go:62, 118-127).
PoolOutlivesRequests ==
    (pool = "closed" /\ InFlight # {}) => failure

\* A process that exits with success, after a signal or because its listener
\* failed, has answered every request it accepted and dropped nothing but
\* established websocket connections, which Shutdown does not see.
CleanExitAnswersAll ==
    exit = 0 =>
        \A r \in Requests :
            \/ req[r].state \in {"none", "answered", "ended"}
            \/ req[r].state = "cut" /\ req[r].kind = "socket" /\ req[r].left = 0

\* After a signal the process ends, although the database may hang under a
\* request, websocket connections stay open and later signals are swallowed
\* (main.go:112-127).
StopsInTheEnd == stopping ~> main = "exited"

\* A server that does not listen does not stay up, holding on to a pool nobody
\* uses (main.go:96-102).
ListenerFailureEnds == listener = "failed" ~> main = "exited"

\* As long as the database comes back for good every request is answered, or
\* cut off by the end of the process: requests that wait for a connection do
\* not wait for each other, however few there are (sqldb.go:77-80).
EveryoneIsServed ==
    <>[]reachable =>
        \A r \in Requests : r \in InFlight ~> r \notin InFlight

\* A readiness probe ends although the database hangs and other requests have
\* all connections: the second of Health bounds the wait for one as well, and
\* the five seconds of the handler are not needed (sqldb.go:91, 101).
ProbesEnd ==
    \A r \in Requests :
        (r \in InFlight /\ req[r].kind = "probe") ~> r \notin InFlight
==============================================================================
