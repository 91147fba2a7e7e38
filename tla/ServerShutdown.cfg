CONSTANTS
    Requests = {r1, r2}
    MaxOpenConns = 1
    MaxStatements = 2
SPECIFICATION FairSpec
CHECK_DEADLOCK FALSE
INVARIANTS
    TypeOK
    PoolOutlivesRequests
    CleanExitAnswersAll
PROPERTIES
    StopsInTheEnd
    ListenerFailureEnds
    EveryoneIsServed
    ProbesEnd
