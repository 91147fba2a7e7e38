CONSTANTS
    Users = {u1, u2, u3}
    Requests = {r1, r2}
    Sockets = {s1}
    Messages = {m1, m2}
    NULL = NULL
SPECIFICATION Spec
SYMMETRY ChatSymmetry
INVARIANTS
    TypeOK
    StoredByMembers
    AnswersTellTruth
    StreamsAreHonest
    JoinThenListMissesNothing
    OrderIsCausal
PROPERTY ImplementsRoom
