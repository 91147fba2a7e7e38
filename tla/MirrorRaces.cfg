CONSTANTS
    Users = {u1, u2}
    Accounts = {a1, a2, a3}
    Requests = {r1, r2}
    MayRename = TRUE
    NULL = NULL
SPECIFICATION Spec
SYMMETRY MirrorSymmetry
INVARIANTS
    TypeOK
    MirrorIsHonest
    OneRowPerAccount
PROPERTY MirrorOnlyGrows
