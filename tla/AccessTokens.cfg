CONSTANTS
    Users = {u1, u2}
    u1 = u1
    u2 = u2
    Secrets = {shared, otherSecret}
    shared = shared
    otherSecret = otherSecret
    Issuers = {issuer, otherIssuer}
    issuer = issuer
    otherIssuer = otherIssuer
    Origins = {app, other, self}
    SelfOrigin = self
    None = None
    Requests <- MCRequests
SPECIFICATION Spec
INVARIANTS
    TypeOK
    ServedUsersAreGenuine
    HandshakeAgrees
    ExpiredMeansRefresh
    OriginsAgree
