-------------------------------- MODULE Access --------------------------------
(* Who reaches a handler: the settings Load accepts (sdk/config), the routes   *)
(* and their middleware (app/routes.go, sdk/middleware), and the two places   *)
(* that take a token from a request, Authenticate and authenticateWebSocket,  *)
(* over one ParseAccessToken (services/jwt).                                  *)
(*                                                                            *)
(* A setting or a header is a member of a small set, with the spellings the   *)
(* code tells apart.  Of the libraries: a signature is checked before the     *)
(* claims, the errors of all claims are joined, and CORS lets pass a page of  *)
(* the same host, "*", and an origin spelled as it is configured.             *)

CONSTANTS
    Users,          \* the subjects of tokens
    Secrets,        \* secrets of 32 characters and more; the auth service has one
    Issuers,        \* issuers other than the template's; one is its own
    Origins,        \* the origins of web pages
    SelfOrigin,     \* the one among them with the service's own host
    None,           \* no configuration, user, token, header, origin, error
    Requests        \* the requests clients make

\* placeholder: one of the template, which are all too short besides.
Secret == Secrets \cup {"placeholder", "short", ""}
Issuer == Issuers \cup {"placeholder", ""}

\* key: what it was signed with; None if it is malformed or not HS256.  early:
\* its nbf is still to come.
Token == [key: Secret \cup {None}, issuer: Issuer,
          exp: {"none", "past", "future"}, early: BOOLEAN,
          subject: Users \cup {""}]

\* "<scheme> <token>", with a blank too many or without a token.
Header == [scheme: {"bearer", "other"}, padded: BOOLEAN, token: Token \cup {None}]

\* upper: not in lower case, as browsers send it.
Origin == [name: Origins, upper: BOOLEAN]

Request == [route: {"health", "protected", "socket", "nowhere"},
            origin: Origin \cup {None}, header: Header \cup {None},
            access_token: Token \cup {None}, token: Token \cup {None}]

Code == {"cors", "not_found", "upgrade", "missing_authorization_header",
         "invalid_authorization_header", "expired_token", "invalid_token",
         "unauthorized"}
Reply == [user: Users \cup {None}, error: Code \cup {None}]

\* Whether secret and issuer are those of the auth service is up to whoever
\* deploys: Load cannot tell.  origins: AllowOrigins, empty for all of them.
Environment ==
    [database: BOOLEAN, secret: Secret, issuer: Issuer,
     origins: {{}, {"*"}} \cup {{o} : o \in Origins}]

ASSUME AccessAssumption ==
    /\ None \notin Secret
    /\ Secrets \cap {"placeholder", "short", ""} = {}
    /\ Issuers \cap {"placeholder", ""} = {}
    /\ "" \notin Users
    /\ None \notin Users /\ None \notin Token /\ None \notin Header
    /\ None \notin Origin /\ None \notin Request /\ None \notin Reply
    /\ None \notin Environment
    /\ None \notin Code \cup {"token_not_yet_valid", "invalid_claims"}
    /\ Requests \subseteq Request

VARIABLES
    cfg,        \* the configuration the process serves with, or None
    request,    \* the request of the last answer, or None
    reply       \* that answer

vars == <<cfg, request, reply>>

------------------------------------------------------------------------------
(* config.Load.                                                               *)

\* Variant: the length of the secret is forgotten.
ProblematicIfPlaceholder(env) ==
    \/ ~env.database
    \/ env.secret \in {"", "placeholder"}
    \/ env.issuer \in {"", "placeholder"}

\* A required setting is empty, the secret is a placeholder or short, or the
\* issuer a placeholder.
Problematic(env) ==
    \/ ~env.database
    \/ env.secret \in {"", "placeholder", "short"}
    \/ env.issuer \in {"", "placeholder"}

Load(env) == ~Problematic(env) /\ cfg' = env

------------------------------------------------------------------------------
(* ParseAccessToken: a token or a reason to refuse it.                        *)

ClaimErrors(token) ==
    {error \in {"expired", "not_yet", "no_exp", "issuer"} :
        \/ error = "expired" /\ token.exp = "past"
        \/ error = "not_yet" /\ token.early
        \/ error = "no_exp" /\ token.exp = "none"
        \/ error = "issuer" /\ token.issuer # cfg.issuer}

\* Variant: the claims are looked at although the signature is wrong.
ParseErrorsOfForged(token) ==
    ClaimErrors(token) \cup IF token.key = cfg.secret THEN {} ELSE {"unverified"}

ParseErrors(token) ==
    IF token.key = cfg.secret THEN ClaimErrors(token) ELSE {"unverified"}

\* The first case of the switch that is among the errors.
ParseAccessToken(token) ==
    LET errors == ParseErrors(token)
    IN IF errors = {} THEN None
       ELSE IF "expired" \in errors THEN "expired_token"
       ELSE IF "not_yet" \in errors THEN "token_not_yet_valid"
       ELSE IF "unverified" \in errors THEN "invalid_token"
       ELSE "invalid_claims"

Refused(error) == [user |-> None, error |-> error]

\* Variant: a token without a subject will do.
IdentifiedAnyway(token, code) ==
    IF ParseAccessToken(token) # None THEN Refused(code)
    ELSE [user |-> token.subject, error |-> None]

\* The subject of a good token; the code for a bad one.
Identified(token, code) ==
    IF ParseAccessToken(token) # None THEN Refused(code)
    ELSE IF token.subject = "" THEN Refused("unauthorized")
    ELSE [user |-> token.subject, error |-> None]

------------------------------------------------------------------------------
(* The two ways to be authenticated.                                          *)

WellFormed(header) == header.scheme = "bearer" /\ header.token # None

\* middleware.Authenticate: what follows the first blank is the token, and a
\* second blank makes it malformed.
Authenticate(q) ==
    IF q.header = None THEN Refused("missing_authorization_header")
    ELSE IF ~WellFormed(q.header) THEN Refused("invalid_authorization_header")
    ELSE IF q.header.padded THEN Refused("invalid_token")
    ELSE LET error == ParseAccessToken(q.header.token)
         IN Identified(q.header.token,
                       IF error \in {"expired_token", "invalid_token"}
                       THEN error ELSE "unauthorized")

\* Variant: the query is looked at before the header.
websocketTokenQueryFirst(q) ==
    IF q.access_token # None THEN q.access_token
    ELSE IF q.token # None THEN q.token
    ELSE IF q.header # None THEN q.header.token ELSE None

\* websocketToken: the header, trimmed, decides if there is one.
websocketToken(q) ==
    IF q.header # None THEN q.header.token
    ELSE IF q.access_token # None THEN q.access_token
    ELSE q.token

authenticateWebSocket(q) ==
    IF q.header # None /\ ~WellFormed(q.header)
    THEN Refused("invalid_authorization_header")
    ELSE IF websocketToken(q) = None THEN Refused("missing_authorization_header")
    ELSE LET error == ParseAccessToken(websocketToken(q))
         IN Identified(websocketToken(q),
                       IF error = "expired_token" THEN error ELSE "invalid_token")

------------------------------------------------------------------------------
(* The two checks of the origin, and the routes.                              *)

\* middleware.CORS.
CORS(origin) ==
    \/ origin = None
    \/ cfg.origins = {} \/ "*" \in cfg.origins
    \/ ~origin.upper /\ origin.name \in cfg.origins \cup {SelfOrigin}

\* Variant: an empty list allows nobody.
checkOriginStrict(origin) ==
    origin = None \/ "*" \in cfg.origins \/ origin.name \in cfg.origins

\* checkOrigin of the websocket service.
checkOrigin(origin) ==
    \/ origin = None
    \/ cfg.origins = {} \/ "*" \in cfg.origins
    \/ origin.name \in cfg.origins

\* The chain of handlers of a route, up to the first that refuses.
RegisterRoutes(q) ==
    IF ~CORS(q.origin) THEN Refused("cors")
    ELSE CASE q.route = "nowhere" -> Refused("not_found")
           [] q.route = "health" -> [user |-> None, error |-> None]
           [] q.route = "protected" -> Authenticate(q)
           [] q.route = "socket" ->
                  IF authenticateWebSocket(q).user # None /\ ~checkOrigin(q.origin)
                  THEN Refused("upgrade") ELSE authenticateWebSocket(q)

------------------------------------------------------------------------------

Init == cfg = None /\ request = None /\ reply = None

\* With an environment Load refuses the process ends.
Start(env) ==
    /\ cfg = None
    /\ Load(env)
    /\ UNCHANGED <<request, reply>>

ServeHTTP(q) ==
    /\ cfg # None
    /\ request' = q
    /\ reply' = RegisterRoutes(q)
    /\ UNCHANGED cfg

Next ==
    \/ \E env \in Environment : Start(env)
    \/ \E q \in Requests : ServeHTTP(q)

Spec == Init /\ [][Next]_vars

------------------------------------------------------------------------------
(* Properties.                                                                *)

\* Every variable holds what its declaration says.
TypeOK ==
    /\ cfg \in Environment \cup {None}
    /\ request \in Requests \cup {None}
    /\ reply \in Reply \cup {None}
    /\ request = None <=> reply = None

\* Signed with the configured secret, by the configured issuer, and valid now.
Genuine(token, user) ==
    /\ token.key = cfg.secret /\ token.issuer = cfg.issuer
    /\ token.exp = "future" /\ ~token.early
    /\ token.subject = user

Carried(q) ==
    {q.access_token, q.token} \cup (IF q.header = None THEN {} ELSE {q.header.token})

\* Behind the routes that need a user there is one, and a token of its own,
\* signed with the secret the service was given; and whatever the environment
\* that secret is not empty, short or of the template, nor is the issuer.  So
\* who deployed the auth service's secret serves its users only; another secret
\* of 32 characters passes Load, and then whoever has it makes the tokens
\* (config.go:125-133, jwt.go:40-87, routes.go:35-61).
ServedUsersAreGenuine ==
    (reply # None /\ reply.error = None /\ request.route # "health") =>
        \E token \in Carried(request) \ {None} :
            /\ Genuine(token, reply.user)
            /\ token.key \in Secrets /\ token.issuer \in Issuers

\* The websocket handshake has its own code to take a token from a request.  It
\* knows every caller the middleware knows as the same user, whatever is in the
\* query besides, and no other caller by a header, but for a stray blank
\* (auth.go:18-55, handlers_chat.go:82-136).
HandshakeAgrees ==
    (request # None /\ request.header # None) =>
        LET rest == Authenticate(request)
            socket == authenticateWebSocket(request)
        IN rest.user = socket.user \/ (rest.user = None /\ request.header.padded)

\* A client is told that its token expired if it was signed with the configured
\* secret and is past its time, so that it asks for a new one, and not
\* otherwise; and so on both paths (jwt.go:63-67, auth.go:37, handlers_chat.go:96).
ExpiredMeansRefresh ==
    (request # None /\ request.header # None /\ WellFormed(request.header)) =>
        LET token == request.header.token
            old == token.key = cfg.secret /\ token.exp = "past"
        IN /\ authenticateWebSocket(request).error = "expired_token" <=> old
           /\ Authenticate(request).error = "expired_token" <=>
                  old /\ ~request.header.padded

\* A page of another host that may call the API may also open a chat: the
\* middleware and the upgrader read the same list in two ways (cors.go:14-17,
\* websocket.go:172-187).
OriginsAgree ==
    (request # None /\ CORS(request.origin)) =>
        \/ checkOrigin(request.origin)
        \/ request.origin.name = SelfOrigin
==============================================================================
