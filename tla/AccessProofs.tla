----------------------------- MODULE AccessProofs -----------------------------
(* The properties of Access for any users, origins and requests, not only the *)
(* tokens of the TLC instance.  An answer is a function of the request and of *)
(* the configuration, whichever Load let pass, and the two paths are compared *)
(* case by case; that the configuration passed Load is needed only for what   *)
(* its secret and issuer are not.                                             *)
EXTENDS Access, TLAPS

\* The configuration is one Load let pass.
ServesLoaded == cfg # None => cfg \in Environment /\ ~Problematic(cfg)

\* The last answer is the one the request gets from this configuration.
RepliesByRoutes ==
    request # None =>
        /\ cfg # None
        /\ request \in Requests
        /\ reply = RegisterRoutes(request)

\* The inductive invariant.
Inv == TypeOK /\ ServesLoaded /\ RepliesByRoutes

\* What Load leaves of the classes of secrets and issuers.
LEMMA LoadedIsNoTemplate ==
    ASSUME ServesLoaded, cfg # None
    PROVE  cfg.secret \in Secrets /\ cfg.issuer \in Issuers
  BY DEF ServesLoaded, Problematic, Environment, Secret, Issuer

\* What the errors of a token say of it.
LEMMA Parsing ==
    ASSUME NEW token \in Token
    PROVE  /\ ParseAccessToken(token) \in
                  {None, "expired_token", "token_not_yet_valid", "invalid_token",
                   "invalid_claims"}
           /\ ParseAccessToken(token) = None => Genuine(token, token.subject)
           /\ ParseAccessToken(token) = "expired_token" <=>
                  token.key = cfg.secret /\ token.exp = "past"
<1>1. None \notin {"expired_token", "token_not_yet_valid", "invalid_token", "invalid_claims"}
  BY AccessAssumption DEF Code
<1>2. token.exp \in {"none", "past", "future"} /\ token.early \in BOOLEAN
  BY DEF Token
<1>3. /\ "expired" \in ClaimErrors(token) <=> token.exp = "past"
      /\ "not_yet" \in ClaimErrors(token) <=> token.early
      /\ "no_exp" \in ClaimErrors(token) <=> token.exp = "none"
      /\ "issuer" \in ClaimErrors(token) <=> token.issuer # cfg.issuer
  BY DEF ClaimErrors
<1>4. ParseErrors(token) = {} =>
          /\ token.key = cfg.secret /\ token.issuer = cfg.issuer
          /\ token.exp = "future" /\ ~token.early
  BY <1>2, <1>3 DEF ParseErrors
<1>5. "expired" \in ParseErrors(token) <=> token.key = cfg.secret /\ token.exp = "past"
  BY <1>3 DEF ParseErrors
<1> QED
  BY <1>1, <1>4, <1>5 DEF ParseAccessToken, Genuine

\* Whom a token identifies does not depend on the code for a bad one.
LEMMA Identifying ==
    ASSUME NEW token \in Token, NEW code \in Code
    PROVE  LET answer == Identified(token, code)
               good == ParseAccessToken(token) = None /\ token.subject # ""
           IN /\ answer \in Reply
              /\ answer.user = IF good THEN token.subject ELSE None
              /\ answer.error = None => good /\ Genuine(token, answer.user)
              /\ answer.error = IF ParseAccessToken(token) # None THEN code
                                ELSE IF good THEN None ELSE "unauthorized"
<1>1. None \notin Code /\ "unauthorized" \in Code
  BY AccessAssumption DEF Code
<1>2. token.subject \in Users \cup {""}
  BY DEF Token
<1>3. ParseAccessToken(token) = None => Genuine(token, token.subject)
  BY Parsing
<1>4. CASE ParseAccessToken(token) # None
  BY <1>1, <1>4 DEF Identified, Refused, Reply
<1>5. CASE ParseAccessToken(token) = None /\ token.subject = ""
  BY <1>1, <1>5 DEF Identified, Refused, Reply
<1>6. CASE ParseAccessToken(token) = None /\ token.subject # ""
  BY <1>2, <1>3, <1>6 DEF Identified, Refused, Reply, Genuine
<1> QED
  BY <1>4, <1>5, <1>6

\* A good token identifies its subject.
Good(token) == ParseAccessToken(token) = None /\ token.subject # ""
Old(token) == token.key = cfg.secret /\ token.exp = "past"

\* What the middleware answers.
LEMMA MiddlewareAnswers ==
    ASSUME NEW q \in Request
    PROVE  /\ Authenticate(q) \in Reply
           /\ Authenticate(q).error = None =>
                  \E token \in Carried(q) \ {None} : Genuine(token, Authenticate(q).user)
           /\ q.header # None =>
                  /\ Authenticate(q).user =
                         IF WellFormed(q.header) /\ ~q.header.padded /\ Good(q.header.token)
                         THEN q.header.token.subject ELSE None
                  /\ Authenticate(q).error = "expired_token" <=>
                         WellFormed(q.header) /\ ~q.header.padded /\ Old(q.header.token)
<1>1. None \notin Code
  BY AccessAssumption
<1>2. CASE q.header = None
  BY <1>1, <1>2 DEF Authenticate, Refused, Reply, Code
<1>3. CASE q.header # None /\ ~(WellFormed(q.header) /\ ~q.header.padded)
  BY <1>1, <1>3 DEF Authenticate, Refused, Reply, Code
<1>4. CASE q.header # None /\ WellFormed(q.header) /\ ~q.header.padded
  <2> DEFINE token == q.header.token
             error == ParseAccessToken(token)
             code == IF error \in {"expired_token", "invalid_token"}
                     THEN error ELSE "unauthorized"
  <2>1. token \in Token /\ token \in Carried(q) \ {None}
    BY <1>4 DEF Request, Header, WellFormed, Carried
  <2>2. code \in Code /\ (code = "expired_token" <=> error = "expired_token")
    BY DEF Code
  <2>3. Authenticate(q) = Identified(token, code)
    BY <1>4 DEF Authenticate
  <2>4. error = "expired_token" <=> Old(token)
    BY <2>1, Parsing DEF Old
  <2> HIDE DEF token, error, code
  <2>5. error = ParseAccessToken(token) /\ token = q.header.token
    BY DEF error, token
  <2>6. /\ Identified(token, code) \in Reply
        /\ Identified(token, code).user = IF Good(token) THEN token.subject ELSE None
        /\ Identified(token, code).error = None =>
               Genuine(token, Identified(token, code).user)
        /\ Identified(token, code).error =
               IF error # None THEN code ELSE IF Good(token) THEN None ELSE "unauthorized"
    BY <2>1, <2>2, <2>5, Identifying DEF Good
  <2>7. None # "expired_token"
    BY <1>1 DEF Code
  <2> QED
    BY <1>4, <2>1, <2>2, <2>3, <2>4, <2>5, <2>6, <2>7
<1> QED
  BY <1>2, <1>3, <1>4

\* What the handshake answers.
LEMMA HandshakeAnswers ==
    ASSUME NEW q \in Request
    PROVE  /\ authenticateWebSocket(q) \in Reply
           /\ authenticateWebSocket(q).error = None =>
                  \E token \in Carried(q) \ {None} :
                      Genuine(token, authenticateWebSocket(q).user)
           /\ q.header # None =>
                  /\ authenticateWebSocket(q).user =
                         IF WellFormed(q.header) /\ Good(q.header.token)
                         THEN q.header.token.subject ELSE None
                  /\ authenticateWebSocket(q).error = "expired_token" <=>
                         WellFormed(q.header) /\ Old(q.header.token)
<1>1. None \notin Code
  BY AccessAssumption
<1>2. CASE q.header # None /\ ~WellFormed(q.header)
  BY <1>1, <1>2 DEF authenticateWebSocket, Refused, Reply, Code
<1>3. CASE ~(q.header # None /\ ~WellFormed(q.header)) /\ websocketToken(q) = None
  <2>1. q.header = None
    BY <1>3 DEF websocketToken, WellFormed
  <2> QED
    BY <1>1, <1>3, <2>1 DEF authenticateWebSocket, Refused, Reply, Code
<1>4. CASE ~(q.header # None /\ ~WellFormed(q.header)) /\ websocketToken(q) # None
  <2> DEFINE token == websocketToken(q)
             error == ParseAccessToken(token)
             code == IF error = "expired_token" THEN error ELSE "invalid_token"
  <2>1. token \in Token /\ token \in Carried(q) \ {None}
    BY <1>4 DEF Request, Header, websocketToken, Carried
  <2>2. code \in Code /\ (code = "expired_token" <=> error = "expired_token")
    BY DEF Code
  <2>3. authenticateWebSocket(q) = Identified(token, code)
    BY <1>4 DEF authenticateWebSocket
  <2>4. error = "expired_token" <=> Old(token)
    BY <2>1, Parsing DEF Old
  <2>5. q.header # None => token = q.header.token /\ WellFormed(q.header)
    BY <1>4 DEF websocketToken
  <2> HIDE DEF token, error, code
  <2>6. error = ParseAccessToken(token)
    BY DEF error
  <2>7. /\ Identified(token, code) \in Reply
        /\ Identified(token, code).user = IF Good(token) THEN token.subject ELSE None
        /\ Identified(token, code).error = None =>
               Genuine(token, Identified(token, code).user)
        /\ Identified(token, code).error =
               IF error # None THEN code ELSE IF Good(token) THEN None ELSE "unauthorized"
    BY <2>1, <2>2, <2>6, Identifying DEF Good
  <2>8. None # "expired_token"
    BY <1>1 DEF Code
  <2> QED
    BY <1>4, <2>1, <2>2, <2>3, <2>4, <2>5, <2>6, <2>7, <2>8
<1> QED
  BY <1>2, <1>3, <1>4

\* An answer of the routes is an answer, and a good one has a genuine token
\* behind it unless the route is open to all.
LEMMA RoutesAnswer ==
    ASSUME NEW q \in Request
    PROVE  /\ RegisterRoutes(q) \in Reply
           /\ (RegisterRoutes(q).error = None /\ q.route # "health") =>
                  \E token \in Carried(q) \ {None} : Genuine(token, RegisterRoutes(q).user)
<1>1. None \notin Code
  BY AccessAssumption
<1>2. \A code \in Code : Refused(code) \in Reply /\ Refused(code).error # None
  BY <1>1 DEF Refused, Reply
<1>3. q.route \in {"health", "protected", "socket", "nowhere"}
  BY DEF Request
<1>4. CASE ~CORS(q.origin)
  <2>1. RegisterRoutes(q) = Refused("cors")
    BY <1>4 DEF RegisterRoutes
  <2> QED
    BY <1>2, <2>1 DEF Code
<1>5. CASE CORS(q.origin) /\ q.route = "nowhere"
  <2>1. RegisterRoutes(q) = Refused("not_found")
    BY <1>5 DEF RegisterRoutes
  <2> QED
    BY <1>2, <2>1 DEF Code
<1>6. CASE CORS(q.origin) /\ q.route = "health"
  BY <1>6 DEF RegisterRoutes, Reply
<1>7. CASE CORS(q.origin) /\ q.route = "protected"
  <2>1. RegisterRoutes(q) = Authenticate(q)
    BY <1>7 DEF RegisterRoutes
  <2> QED
    BY <2>1, MiddlewareAnswers
<1>8. CASE CORS(q.origin) /\ q.route = "socket"
  <2>1. RegisterRoutes(q) \in {Refused("upgrade"), authenticateWebSocket(q)}
    BY <1>8 DEF RegisterRoutes
  <2> QED
    BY <1>2, <2>1, HandshakeAnswers DEF Code
<1> QED
  BY <1>3, <1>4, <1>5, <1>6, <1>7, <1>8

\* The invariant holds in every state of every execution.
THEOREM AccessInvariance == Spec => []Inv
<1>1. Init => Inv
  BY DEF Init, Inv, TypeOK, ServesLoaded, RepliesByRoutes
<1>2. Inv /\ [Next]_vars => Inv'
  <2> SUFFICES ASSUME Inv, [Next]_vars PROVE Inv'
    OBVIOUS
  <2>1. ASSUME NEW env \in Environment, Start(env)
        PROVE  Inv'
    <3>1. cfg = None /\ cfg' = env /\ ~Problematic(env) /\ UNCHANGED <<request, reply>>
      BY <2>1 DEF Start, Load
    <3>2. request = None
      BY <3>1 DEF Inv, RepliesByRoutes
    <3> QED
      BY <3>1, <3>2 DEF Inv, TypeOK, ServesLoaded, RepliesByRoutes
  <2>2. ASSUME NEW q \in Requests, ServeHTTP(q)
        PROVE  Inv'
    <3>1. cfg # None /\ cfg' = cfg /\ request' = q /\ reply' = RegisterRoutes(q)
      BY <2>2 DEF ServeHTTP
    <3>2. q \in Request /\ None \notin Request /\ None \notin Reply
      BY AccessAssumption
    <3>3. RegisterRoutes(q) \in Reply
      BY <3>1, <3>2, RoutesAnswer DEF Inv
    <3>4. TypeOK'
      BY <3>1, <3>2, <3>3 DEF Inv, TypeOK
    <3>5. ServesLoaded'
      BY <3>1 DEF Inv, ServesLoaded, Problematic
    <3>6. RepliesByRoutes'
      <4>1. ASSUME NEW token PROVE ParseAccessToken(token)' = ParseAccessToken(token)
        BY <3>1 DEF ParseAccessToken, ParseErrors, ClaimErrors
      <4>2. Authenticate(q)' = Authenticate(q)
        BY <4>1 DEF Authenticate, Identified, Refused, WellFormed
      <4>3. authenticateWebSocket(q)' = authenticateWebSocket(q)
        BY <4>1 DEF authenticateWebSocket, websocketToken, Identified, Refused, WellFormed
      <4>4. RegisterRoutes(q)' = RegisterRoutes(q)
        BY <3>1, <4>2, <4>3 DEF RegisterRoutes, CORS, checkOrigin, Refused
      <4>5. RegisterRoutes(request)' = RegisterRoutes(q)'
        BY <3>1
      <4> QED
        BY <3>1, <3>2, <4>4, <4>5 DEF RepliesByRoutes
    <3> QED
      BY <3>4, <3>5, <3>6 DEF Inv
  <2>3. CASE UNCHANGED vars
    <3>1. cfg' = cfg /\ request' = request /\ reply' = reply
      BY <2>3 DEF vars
    <3>2. RegisterRoutes(request)' = RegisterRoutes(request)
      BY <3>1
      DEF RegisterRoutes, CORS, checkOrigin, Authenticate, authenticateWebSocket,
          websocketToken, WellFormed, Identified, Refused, ParseAccessToken,
          ParseErrors, ClaimErrors
    <3> QED
      BY <3>1, <3>2 DEF Inv, TypeOK, ServesLoaded, RepliesByRoutes, Problematic
  <2> QED
    BY <2>1, <2>2, <2>3 DEF Next
<1> QED
  BY <1>1, <1>2, PTL DEF Spec

\* Types are kept: every request gets one of the answers the routes have.
THEOREM AccessTyping == Spec => []TypeOK
<1>1. Inv => TypeOK
  BY DEF Inv
<1> QED
  BY <1>1, AccessInvariance, PTL

\* A request that was let in carries a token for that user that is valid now and
\* was signed with the configured secret, which under every configuration that
\* starts is not empty, short or of the template, nor is the issuer
\* (config.go:125-133, jwt.go:40-87).
THEOREM Genuineness == Spec => []ServedUsersAreGenuine
<1>1. Inv => ServedUsersAreGenuine
  <2> SUFFICES ASSUME Inv, reply # None, reply.error = None, request.route # "health"
               PROVE  \E token \in Carried(request) \ {None} :
                          /\ Genuine(token, reply.user)
                          /\ token.key \in Secrets /\ token.issuer \in Issuers
    BY DEF ServedUsersAreGenuine
  <2>1. cfg # None /\ request \in Request /\ reply = RegisterRoutes(request)
    BY AccessAssumption DEF Inv, TypeOK, RepliesByRoutes
  <2>2. PICK token \in Carried(request) \ {None} : Genuine(token, reply.user)
    BY <2>1, RoutesAnswer
  <2>3. token.key \in Secrets /\ token.issuer \in Issuers
    BY <2>1, <2>2, LoadedIsNoTemplate DEF Inv, Genuine
  <2> QED
    BY <2>2, <2>3
<1> QED
  BY <1>1, AccessInvariance, PTL

\* The handshake and the middleware agree on who calls (auth.go:18-55,
\* handlers_chat.go:82-136).
THEOREM Agreement == Spec => []HandshakeAgrees
<1>1. Inv => HandshakeAgrees
  <2> SUFFICES ASSUME Inv, request # None, request.header # None
               PROVE  \/ Authenticate(request).user = authenticateWebSocket(request).user
                      \/ Authenticate(request).user = None /\ request.header.padded
    BY DEF HandshakeAgrees
  <2>1. cfg # None /\ request \in Request
    BY AccessAssumption DEF Inv, RepliesByRoutes
  <2> QED
    BY <2>1, MiddlewareAnswers, HandshakeAnswers DEF Inv
<1> QED
  BY <1>1, AccessInvariance, PTL

\* Both paths say that a token expired for the same reason (jwt.go:63-67).
THEOREM Expiry == Spec => []ExpiredMeansRefresh
<1>1. Inv => ExpiredMeansRefresh
  <2> SUFFICES ASSUME Inv, request # None, request.header # None, WellFormed(request.header)
               PROVE  /\ authenticateWebSocket(request).error = "expired_token" <=>
                             Old(request.header.token)
                      /\ Authenticate(request).error = "expired_token" <=>
                             Old(request.header.token) /\ ~request.header.padded
    BY DEF ExpiredMeansRefresh, Old
  <2>1. cfg # None /\ request \in Request
    BY AccessAssumption DEF Inv, RepliesByRoutes
  <2> QED
    BY <2>1, MiddlewareAnswers, HandshakeAnswers DEF Inv
<1> QED
  BY <1>1, AccessInvariance, PTL

\* Under every configuration the upgrader lets pass what CORS lets pass, but
\* for pages of the service's own host (cors.go:14-17, websocket.go:172-187).
THEOREM Pages == Spec => []OriginsAgree
<1>1. OriginsAgree
  BY DEF OriginsAgree, CORS, checkOrigin
<1> QED
  BY <1>1, PTL
==============================================================================
