------------------------------- MODULE MCAccess -------------------------------
(* The TLC instance of Access: tokens with one flaw or two, in every place.   *)
EXTENDS Access

CONSTANTS u1, u2, shared, otherSecret, issuer, otherIssuer

\* What the auth service signs.
Good(user) == [key |-> shared, issuer |-> issuer, exp |-> "future",
               early |-> FALSE, subject |-> user]

MCTokens ==
    {Good(u1), Good(u2), Good("")}
        \cup {[Good(u1) EXCEPT !.key = key, !.issuer = iss] :
                  key \in {otherSecret, "short"}, iss \in {issuer, otherIssuer}}
        \cup {[Good(u1) EXCEPT !.key = key] : key \in {"placeholder", None}}
        \cup {[Good(u1) EXCEPT !.exp = exp, !.early = early] :
                  exp \in {"none", "past"}, early \in BOOLEAN}
        \cup {[Good(u1) EXCEPT !.issuer = iss, !.exp = exp] :
                  iss \in {otherIssuer, "placeholder"}, exp \in {"past", "future"}}
        \cup {[Good(u1) EXCEPT !.early = TRUE],
              [Good(u1) EXCEPT !.key = otherSecret, !.exp = "past"],
              [Good(u1) EXCEPT !.key = "placeholder", !.exp = "past"],
              [Good(u1) EXCEPT !.key = "placeholder", !.issuer = "placeholder"]}

Call(route, header, access_token, token, origin) ==
    [route |-> route, origin |-> origin, header |-> header,
     access_token |-> access_token, token |-> token]

Headers == [scheme: {"bearer", "other"}, padded: BOOLEAN, token: MCTokens \cup {None}]
Queries == MCTokens \cup {None}

\* Every header, with and without a token in the query; every pair of tokens in
\* the query; every origin with a good token.
MCRequests ==
    {Call(route, header, query, None, None) :
        route \in {"protected", "socket"}, header \in Headers,
        query \in {None, Good(u2), [Good(u2) EXCEPT !.exp = "past"]}}
    \cup {Call("socket", None, a, b, None) : a \in Queries, b \in Queries}
    \cup {Call(route, None, a, None, origin) :
            route \in {"health", "protected", "socket", "nowhere"},
            a \in {None, Good(u1)}, origin \in Origin \cup {None}}
    \cup {Call(route, [scheme |-> "bearer", padded |-> FALSE, token |-> Good(u1)],
               None, None, origin) :
            route \in {"health", "protected", "socket", "nowhere"},
            origin \in Origin \cup {None}}
==============================================================================
