------------------------------- MODULE HttpApi -------------------------------
(***************************************************************************)
(* A request on its way through the router: the Compress middleware, the   *)
(* route, RequireAuth, the handler that reads the body, the service, the   *)
(* response.  What the services do is in the other modules; here a call    *)
(* of one has any of the outcomes that its handler tells apart.            *)
(***************************************************************************)
EXTENDS Naturals, Sequences

CONSTANTS
    Requests,       \* what clients send
    Owner,          \* whose session a token is: a user, None, or Failing
    None,
    Failing,        \* the sessions cannot be read
    MaxBody         \* the limit for bodies

VARIABLES
    request,
    pc,             \* the next step
    user,           \* handler.UserID, if the route needs one
    call,           \* the call of a service: the user, and what is asked for
    outcome,        \* what it returned
    status          \* the status of the response

vars == <<request, pc, user, call, outcome, status>>
-----------------------------------------------------------------------------
Routes == {"register", "login", "submit", "orders", "balance", "withdraw", "withdrawals",
           "health"}
Public == {"register", "login", "health"}
WithBody == {"register", "login", "submit", "withdraw"}

\* GET stands for HEAD too, which a GET route takes.
MethodOf(route) == IF route \in WithBody THEN "POST" ELSE "GET"

\* Two routes have the path orders; the others have one of their own.
Paths == (Routes \ {"submit"}) \cup {"unknown"}
RouteOf(r) == IF r.path = "orders" /\ r.method = "POST" THEN "submit" ELSE r.path

\* A body: a document of some length and what follows it, piece by piece; no data
\* follow an empty one.  "fields" has what the handler looks for; submit takes any text
\* that is not empty, and data that follow are a part of it.  cut is an error of the
\* reader.
Documents == [document : {"empty", "malformed", "fields", "no fields"}, length : Nat,
           trailing : Seq({"space", "data"}), cut : BOOLEAN]

\* Authorization is a sequence of values, each with its token or without one.
ConstantsAssumption ==
    /\ MaxBody \in Nat
    /\ Requests \subseteq
          [path : Paths, method : {"GET", "POST"}, known : BOOLEAN,
           authorization : Seq(DOMAIN Owner \cup {None}), cookie : DOMAIN Owner \cup {None},
           body : Documents]
    /\ \A r \in Requests : r.body.document = "empty" =>
          \A k \in DOMAIN r.body.trailing : r.body.trailing[k] = "space"
-----------------------------------------------------------------------------
\* What the services return, and the status that a handler makes of it.
Outcomes(route) ==
    CASE route = "register" -> {"done", "invalid", "taken", "failed"}
      [] route = "login" -> {"done", "invalid", "unauthenticated", "failed"}
      [] route = "submit" -> {"created", "done", "invalid number", "foreign", "failed"}
      [] route \in {"orders", "withdrawals"} -> {"done", "nothing", "failed"}
      [] route = "balance" -> {"done", "failed"}
      [] route = "withdraw" -> {"done", "invalid number", "invalid sum", "withdrawn",
                                "insufficient", "failed"}
      [] route = "health" -> {"done"}

StatusOf(o) ==
    CASE o = "done" -> 200
      [] o = "created" -> 202
      [] o = "nothing" -> 204
      [] o = "invalid" -> 400
      [] o = "unauthenticated" -> 401
      [] o = "insufficient" -> 402
      [] o \in {"taken", "foreign"} -> 409
      [] o \in {"invalid number", "invalid sum", "withdrawn"} -> 422
      [] OTHER -> 500
-----------------------------------------------------------------------------
(***************************************************************************)
(* Faults: a plausible mistake in the code each.  They are no part of the  *)
(* specification; they show what the properties below detect.              *)
(***************************************************************************)
\* The second Decode is left out: what follows the document is ignored.
RestFirst(body) == 0
-----------------------------------------------------------------------------
Init ==
    /\ request \in Requests
    /\ pc = "compress"
    /\ user = None
    /\ call = None
    /\ outcome = "none"
    /\ status = 0

Answered(code) == pc' = "answered" /\ status' = code

Goto(step) == pc' = step /\ UNCHANGED status

\* Compress: known says whether it knows the coding of the body.
Decompress ==
    /\ pc = "compress"
    /\ IF request.known THEN Goto("route") ELSE Answered(415)
    /\ UNCHANGED <<request, user, call, outcome>>

\* The ServeMux with the patterns of NewRouter.
Route ==
    /\ pc = "route"
    /\ LET route == RouteOf(request)
       IN  CASE route = "unknown" -> Answered(404)
             [] route \in Routes /\ request.method # MethodOf(route) -> Answered(405)
             [] OTHER -> Goto(IF route \in Public THEN "body" ELSE "authenticate")
    /\ UNCHANGED <<request, user, call, outcome>>

\* requestToken and bearerToken: one well-formed Authorization, or the cookie.
Token(r) ==
    IF Len(r.authorization) = 1 /\ r.authorization[1] # None
    THEN r.authorization[1] ELSE r.cookie

RequireAuth ==
    /\ pc = "authenticate"
    /\ LET token == Token(request)
           owner == IF token = None THEN None ELSE Owner[token]
       IN  /\ user' = IF owner = Failing THEN None ELSE owner
           /\ CASE owner = None -> Answered(401)
                [] owner = Failing -> Answered(500)
                [] OTHER -> Goto("body")
    /\ UNCHANGED <<request, call, outcome>>

\* How much of what follows the document is looked at.
Rest(body) == Len(body.trailing)

\* The bodies that handlers accept: MaxBytesReader gives an error for whatever
\* is too long, ReadAll and the second Decode find it and anything that follows.
Readable(route, body) ==
    /\ ~body.cut
    /\ body.length + Rest(body) <= MaxBody
    /\ IF route = "submit"
       THEN body.document # "empty"
       ELSE body.document = "fields" /\ \A k \in 1..Rest(body) : body.trailing[k] = "space"

ReadBody ==
    /\ pc = "body"
    /\ IF RouteOf(request) \in WithBody => Readable(RouteOf(request), request.body)
       THEN Goto("serve") ELSE Answered(400)
    /\ UNCHANGED <<request, user, call, outcome>>

\* The handler calls its service.
Serve ==
    /\ pc = "serve"
    /\ call' = <<user, RouteOf(request)>>
    /\ outcome' \in Outcomes(RouteOf(request))
    /\ Goto("answer")
    /\ UNCHANGED <<request, user>>

Respond ==
    /\ pc = "answer"
    /\ Answered(StatusOf(outcome))
    /\ UNCHANGED <<request, user, call, outcome>>

Next == Decompress \/ Route \/ RequireAuth \/ ReadBody \/ Serve \/ Respond

Spec == Init /\ [][Next]_vars
-----------------------------------------------------------------------------
\* The tokens that a request presents, and its whole body.
Presented == {request.authorization[k] : k \in DOMAIN request.authorization}
                \cup {request.cookie}

\* A request that is refused has no effect, and a client can tell: a service is
\* called only when the request has been read to its end and found whole, within
\* the limit and with nothing after it, and for a user whose token it presents; so
\* also not if two Authorization headers contradict each other and there is no
\* cookie.  2xx is done and only done, 500 a failure of the database and nothing
\* else, so 4xx is the client's own matter and has changed nothing.
RefusedWithoutEffect ==
    LET route == RouteOf(request) IN
    /\ call # None =>
          /\ route \notin Public =>
                /\ \E t \in Presented \ {None} : Owner[t] = call[1]
                /\ Len(request.authorization) <= 1 \/ request.cookie # None
          /\ route \in WithBody =>
                /\ request.body.document # "empty" /\ ~request.body.cut
                /\ request.body.length + Len(request.body.trailing) <= MaxBody
                /\ route # "submit" =>
                      /\ request.body.document = "fields"
                      /\ \A k \in DOMAIN request.body.trailing : request.body.trailing[k] # "data"
    /\ pc = "answered" =>
          /\ status \in 200..299 <=> outcome \in {"done", "created", "nothing"}
          /\ status = 500 => outcome = "failed" \/ call = None
          /\ outcome = "failed" => status = 500
=============================================================================
