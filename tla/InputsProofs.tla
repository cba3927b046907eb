---------------------------- MODULE InputsProofs ----------------------------
(***************************************************************************)
(* Proofs about Inputs.tla for every set of inputs, every limit and every  *)
(* size of the integers.  Each unit has an invariant of its own: a request *)
(* to the API, a response of the accrual service, the settings, the body   *)
(* of a request, an order number and a sum, in this order.                 *)
(***************************************************************************)
EXTENDS Inputs, TLAPS, WellFoundedInduction

-----------------------------------------------------------------------------
(***************************************************************************)
(* Numbers.  Induction is by a least counterexample.                       *)
(***************************************************************************)
LEMMA LeastNumber ==
    ASSUME NEW T, T \subseteq Nat, T # {} PROVE \E x \in T : \A y \in T : x <= y
<1> DEFINE R == OpToRel(<, Nat)
<1>1. IsWellFoundedOn(R, Nat)
  BY NatLessThanWellFounded
<1>2. \A x, y \in Nat : <<y, x>> \in R <=> y < x
  BY DEF OpToRel
<1> HIDE DEF R
<1>3. PICK x \in T : \A y \in T : <<y, x>> \notin R
  BY <1>1, WFMin
<1>4. ASSUME NEW y \in T PROVE x <= y
  <2>1. x \in Nat /\ y \in Nat /\ ~(y < x)
    BY <1>2, <1>3
  <2> QED
    BY <2>1
<1> QED
  BY <1>4

LEMMA GreatestNumber ==
    ASSUME NEW n \in Nat, NEW T, T \subseteq 1..n, T # {}
    PROVE  G!Max(T) \in T /\ \A y \in T : y <= G!Max(T)
<1> DEFINE U == {n - t : t \in T}
<1>1. U \subseteq Nat /\ U # {}
  OBVIOUS
<1>2. PICK u \in U : \A y \in U : u <= y
  <2> HIDE DEF U
  <2> QED
    BY <1>1, LeastNumber
<1>3. PICK t \in T : u = n - t
  OBVIOUS
<1>4. ASSUME NEW y \in T PROVE y <= t
  <2>1. n - t <= n - y
    BY <1>2, <1>3
  <2>2. t \in Int /\ y \in Int
    OBVIOUS
  <2> QED
    BY <2>1, <2>2
<1>5. \E x \in T : \A y \in T : x >= y
  BY <1>3, <1>4
<1> QED
  BY <1>5 DEF G!Max

-----------------------------------------------------------------------------
(***************************************************************************)
(* A request to the API.                                                   *)
(***************************************************************************)
\* The user of the request has a session whose token the request presents.
Authentic ==
    A!RouteOf(request) \notin A!Public =>
        /\ \E t \in A!Presented \ {None} : Owner[t] = user
        /\ Len(request.authorization) <= 1 \/ request.cookie # None

\* The handler has the whole of a body in order.
Whole ==
    A!RouteOf(request) \in A!WithBody => A!Readable(A!RouteOf(request), request.body)

\* How far a request has come, and what is known by then.
RequestInv ==
    /\ request \in ApiRequests
    /\ pc \in {"compress", "route", "authenticate", "body", "serve", "answer", "answered"}
    /\ pc \in {"compress", "route", "authenticate", "body", "serve"} =>
          call = None /\ outcome = "none"
    /\ pc \in {"authenticate", "body", "serve", "answer"} => A!RouteOf(request) \in A!Routes
    /\ pc \in {"body", "serve", "answer"} => Authentic
    /\ pc \in {"serve", "answer"} => Whole
    /\ pc = "answer" =>
          call = <<user, A!RouteOf(request)>> /\ outcome \in A!Outcomes(A!RouteOf(request))
    /\ A!RefusedWithoutEffect

LEMMA RequestBegins == A!Init => RequestInv
BY DEF A!Init, RequestInv, A!RefusedWithoutEffect

\* An answer given before a service is called.
LEMMA AnsweredEarly ==
    ASSUME NEW code \in {400, 401, 404, 405, 415, 500}, A!Answered(code),
           call = None, outcome = "none", UNCHANGED <<request, call, outcome>>,
           request \in ApiRequests
    PROVE  RequestInv'
BY DEF A!Answered, RequestInv, A!RefusedWithoutEffect

\* A body that can be read is a whole document, within the limit, and nothing.
LEMMA ReadableIsWhole ==
    ASSUME request \in ApiRequests, Whole, A!RouteOf(request) \in A!WithBody
    PROVE  /\ request.body.document # "empty" /\ ~request.body.cut
           /\ request.body.length + Len(request.body.trailing) <= MaxBody
           /\ A!RouteOf(request) # "submit" =>
                 /\ request.body.document = "fields"
                 /\ \A k \in DOMAIN request.body.trailing : request.body.trailing[k] # "data"
<1>1. request.body.trailing \in Seq({"space", "data"})
  BY InputsAssumption DEF A!ConstantsAssumption, A!Documents
<1> QED
  BY <1>1 DEF Whole, A!Readable, A!Rest

LEMMA RequestDecompress == RequestInv /\ A!Decompress => RequestInv'
<1> SUFFICES ASSUME RequestInv, A!Decompress PROVE RequestInv'
  OBVIOUS
<1>1. /\ request \in ApiRequests /\ pc = "compress" /\ call = None /\ outcome = "none"
      /\ UNCHANGED <<request, user, call, outcome>>
  BY DEF RequestInv, A!Decompress
<1>2. CASE A!Answered(415)
  BY <1>1, <1>2, AnsweredEarly
<1>3. CASE pc' = "route"
  BY <1>1, <1>3 DEF RequestInv, A!RefusedWithoutEffect
<1> QED
  BY <1>2, <1>3 DEF A!Decompress, A!Goto

LEMMA RequestRoute == RequestInv /\ A!Route => RequestInv'
<1> SUFFICES ASSUME RequestInv, A!Route PROVE RequestInv'
  OBVIOUS
<1>1. /\ request \in ApiRequests /\ pc = "route" /\ call = None /\ outcome = "none"
      /\ UNCHANGED <<request, user, call, outcome>>
  BY DEF RequestInv, A!Route
<1>2. A!RouteOf(request) \in A!Routes \cup {"unknown"}
  BY <1>1, InputsAssumption DEF A!ConstantsAssumption, A!RouteOf, A!Paths, A!Routes
<1>3. CASE A!Answered(404) \/ A!Answered(405)
  BY <1>1, <1>3, AnsweredEarly
<1>4. CASE /\ pc' = IF A!RouteOf(request) \in A!Public THEN "body" ELSE "authenticate"
           /\ A!RouteOf(request) \in A!Routes /\ UNCHANGED status
  BY <1>1, <1>4 DEF RequestInv, A!RefusedWithoutEffect, Authentic
<1> QED
  BY <1>2, <1>3, <1>4 DEF A!Route, A!Goto

LEMMA RequestAuthenticate == RequestInv /\ A!RequireAuth => RequestInv'
<1> SUFFICES ASSUME RequestInv, A!RequireAuth PROVE RequestInv'
  OBVIOUS
<1> DEFINE token == A!Token(request)
           owner == IF token = None THEN None ELSE Owner[token]
<1>1. /\ request \in ApiRequests /\ pc = "authenticate" /\ call = None /\ outcome = "none"
      /\ UNCHANGED <<request, call, outcome>>
      /\ A!RouteOf(request) \in A!Routes
  BY DEF RequestInv, A!RequireAuth
<1>0. request.authorization \in Seq(DOMAIN Owner \cup {None})
  BY <1>1, InputsAssumption DEF A!ConstantsAssumption
<1>2. CASE A!Answered(401) \/ A!Answered(500)
  BY <1>1, <1>2, AnsweredEarly
<1>3. CASE owner \notin {None, Failing} /\ pc' = "body" /\ user' = owner
  <2>1. token # None /\ Owner[token] = user'
    BY <1>3
  <2>2. token \in A!Presented
    <3>1. Len(request.authorization) = 1 => 1 \in DOMAIN request.authorization
      BY <1>0
    <3> QED
      BY <3>1 DEF A!Token, A!Presented
  <2>3. Len(request.authorization) <= 1 \/ request.cookie # None
    <3>1. CASE Len(request.authorization) = 1
      BY <3>1
    <3>2. CASE Len(request.authorization) # 1
      BY <2>1, <3>2 DEF A!Token
    <3> QED
      BY <3>1, <3>2
  <2>4. Authentic'
    <3>1. token \in (A!Presented \ {None})' /\ Owner[token] = user'
      BY <1>1, <2>1, <2>2 DEF A!Presented
    <3> QED
      BY <1>1, <2>3, <3>1 DEF Authentic
  <2> QED
    BY <1>1, <1>3, <2>4 DEF RequestInv, A!RefusedWithoutEffect
<1> QED
  BY <1>2, <1>3 DEF A!RequireAuth, A!Goto

LEMMA RequestReadBody == RequestInv /\ A!ReadBody => RequestInv'
<1> SUFFICES ASSUME RequestInv, A!ReadBody PROVE RequestInv'
  OBVIOUS
<1>1. /\ request \in ApiRequests /\ pc = "body" /\ call = None /\ outcome = "none"
      /\ UNCHANGED <<request, user, call, outcome>>
      /\ A!RouteOf(request) \in A!Routes /\ Authentic
  BY DEF RequestInv, A!ReadBody
<1>2. CASE A!Answered(400)
  BY <1>1, <1>2, AnsweredEarly
<1>3. CASE Whole /\ pc' = "serve"
  <2>1. Whole' /\ Authentic' /\ (A!RouteOf(request) \in A!Routes)'
    BY <1>1, <1>3 DEF Whole, Authentic, A!Presented
  <2> QED
    BY <1>1, <1>3, <2>1 DEF RequestInv, A!RefusedWithoutEffect
<1> QED
  BY <1>2, <1>3 DEF A!ReadBody, A!Goto, Whole

LEMMA RequestServe == RequestInv /\ A!Serve => RequestInv'
<1> SUFFICES ASSUME RequestInv, A!Serve PROVE RequestInv'
  OBVIOUS
<1>1. /\ request \in ApiRequests /\ pc = "serve" /\ pc' = "answer"
      /\ UNCHANGED <<request, user>>
      /\ call' = <<user, A!RouteOf(request)>> /\ outcome' \in A!Outcomes(A!RouteOf(request))
      /\ A!RouteOf(request) \in A!Routes /\ Authentic /\ Whole
  BY DEF RequestInv, A!Serve, A!Goto
<1>2. Whole' /\ Authentic' /\ (A!RouteOf(request) \in A!Routes)'
  BY <1>1 DEF Whole, Authentic, A!Presented
<1>3. A!RefusedWithoutEffect'
  <2>1. A!RouteOf(request) \in A!WithBody =>
           /\ request.body.document # "empty" /\ ~request.body.cut
           /\ request.body.length + Len(request.body.trailing) <= MaxBody
           /\ A!RouteOf(request) # "submit" =>
                 /\ request.body.document = "fields"
                 /\ \A k \in DOMAIN request.body.trailing : request.body.trailing[k] # "data"
    BY <1>1, ReadableIsWhole
  <2> QED
    BY <1>1, <2>1 DEF A!RefusedWithoutEffect, Authentic, A!Presented
<1> HIDE DEF Whole, Authentic
<1> QED
  BY <1>1, <1>2, <1>3 DEF RequestInv

\* Outcomes with an effect, or with nothing to show, and refusals.
Effects == {"done", "created", "nothing"}
Refusals == {"invalid", "unauthenticated", "insufficient", "taken", "foreign",
             "invalid number", "invalid sum", "withdrawn"}

LEMMA StatusOfEffect == \A o \in Effects : A!StatusOf(o) \in {200, 202, 204}
<1>1. A!StatusOf("done") = 200
  BY DEF A!StatusOf
<1>2. A!StatusOf("created") = 202
  BY DEF A!StatusOf
<1>3. A!StatusOf("nothing") = 204
  BY DEF A!StatusOf
<1> QED
  BY <1>1, <1>2, <1>3 DEF Effects

LEMMA StatusOfFailure == A!StatusOf("failed") = 500
BY DEF A!StatusOf

LEMMA StatusOfRefusal == \A o \in Refusals : A!StatusOf(o) \in {400, 401, 402, 409, 422}
<1>1. /\ A!StatusOf("invalid") = 400
      /\ A!StatusOf("unauthenticated") = 401
      /\ A!StatusOf("insufficient") = 402
  BY DEF A!StatusOf
<1>2. A!StatusOf("taken") = 409 /\ A!StatusOf("foreign") = 409
  BY DEF A!StatusOf
<1>3. /\ A!StatusOf("invalid number") = 422
      /\ A!StatusOf("invalid sum") = 422
      /\ A!StatusOf("withdrawn") = 422
  BY DEF A!StatusOf
<1>4. ASSUME NEW o \in Refusals PROVE A!StatusOf(o) \in {400, 401, 402, 409, 422}
  <2>1. CASE o \in {"invalid", "unauthenticated", "insufficient"}
    BY <1>1, <2>1
  <2>2. CASE o \in {"taken", "foreign"}
    BY <1>2, <2>2
  <2>3. CASE o \in {"invalid number", "invalid sum", "withdrawn"}
    BY <1>3, <2>3, ZenonT(60)
  <2> QED
    BY <1>4, <2>1, <2>2, <2>3, ZenonT(60) DEF Refusals
<1> QED
  BY <1>4

LEMMA RequestRespond == RequestInv /\ A!Respond => RequestInv'
<1> SUFFICES ASSUME RequestInv, A!Respond PROVE RequestInv'
  OBVIOUS
<1>1. /\ request \in ApiRequests /\ pc = "answer" /\ pc' = "answered"
      /\ status' = A!StatusOf(outcome)
      /\ UNCHANGED <<request, user, call, outcome>>
      /\ outcome \in A!Outcomes(A!RouteOf(request)) /\ A!RouteOf(request) \in A!Routes
  BY DEF RequestInv, A!Respond, A!Answered
<1>2. /\ outcome \in Effects <=> status' \in 200..299
      /\ status' = 500 => outcome = "failed"
      /\ outcome = "failed" => status' = 500
  <2>1. CASE outcome \in Effects
    <3>1. status' \in {200, 202, 204}
      BY <1>1, <2>1, StatusOfEffect
    <3>2. status' \in 200..299 /\ status' # 500
      BY <3>1
    <3>3. outcome # "failed"
      BY <2>1 DEF Effects
    <3> QED
      BY <2>1, <3>2, <3>3
  <2>2. CASE outcome = "failed"
    <3>1. status' = 500
      BY <1>1, <2>2, StatusOfFailure
    <3>2. status' \notin 200..299 /\ outcome \notin Effects
      BY <2>2, <3>1 DEF Effects
    <3> QED
      BY <2>2, <3>1, <3>2
  <2>3. CASE outcome \in Refusals
    <3>1. status' \in {400, 401, 402, 409, 422}
      BY <1>1, <2>3, StatusOfRefusal
    <3>2. status' \notin 200..299 /\ status' # 500
      BY <3>1
    <3>3. outcome \notin Effects /\ outcome # "failed"
      BY <2>3 DEF Effects, Refusals
    <3> QED
      BY <3>2, <3>3
  <2>4. outcome \in Effects \/ outcome = "failed" \/ outcome \in Refusals
    BY <1>1 DEF A!Outcomes, A!Routes, Effects, Refusals
  <2> QED
    BY <2>1, <2>2, <2>3, <2>4
<1>3. A!RefusedWithoutEffect'
  BY <1>1, <1>2 DEF Effects, RequestInv, A!RefusedWithoutEffect, A!Presented
<1> QED
  BY <1>1, <1>3 DEF RequestInv
-----------------------------------------------------------------------------
(***************************************************************************)
(* A response of the accrual service.                                      *)
(***************************************************************************)
\* The duration of a 429 ends when it asks, or after the longest pause there is.
LongEnough ==
    /\ outcome.wait \in Nat /\ C!Asked \in Int
    /\ now + outcome.wait >= C!Min({C!Asked, received + C!Longest * Second})

\* What arrived is one of the responses, and is no later than now.
ResponseInv ==
    /\ pc \in {"asking", "answered", "done", "silent"}
    /\ now \in Nat /\ received \in Nat /\ received <= now
    /\ pc = "answered" => response \in C!Responses
    /\ pc = "done" /\ outcome.kind = "limited" => LongEnough
    /\ C!OnlySoundVerdicts
    /\ C!SilentAsAsked

LEMMA MinOfTwo ==
    ASSUME NEW a \in Int, NEW b \in Int PROVE C!Min({a, b}) = IF a <= b THEN a ELSE b
<1> DEFINE m == IF a <= b THEN a ELSE b
<1>1. m \in {a, b} /\ \A y \in {a, b} : m <= y
  OBVIOUS
<1>2. \A x \in {a, b} : (\A y \in {a, b} : x <= y) => x = m
  OBVIOUS
<1> QED
  BY <1>1, <1>2 DEF C!Min

LEMMA ResponseTypes ==
    ASSUME NEW r \in C!Responses
    PROVE  /\ r.status \in {200, 204, 429, 500}
           /\ r.status = 200 =>
                 /\ r.body.object \in C!Objects \cup {None}
                 /\ r.body.length \in Nat /\ r.body.trailing \in Seq({"space", "data"})
           /\ r.status = 429 => r.retry \in C!Header
<1>1. Bodies \subseteq C!Body /\ Retries \subseteq C!Header
  BY InputsAssumption DEF C!InputsAssumption
<1> QED
  BY <1>1 DEF C!Responses, C!Body

\* A body that decode believes is sound: what it has read is all there is.
LEMMA DecodedIsSound ==
    ASSUME NEW b, b.object \in C!Objects \cup {None}, b.length \in Nat,
           b.trailing \in Seq({"space", "data"}),
           C!Decoded(b) # C!Failed
    PROVE  C!Sound(b) /\ C!Decoded(b) = C!Result(b.object)
<1>1. MaxBody \in Nat /\ MaxAnswer \in Nat /\ MaxAccrual \in Nat /\ Other \notin Statuses
  BY InputsAssumption DEF A!ConstantsAssumption, C!ConstantsAssumption
<1>2. /\ ~(C!Read(b) > MaxAnswer)
      /\ b.object # None
      /\ "data" \notin C!Range(SubSeq(b.trailing, 1, C!Read(b) - b.length))
      /\ b.object.order = number /\ b.object.status \in Statuses
      /\ C!ValidAccrual(b.object.accrual)
      /\ C!Decoded(b) = C!Result(b.object)
  BY DEF C!Decoded
<1>3. Len(b.trailing) \in Nat
  OBVIOUS
<1>4. C!Read(b) = b.length + Len(b.trailing) /\ b.length + Len(b.trailing) <= MaxAnswer
  <2>1. b.length + Len(b.trailing) \in Int /\ MaxAnswer + 1 \in Int
    BY <1>1, <1>3
  <2>2. C!Read(b) = IF b.length + Len(b.trailing) <= MaxAnswer + 1
                    THEN b.length + Len(b.trailing) ELSE MaxAnswer + 1
    BY <2>1, MinOfTwo DEF C!Read
  <2> QED
    BY <1>1, <1>2, <1>3, <2>1, <2>2
<1>5. \A k \in DOMAIN b.trailing : b.trailing[k] # "data"
  <2>1. SubSeq(b.trailing, 1, C!Read(b) - b.length) = b.trailing
    BY <1>3, <1>4
  <2> QED
    BY <1>2, <2>1 DEF C!Range
<1>6. b.object.accrual # None => b.object.accrual \in 0..MaxAccrual - 1
  <2>1. b.object.accrual \in Int \cup {None}
    BY <1>2 DEF C!Objects
  <2> QED
    BY <1>1, <1>2, <2>1 DEF C!ValidAccrual
<1> QED
  BY <1>1, <1>2, <1>4, <1>5, <1>6 DEF C!Sound

\* A duration that an int64 holds does not wrap.
LEMMA WrappedKeeps ==
    ASSUME NEW n \in Nat, n <= MaxInt, MaxInt \in Nat PROVE C!Wrapped(n) = n
<1>1. (n + MaxInt + 1) % (2 * (MaxInt + 1)) = n + MaxInt + 1
  <2> DEFINE m == n + MaxInt + 1
             d == 2 * (MaxInt + 1)
  <2>1. m \in Nat /\ d \in Nat \ {0} /\ m < d
    OBVIOUS
  <2>2. m % d = m
    <3> HIDE DEF m, d
    <3> QED
      BY <2>1
  <2> QED
    BY <2>2
<1> QED
  BY <1>1 DEF C!Wrapped

\* The longest pause and the default one, in nanoseconds.
LEMMA Durations ==
    /\ MaxInt \in Nat /\ Second \in Nat /\ MaxRetry \in Nat /\ DefaultRetry \in Nat
    /\ MaxRetry * Second \in Nat /\ MaxRetry * Second <= MaxInt
    /\ DefaultRetry * Second \in Nat /\ DefaultRetry * Second <= MaxInt
BY InputsAssumption DEF C!ConstantsAssumption

LEMMA TimesGrow ==
    ASSUME NEW a \in Nat, NEW b \in Nat, a <= b PROVE a * Second \in Nat /\ a * Second <= b * Second
<1>1. Second \in Nat
  BY Durations
<1>2. PICK d \in Nat : b = a + d
  <2>1. b - a \in Nat /\ b = a + (b - a)
    OBVIOUS
  <2> QED
    BY <2>1
<1>3. a * Second \in Nat /\ d * Second \in Nat
  BY <1>1
<1>4. (a + d) * Second = a * Second + d * Second
  BY <1>1
<1> QED
  BY <1>2, <1>3, <1>4

\* What retryAfter returns for each kind of header.
LEMMA RetryOfSeconds ==
    ASSUME NEW h \in C!Header, h.kind = "seconds", h.seconds \in 0..MaxInt, NEW t \in Nat
    PROVE  LET n == IF h.seconds > MaxRetry THEN MaxRetry ELSE h.seconds
           IN  n \in Nat /\ n <= MaxRetry /\ C!RetryAfter(h, t) = n * Second
<1> DEFINE n == IF h.seconds > MaxRetry THEN MaxRetry ELSE h.seconds
<1>1. n \in Nat /\ n <= MaxRetry
  BY Durations
<1>2. n * Second \in Nat /\ n * Second <= MaxInt
  <2>1. n * Second \in Nat /\ n * Second <= MaxRetry * Second
    <3> HIDE DEF n
    <3> QED
      BY <1>1, Durations, TimesGrow
  <2> HIDE DEF n
  <2> QED
    BY <2>1, Durations
<1>3. C!RetryAfter(h, t) = C!Wrapped(n * Second)
  BY DEF C!RetryAfter, C!Capped
<1>4. C!Wrapped(n * Second) = n * Second
  BY <1>2, WrappedKeeps, Durations
<1> QED
  BY <1>1, <1>3, <1>4

LEMMA RetryOfDate ==
    ASSUME NEW h \in C!Header, h.kind = "date", NEW t \in Nat
    PROVE  C!RetryAfter(h, t) = IF h.at > t THEN C!Min({h.at - t, MaxInt}) ELSE 0
<1>1. h.kind # "seconds"
  OBVIOUS
<1> QED
  BY <1>1 DEF C!RetryAfter

LEMMA RetryOtherwise ==
    ASSUME NEW h \in C!Header, h.kind # "date",
           ~(h.kind = "seconds" /\ h.seconds \in 0..MaxInt), NEW t \in Nat
    PROVE  C!RetryAfter(h, t) = DefaultRetry * Second
BY DEF C!RetryAfter

\* Whatever the header is, the pause that starts now is long enough.
LEMMA RetryIsLongEnough ==
    ASSUME NEW t \in Nat, received \in Nat, received <= t, response.retry \in C!Header
    PROVE  /\ C!RetryAfter(response.retry, t) \in Nat /\ C!Asked \in Int
           /\ t + C!RetryAfter(response.retry, t)
                 >= C!Min({C!Asked, received + C!Longest * Second})
<1> DEFINE h == response.retry
           wait == C!RetryAfter(h, t)
           longest == received + C!Longest * Second
<1>1. /\ longest \in Nat
      /\ longest = received + (IF h.kind = "seconds" /\ h.seconds > MaxInt
                               THEN DefaultRetry * Second ELSE MaxRetry * Second)
  BY Durations DEF C!Longest
<1>2. CASE h.kind = "seconds" /\ h.seconds \in 0..MaxInt
  <2> DEFINE n == IF h.seconds > MaxRetry THEN MaxRetry ELSE h.seconds
  <2>1. n \in Nat /\ n <= MaxRetry /\ wait = n * Second
    BY <1>2, RetryOfSeconds
  <2>2. C!Asked = received + h.seconds * Second /\ longest = received + MaxRetry * Second
    BY <1>1, <1>2, Durations DEF C!Asked
  <2>3. h.seconds \in Nat /\ h.seconds * Second \in Nat /\ wait \in Nat
    <3>1. h.seconds \in Nat
      BY <1>2
    <3> HIDE DEF n, wait, h
    <3> QED
      BY <3>1, <2>1, Durations
  <2>4. wait = h.seconds * Second \/ wait = MaxRetry * Second
    BY <2>1
  <2>5. C!Asked \in Int /\ (t + wait >= C!Asked \/ t + wait >= longest)
    <3> HIDE DEF n, wait, h
    <3> QED
      BY <2>2, <2>3, <2>4, Durations
  <2> HIDE DEF n, wait, h, longest
  <2>6. t + wait >= C!Min({C!Asked, longest})
    BY <1>1, <2>3, <2>5, MinOfTwo
  <2> QED
    BY <2>3, <2>5, <2>6 DEF wait, h, longest
<1>3. CASE h.kind = "date"
  <2>0. longest = received + MaxRetry * Second
    BY <1>1, <1>3
  <2>1. C!Asked = h.at /\ h.at \in Nat
    <3>1. h.kind # "seconds"
      BY <1>3
    <3>2. h.at \in Nat
      BY <1>3 DEF C!Header
    <3> QED
      BY <1>3, <3>1, <3>2 DEF C!Asked
  <2>2. wait = IF h.at > t THEN C!Min({h.at - t, MaxInt}) ELSE 0
    BY <1>3, RetryOfDate
  <2> HIDE DEF wait, h
  <2>3. wait \in Nat /\ (t + wait >= h.at \/ t + wait >= longest)
    <3>1. CASE h.at > t
      <4>1. wait = IF h.at - t <= MaxInt THEN h.at - t ELSE MaxInt
        BY <2>1, <2>2, <3>1, MinOfTwo, Durations
      <4> QED
        BY <2>0, <2>1, <3>1, <4>1, Durations
    <3>2. CASE ~(h.at > t)
      BY <2>1, <2>2, <3>2
    <3> QED
      BY <3>1, <3>2
  <2> HIDE DEF longest
  <2>4. t + wait >= C!Min({C!Asked, longest})
    BY <1>1, <2>1, <2>3, MinOfTwo
  <2> QED
    BY <2>1, <2>3, <2>4 DEF wait, h, longest
<1>4. CASE h.kind # "date" /\ ~(h.kind = "seconds" /\ h.seconds \in 0..MaxInt)
  <2>1. wait = DefaultRetry * Second /\ wait \in Nat
    BY <1>4, RetryOtherwise, Durations
  <2>2. C!Asked \in Int /\ (C!Asked = received + DefaultRetry * Second
                              \/ longest = received + DefaultRetry * Second)
    <3>1. CASE h.kind = "seconds" /\ h.seconds >= 0
      <4>1. h.seconds \in Int
        BY <3>1 DEF C!Header
      <4>2. h.seconds > MaxInt
        BY <1>4, <3>1, <4>1, Durations
      <4>3. C!Asked = received + h.seconds * Second
        BY <3>1 DEF C!Asked
      <4> QED
        BY <1>1, <3>1, <4>1, <4>2, <4>3, Durations
    <3>2. CASE ~(h.kind = "seconds" /\ h.seconds >= 0)
      BY <1>4, <3>2, Durations DEF C!Asked
    <3> QED
      BY <3>1, <3>2
  <2> HIDE DEF wait, h, longest
  <2>3. t + wait >= C!Min({C!Asked, longest})
    BY <1>1, <2>1, <2>2, MinOfTwo, Durations
  <2> QED
    BY <2>1, <2>2, <2>3 DEF wait, h, longest
<1> QED
  BY <1>2, <1>3, <1>4

LEMMA ResponseBegins == C!Init => ResponseInv
<1>1. Times \subseteq Nat
  BY InputsAssumption DEF C!ConstantsAssumption
<1> QED
  BY <1>1 DEF C!Init, ResponseInv, C!OnlySoundVerdicts, C!SilentAsAsked

LEMMA ResponseAnswer ==
    ASSUME ResponseInv, NEW r \in C!Responses, C!Answer(r)
    PROVE  ResponseInv'
BY DEF ResponseInv, C!Answer, C!OnlySoundVerdicts, C!SilentAsAsked

LEMMA ResponseFail ==
    ASSUME ResponseInv, C!Fail
    PROVE  ResponseInv'
BY DEF ResponseInv, C!Fail, C!Failed, C!OnlySoundVerdicts, C!SilentAsAsked

\* An error decides nothing and asks for nothing.
LEMMA ResponseFailed ==
    ASSUME ResponseInv, C!Fetch, outcome' = C!Failed PROVE ResponseInv'
BY DEF ResponseInv, C!Fetch, C!Failed, C!OnlySoundVerdicts, C!SilentAsAsked

LEMMA ResponseFetch ==
    ASSUME ResponseInv, C!Fetch
    PROVE  ResponseInv'
<1>1. /\ pc = "answered" /\ pc' = "done" /\ response \in C!Responses
      /\ UNCHANGED <<now, number, response, received, until>>
      /\ now \in Nat /\ received \in Nat /\ received <= now
  BY DEF ResponseInv, C!Fetch
<1>2. CASE outcome' = C!Failed
  BY <1>2, ResponseFailed
<1>3. CASE outcome' = C!Interpreted(response, now)
  <2>1. CASE response.status = 200
    <3>1. outcome' = C!Decoded(response.body)
      BY <1>3, <2>1 DEF C!Interpreted
    <3>2. CASE outcome' # C!Failed
      <4>1. C!Sound(response.body) /\ outcome' = C!Result(response.body.object)
        BY <1>1, <2>1, <3>1, <3>2, ResponseTypes, DecodedIsSound
      <4>2. C!OnlySoundVerdicts'
        BY <1>1, <2>1, <4>1 DEF C!OnlySoundVerdicts, C!Sound, C!Result
      <4> QED
        BY <1>1, <4>1, <4>2 DEF ResponseInv, C!Result, C!SilentAsAsked
    <3> QED
      BY <1>2, <3>2
  <2>2. CASE response.status = 204
    <3>1. outcome' = C!Unregistered
      BY <1>3, <2>2 DEF C!Interpreted
    <3> QED
      BY <1>1, <2>2, <3>1 DEF ResponseInv, C!Unregistered, C!OnlySoundVerdicts, C!SilentAsAsked
  <2>3. CASE response.status = 429
    <3> DEFINE wait == C!RetryAfter(response.retry, now)
    <3>1. outcome' = C!Limited(wait)
      BY <1>3, <2>3 DEF C!Interpreted
    <3>2. response.retry \in C!Header
      BY <1>1, <2>3, ResponseTypes
    <3>3. /\ wait \in Nat /\ C!Asked \in Int
          /\ now + wait >= C!Min({C!Asked, received + C!Longest * Second})
      BY <1>1, <3>2, RetryIsLongEnough
    <3> HIDE DEF wait
    <3>4. C!Asked' = C!Asked /\ C!Longest' = C!Longest
      BY <1>1 DEF C!Asked, C!Longest
    <3>5. LongEnough'
      BY <1>1, <3>1, <3>3, <3>4 DEF LongEnough, C!Limited
    <3>6. C!OnlySoundVerdicts'
      BY <1>1, <3>1 DEF C!OnlySoundVerdicts, C!Limited
    <3> QED
      BY <1>1, <3>5, <3>6 DEF ResponseInv, C!SilentAsAsked
  <2>4. CASE response.status = 500
    BY <1>2, <1>3, <2>4 DEF C!Interpreted
  <2> QED
    BY <1>1, <2>1, <2>2, <2>3, <2>4, ResponseTypes
<1> QED
  BY <1>2, <1>3 DEF C!Fetch

LEMMA ResponsePause ==
    ASSUME ResponseInv, C!Pause
    PROVE  ResponseInv'
<1>1. /\ pc = "done" /\ outcome.kind = "limited" /\ pc' = "silent"
      /\ until' = now + outcome.wait
      /\ UNCHANGED <<now, number, response, received, outcome>>
      /\ now \in Nat /\ received \in Nat /\ received <= now /\ LongEnough
  BY DEF ResponseInv, C!Pause
<1>2. C!Asked' = C!Asked /\ C!Longest' = C!Longest
  BY <1>1 DEF C!Asked, C!Longest
<1>3. C!SilentAsAsked'
  BY <1>1, <1>2 DEF C!SilentAsAsked, LongEnough
<1>4. C!OnlySoundVerdicts'
  BY <1>1 DEF C!OnlySoundVerdicts
<1> QED
  BY <1>1, <1>3, <1>4 DEF ResponseInv

\* Time only makes the silence longer.
LEMMA ResponseElapse ==
    ASSUME ResponseInv, NEW t \in Times, C!Elapse(t) PROVE ResponseInv'
<1>1. Times \subseteq Nat
  BY InputsAssumption DEF C!ConstantsAssumption
<1>2. /\ now' \in Nat /\ now' > now /\ received <= now'
      /\ UNCHANGED <<pc, number, response, received, outcome, until>>
  BY <1>1 DEF ResponseInv, C!Elapse
<1>3. C!Asked' = C!Asked /\ C!Longest' = C!Longest
  BY <1>2 DEF C!Asked, C!Longest
<1>4. C!OnlySoundVerdicts' /\ C!SilentAsAsked'
  BY <1>2, <1>3 DEF ResponseInv, C!OnlySoundVerdicts, C!SilentAsAsked, C!Sound
<1>5. LongEnough => LongEnough'
  <2> SUFFICES ASSUME LongEnough PROVE LongEnough'
    OBVIOUS
  <2> DEFINE bound == C!Min({C!Asked, received + C!Longest * Second})
  <2>1. outcome.wait \in Nat /\ C!Asked \in Int /\ now + outcome.wait >= bound
    BY DEF LongEnough
  <2>2. bound \in Int
    BY <2>1, MinOfTwo, Durations DEF ResponseInv, C!Longest
  <2> QED
    BY <1>2, <1>3, <2>1, <2>2 DEF LongEnough, ResponseInv
<1> QED
  BY <1>2, <1>4, <1>5 DEF ResponseInv
-----------------------------------------------------------------------------
(***************************************************************************)
(* A configuration.                                                        *)
(***************************************************************************)
\* What loadFile lets through.
Loaded == start.file \in {"ok", "empty"} \/ (start.file = "missing" /\ ~start.path)

\* The settings are those of the sources from n on.
SettledFrom(n) == \A s \in F!Settings : F!Prevails(cfg[s], s, n)

\* After each step the settings are those of the sources read so far, and what has
\* been found in order is.
StartInv ==
    /\ start \in Starts
    /\ cfg \in [F!Settings -> F!Values]
    /\ pc \in {"flags", "file", "environment", "explicit flags", "check", "client",
               "connect", "failed", "ended"}
    /\ pc \in {"flags", "file"} => SettledFrom(4)
    /\ pc = "environment" => SettledFrom(3)
    /\ pc = "explicit flags" => SettledFrom(2)
    /\ pc \in {"check", "client", "connect"} => SettledFrom(1)
    /\ pc \notin {"flags", "failed", "ended"} => start.line = "ok"
    /\ pc \notin {"flags", "file", "failed", "ended"} => Loaded
    /\ pc \in {"client", "connect"} => cfg["database"] # "" /\ cfg["run"] \notin {"", "bad"}
    /\ pc = "connect" => cfg["accrual"] \notin {"", "bad"}
    /\ F!ConnectedAsConfigured

LEMMA StartTypes ==
    ASSUME start \in Starts
    PROVE  /\ start.line \in F!CommandLines /\ start.file \in F!Files
           /\ start.flags \in [F!Settings -> F!Values \cup {Absent}]
           /\ start.env \in [F!Settings -> F!Values \cup {Absent}]
           /\ start.yaml \in [F!Settings -> F!Values \cup {Absent}]
           /\ Absent \notin F!Values
BY InputsAssumption DEF F!StartsAssumption, F!Sources

\* The default is the least important source.
LEMMA DefaultPrevails ==
    ASSUME start \in Starts, NEW s \in F!Settings
    PROVE  F!Prevails(IF s = "run" THEN "default" ELSE "", s, 4)
<1> DEFINE v == IF s = "run" THEN "default" ELSE ""
<1>1. v = F!Offers(s)[4]
  BY DEF F!Offers
<1>2. v # Absent
  BY StartTypes DEF F!Values, F!Good
<1>3. 4 \in 4..4 /\ \A j \in 4..4 - 1 : F!Offers(s)[j] = Absent
  OBVIOUS
<1> HIDE DEF v
<1>4. F!Prevails(v, s, 4)
  BY <1>1, <1>2, <1>3 DEF F!Prevails
<1> QED
  BY <1>4 DEF v

\* A source over the less important ones: what it has prevails, or what they have.
LEMMA NextSourcePrevails ==
    ASSUME NEW s, NEW n \in 1..3, NEW v, F!Prevails(v, s, n + 1)
    PROVE  F!Prevails(IF F!Offers(s)[n] = Absent THEN v ELSE F!Offers(s)[n], s, n)
<1>1. CASE F!Offers(s)[n] # Absent
  BY <1>1 DEF F!Prevails
<1>2. CASE F!Offers(s)[n] = Absent
  <2>1. PICK k \in n + 1..4 : /\ v = F!Offers(s)[k] /\ v # Absent
                              /\ \A j \in n + 1..k - 1 : F!Offers(s)[j] = Absent
    BY DEF F!Prevails
  <2>2. k \in n..4 /\ \A j \in n..k - 1 : F!Offers(s)[j] = Absent
    <3>1. \A j \in n..k - 1 : j = n \/ j \in n + 1..k - 1
      OBVIOUS
    <3> QED
      BY <1>2, <2>1, <3>1
  <2> QED
    BY <1>2, <2>1, <2>2 DEF F!Prevails
<1> QED
  BY <1>1, <1>2

\* Only one value prevails.
LEMMA OnePrevails ==
    ASSUME NEW s, NEW n \in 1..4, NEW v, NEW w, F!Prevails(v, s, n), F!Prevails(w, s, n)
    PROVE  v = w
<1>1. PICK k \in n..4 : /\ v = F!Offers(s)[k] /\ v # Absent
                        /\ \A j \in n..k - 1 : F!Offers(s)[j] = Absent
  BY DEF F!Prevails
<1>2. PICK l \in n..4 : /\ w = F!Offers(s)[l] /\ w # Absent
                        /\ \A j \in n..l - 1 : F!Offers(s)[j] = Absent
  BY DEF F!Prevails
<1>3. ~(k < l) /\ ~(l < k)
  <2>1. k < l => k \in n..l - 1
    OBVIOUS
  <2>2. l < k => l \in n..k - 1
    OBVIOUS
  <2> QED
    BY <1>1, <1>2, <2>1, <2>2
<1>4. k = l
  BY <1>3
<1> QED
  BY <1>1, <1>2, <1>4

\* Reading the n-th source over what the less important ones say.
LEMMA SourceSettles ==
    ASSUME start \in Starts, UNCHANGED start, NEW n \in 1..3, SettledFrom(n + 1),
           \A s \in F!Settings : cfg'[s] = IF F!Offers(s)[n] = Absent THEN cfg[s]
                                          ELSE F!Offers(s)[n]
    PROVE  SettledFrom(n)'
<1>1. ASSUME NEW s \in F!Settings PROVE F!Prevails(cfg'[s], s, n)
  <2>1. F!Prevails(cfg[s], s, n + 1)
    BY DEF SettledFrom
  <2>2. F!Prevails(IF F!Offers(s)[n] = Absent THEN cfg[s] ELSE F!Offers(s)[n], s, n)
    BY <2>1, NextSourcePrevails
  <2> QED
    BY <2>2
<1>2. ASSUME NEW s PROVE F!Offers(s)' = F!Offers(s)
  BY DEF F!Offers
<1> QED
  BY <1>1, <1>2 DEF SettledFrom, F!Prevails

\* The sources of the program do not change.
LEMMA SourcesStay ==
    ASSUME UNCHANGED start, NEW n
    PROVE  /\ UNCHANGED cfg => (SettledFrom(n)' <=> SettledFrom(n))
           /\ Loaded' <=> Loaded
           /\ \A v, s : F!Prevails(v, s, n)' <=> F!Prevails(v, s, n)
<1>1. ASSUME NEW s PROVE F!Offers(s)' = F!Offers(s)
  BY DEF F!Offers
<1>2. ASSUME NEW v, NEW s PROVE F!Prevails(v, s, n)' <=> F!Prevails(v, s, n)
  BY <1>1 DEF F!Prevails
<1>3. Loaded' <=> Loaded
  BY DEF Loaded
<1>4. UNCHANGED cfg => (SettledFrom(n)' <=> SettledFrom(n))
  BY <1>1 DEF SettledFrom, F!Prevails
<1> QED
  BY <1>2, <1>3, <1>4

LEMMA StartBegins == F!Init => StartInv
<1> SUFFICES ASSUME F!Init PROVE StartInv
  OBVIOUS
<1>1. cfg \in [F!Settings -> F!Values]
  BY DEF F!Init, F!Values, F!Good
<1>2. SettledFrom(4)
  <2> SUFFICES ASSUME NEW s \in F!Settings PROVE F!Prevails(cfg[s], s, 4)
    BY DEF SettledFrom
  <2>1. cfg[s] = IF s = "run" THEN "default" ELSE ""
    BY DEF F!Init
  <2> QED
    BY <2>1, DefaultPrevails DEF F!Init
<1>3. F!ConnectedAsConfigured
  BY DEF F!Init, F!ConnectedAsConfigured
<1> QED
  BY <1>1, <1>2, <1>3 DEF F!Init, StartInv

LEMMA StartParseFlags ==
    ASSUME StartInv, F!ParseFlags
    PROVE  StartInv'
<1>1. /\ pc = "flags" /\ UNCHANGED <<start, cfg>> /\ start \in Starts
      /\ pc' \in {"ended", "failed", "file"}
      /\ pc' = "file" <=> start.line = "ok"
  <2>1. pc = "flags" /\ UNCHANGED <<start, cfg>> /\ start \in Starts
    BY DEF StartInv, F!ParseFlags, F!Step
  <2>2. start.line \in {"ok", "unknown flag", "help", "positional"}
    BY <2>1, StartTypes DEF F!CommandLines
  <2>3. CASE start.line = "ok"
    <3>1. pc' = "file"
      BY <2>3 DEF F!ParseFlags, F!Step
    <3> QED
      BY <2>1, <2>3, <3>1
  <2>4. CASE start.line = "help"
    <3>1. pc' = "ended"
      BY <2>4 DEF F!ParseFlags, F!Step
    <3> QED
      BY <2>1, <2>4, <3>1
  <2>5. CASE start.line = "unknown flag" \/ start.line = "positional"
    <3>1. pc' = "failed"
      BY <2>5 DEF F!ParseFlags, F!Step
    <3> QED
      BY <2>1, <2>5, <3>1
  <2> QED
    BY <2>2, <2>3, <2>4, <2>5
<1>2. SettledFrom(4)'
  BY <1>1, SourcesStay DEF StartInv
<1>3. F!ConnectedAsConfigured'
  <2>1. CASE pc' = "file"
    BY <2>1 DEF F!ConnectedAsConfigured
  <2>2. CASE pc' \in {"failed", "ended"} /\ start'.line # "ok"
    BY <2>2 DEF F!ConnectedAsConfigured
  <2> QED
    BY <1>1, <2>1, <2>2
<1> QED
  BY <1>1, <1>2, <1>3 DEF StartInv

LEMMA StartLoadFile ==
    ASSUME StartInv, F!LoadFile
    PROVE  StartInv'
<1>1. /\ pc = "file" /\ UNCHANGED start /\ start \in Starts /\ start.line = "ok"
      /\ SettledFrom(4) /\ cfg \in [F!Settings -> F!Values]
  BY DEF StartInv, F!LoadFile, F!Step
<1>2. cfg' \in [F!Settings -> F!Values]
  BY <1>1, StartTypes DEF F!LoadFile, F!Over
<1>3. CASE Loaded
  <2>1. pc' = "environment"
    BY <1>3 DEF F!LoadFile, F!Step, Loaded
  <2>2. ASSUME NEW s \in F!Settings
        PROVE  cfg'[s] = IF F!Offers(s)[3] = Absent THEN cfg[s] ELSE F!Offers(s)[3]
    <3>1. F!Offers(s)[3] = IF start.file = "ok" THEN start.yaml[s] ELSE Absent
      BY DEF F!Offers
    <3> QED
      BY <1>3, <3>1 DEF F!LoadFile, F!Over, Loaded
  <2>3. SettledFrom(3)'
    <3>1. 3 \in 1..3 /\ 3 + 1 = 4
      OBVIOUS
    <3> QED
      BY <1>1, <2>2, <3>1, SourceSettles
  <2>4. F!ConnectedAsConfigured'
    BY <2>1 DEF F!ConnectedAsConfigured
  <2> QED
    BY <1>1, <1>2, <1>3, <2>1, <2>3, <2>4, SourcesStay DEF StartInv
<1>4. CASE ~Loaded
  <2>1. pc' = "failed"
    BY <1>4 DEF F!LoadFile, F!Step, Loaded
  <2>2. F!ConnectedAsConfigured'
    BY <1>1, <1>4, <2>1 DEF F!ConnectedAsConfigured, Loaded
  <2> QED
    BY <1>1, <1>2, <2>1, <2>2 DEF StartInv
<1> QED
  BY <1>3, <1>4

LEMMA StartReadEnvironment ==
    ASSUME StartInv, F!ReadEnvironment
    PROVE  StartInv'
<1>1. /\ pc = "environment" /\ pc' = "explicit flags"
      /\ UNCHANGED start /\ start \in Starts /\ start.line = "ok" /\ Loaded
      /\ SettledFrom(3) /\ cfg \in [F!Settings -> F!Values]
  BY DEF StartInv, F!ReadEnvironment, F!Step
<1>2. cfg' \in [F!Settings -> F!Values]
  BY <1>1, StartTypes DEF F!ReadEnvironment, F!Over, F!Nonempty
<1>3. ASSUME NEW s \in F!Settings
      PROVE  cfg'[s] = IF F!Offers(s)[2] = Absent THEN cfg[s] ELSE F!Offers(s)[2]
  BY DEF F!ReadEnvironment, F!Over, F!Nonempty, F!Offers
<1>4. SettledFrom(2)'
  <2>1. 2 \in 1..3 /\ 2 + 1 = 3
    OBVIOUS
  <2> QED
    BY <1>1, <1>3, <2>1, SourceSettles
<1>5. F!ConnectedAsConfigured'
  BY <1>1 DEF F!ConnectedAsConfigured
<1> QED
  BY <1>1, <1>2, <1>4, <1>5, SourcesStay DEF StartInv

LEMMA StartApplyFlags ==
    ASSUME StartInv, F!ApplyFlags
    PROVE  StartInv'
<1>1. /\ pc = "explicit flags" /\ pc' = "check"
      /\ UNCHANGED start /\ start \in Starts /\ start.line = "ok" /\ Loaded
      /\ SettledFrom(2) /\ cfg \in [F!Settings -> F!Values]
  BY DEF StartInv, F!ApplyFlags, F!Step
<1>2. cfg' \in [F!Settings -> F!Values]
  BY <1>1, StartTypes DEF F!ApplyFlags, F!Over, F!Explicit
<1>3. ASSUME NEW s \in F!Settings
      PROVE  cfg'[s] = IF F!Offers(s)[1] = Absent THEN cfg[s] ELSE F!Offers(s)[1]
  BY DEF F!ApplyFlags, F!Over, F!Explicit, F!Offers
<1>4. SettledFrom(1)'
  <2>1. 1 \in 1..3 /\ 1 + 1 = 2
    OBVIOUS
  <2> QED
    BY <1>1, <1>3, <2>1, SourceSettles
<1>5. F!ConnectedAsConfigured'
  BY <1>1 DEF F!ConnectedAsConfigured
<1> QED
  BY <1>1, <1>2, <1>4, <1>5, SourcesStay DEF StartInv

LEMMA StartCheck ==
    ASSUME StartInv, F!Check
    PROVE  StartInv'
<1>1. /\ pc = "check" /\ UNCHANGED <<start, cfg>> /\ start \in Starts
      /\ start.line = "ok" /\ Loaded /\ SettledFrom(1)
  BY DEF StartInv, F!Check, F!Step
<1>2. SettledFrom(1)' /\ (Loaded)' /\ \A v, s : F!Prevails(v, s, 1)' <=> F!Prevails(v, s, 1)
  BY <1>1, SourcesStay
<1>3. /\ F!Prevails(cfg["database"], "database", 1)
      /\ F!Prevails(cfg["run"], "run", 1)
  BY <1>1 DEF SettledFrom, F!Settings
<1>4. CASE cfg["database"] = "" \/ cfg["run"] \in {"", "bad"}
  <2>1. pc' = "failed"
    BY <1>4 DEF F!Check, F!Step
  <2>2. F!Prevails("", "database", 1) \/ F!Prevails("", "run", 1) \/ F!Prevails("bad", "run", 1)
    BY <1>3, <1>4
  <2>3. F!ConnectedAsConfigured'
    BY <1>2, <2>1, <2>2 DEF F!ConnectedAsConfigured, F!Settings
  <2> QED
    BY <1>1, <2>1, <2>3 DEF StartInv
<1>5. CASE ~(cfg["database"] = "" \/ cfg["run"] \in {"", "bad"})
  <2>1. pc' = "client"
    BY <1>5 DEF F!Check, F!Step
  <2>2. F!ConnectedAsConfigured'
    BY <2>1 DEF F!ConnectedAsConfigured
  <2> QED
    BY <1>1, <1>2, <1>5, <2>1, <2>2 DEF StartInv
<1> QED
  BY <1>4, <1>5

LEMMA StartMakeClient ==
    ASSUME StartInv, F!MakeClient
    PROVE  StartInv'
<1>1. /\ pc = "client" /\ UNCHANGED <<start, cfg>> /\ start \in Starts
      /\ start.line = "ok" /\ Loaded /\ SettledFrom(1)
      /\ cfg["database"] # "" /\ cfg["run"] \notin {"", "bad"}
  BY DEF StartInv, F!MakeClient, F!Step
<1>2. SettledFrom(1)' /\ (Loaded)' /\ \A v, s : F!Prevails(v, s, 1)' <=> F!Prevails(v, s, 1)
  BY <1>1, SourcesStay
<1>3. \A s \in F!Settings : F!Prevails(cfg[s], s, 1)
  BY <1>1 DEF SettledFrom
<1>4. CASE cfg["accrual"] \in {"", "bad"}
  <2>1. pc' = "failed"
    BY <1>4 DEF F!MakeClient, F!Step
  <2>2. F!Prevails("", "accrual", 1) \/ F!Prevails("bad", "accrual", 1)
    BY <1>3, <1>4 DEF F!Settings
  <2>3. F!ConnectedAsConfigured'
    BY <1>2, <2>1, <2>2 DEF F!ConnectedAsConfigured, F!Settings
  <2> QED
    BY <1>1, <2>1, <2>3 DEF StartInv
<1>5. CASE cfg["accrual"] \notin {"", "bad"}
  <2>1. pc' = "connect"
    BY <1>5 DEF F!MakeClient, F!Step
  <2>2. ASSUME NEW s \in F!Settings, NEW v, F!Prevails(v, s, 1) PROVE v = cfg[s]
    BY <1>3, <2>2, OnePrevails
  <2>3. /\ \A s \in F!Settings : ~F!Prevails("", s, 1)
        /\ ~F!Prevails("bad", "run", 1) /\ ~F!Prevails("bad", "accrual", 1)
    <3>1. \A s \in F!Settings : cfg[s] # ""
      BY <1>1, <1>5 DEF F!Settings
    <3> QED
      BY <1>1, <1>5, <2>2, <3>1 DEF F!Settings
  <2>4. F!ConnectedAsConfigured'
    BY <1>1, <1>2, <1>3, <2>1, <2>3 DEF F!ConnectedAsConfigured, Loaded
  <2> QED
    BY <1>1, <1>2, <1>5, <2>1, <2>4 DEF StartInv
<1> QED
  BY <1>4, <1>5

LEMMA StartStutters == StartInv /\ UNCHANGED <<start, cfg, pc>> => StartInv'
<1> SUFFICES ASSUME StartInv, UNCHANGED <<start, cfg, pc>> PROVE StartInv'
  OBVIOUS
<1>1. /\ SettledFrom(1)' <=> SettledFrom(1)
      /\ SettledFrom(2)' <=> SettledFrom(2)
      /\ SettledFrom(3)' <=> SettledFrom(3)
      /\ SettledFrom(4)' <=> SettledFrom(4)
      /\ Loaded' <=> Loaded
      /\ \A n, v, s : F!Prevails(v, s, n)' <=> F!Prevails(v, s, n)
  BY SourcesStay
<1>2. F!ConnectedAsConfigured'
  BY <1>1 DEF StartInv, F!ConnectedAsConfigured
<1> QED
  BY <1>1, <1>2 DEF StartInv

-----------------------------------------------------------------------------
(***************************************************************************)
(* A compressed request.                                                   *)
(***************************************************************************)
\* Nothing is known of what arrives but what it is made of.
Arrived ==
    /\ request.method \in {"HEAD", "POST"}
    /\ request.accept \in Seq(G!Item) /\ request.codings \in Seq(STRING)
    /\ request.sent \in Seq(G!Pieces)

\* The response is compressed as the headers say.
Negotiated ==
    pc # "arrived" => (zips <=> request.method # "HEAD" /\ G!AcceptsGzip(request.accept))

LEMMA QualityIsNatural ==
    ASSUME NEW item \in G!Item
    PROVE  G!Quality(item) \in Nat
<1>1. item.found \in BOOLEAN /\ item.bad \in BOOLEAN /\ item.q \in Int
  BY DEF G!Item
<1>2. CASE ~item.found
  <2>1. G!Quality(item) = 10
    BY <1>2 DEF G!Quality
  <2> QED
    BY <2>1
<1>3. CASE item.found /\ (item.bad \/ item.q < 0)
  <2>1. G!Quality(item) = 0
    BY <1>3 DEF G!Quality
  <2> QED
    BY <2>1
<1>4. CASE item.found /\ ~(item.bad \/ item.q < 0)
  <2>1. G!Quality(item) = item.q
    BY <1>4 DEF G!Quality
  <2> QED
    BY <1>1, <1>4, <2>1
<1> QED
  BY <1>1, <1>2, <1>3, <1>4

\* The quality of a coding is that of an item that names it, or none.
LEMMA LastQualityIsOne ==
    ASSUME NEW accept \in Seq(G!Item), NEW coding
    PROVE  /\ G!Named(accept, coding) = {} => G!LastQuality(accept, coding) = -1
           /\ G!Named(accept, coding) # {} =>
                 \E k \in G!Named(accept, coding) :
                    /\ G!LastQuality(accept, coding) = G!Quality(accept[k])
                    /\ G!Quality(accept[k]) \in Nat
<1> DEFINE named == G!Named(accept, coding)
<1>1. CASE named = {}
  BY <1>1 DEF G!LastQuality
<1>2. CASE named # {}
  <2>1. Len(accept) \in Nat /\ named \subseteq 1..Len(accept)
    BY DEF G!Named
  <2>2. G!Max(named) \in named
    <3> HIDE DEF named
    <3> QED
      BY <1>2, <2>1, GreatestNumber
  <2>3. accept[G!Max(named)] \in G!Item
    BY <2>1, <2>2
  <2>4. G!LastQuality(accept, coding) = G!Quality(accept[G!Max(named)])
    BY <1>2 DEF G!LastQuality
  <2> QED
    BY <1>2, <2>2, <2>3, <2>4, QualityIsNatural
<1> QED
  BY <1>1, <1>2

LEMMA NegotiatedIsMeant == Arrived /\ Negotiated => G!NegotiatedAsMeant
<1> SUFFICES ASSUME Arrived, Negotiated, pc # "arrived"
             PROVE  G!NegotiatedAsMeant
  BY DEF G!NegotiatedAsMeant
<1> DEFINE gzip == G!Named(request.accept, "gzip")
           star == G!Named(request.accept, "*")
           deciding == IF gzip # {} THEN gzip ELSE star
           q(k) == G!Quality(request.accept[k])
           gzipQ == G!LastQuality(request.accept, "gzip")
           starQ == G!LastQuality(request.accept, "*")
<1>1. zips <=> request.method # "HEAD" /\ IF gzipQ >= 0 THEN gzipQ > 0 ELSE starQ > 0
  BY DEF Negotiated, G!AcceptsGzip, G!Decided
<1>2. /\ gzip = {} => gzipQ = -1
      /\ gzip # {} => \E k \in gzip : gzipQ = q(k) /\ q(k) \in Nat
  BY LastQualityIsOne DEF Arrived
<1>3. /\ star = {} => starQ = -1
      /\ star # {} => \E k \in star : starQ = q(k) /\ q(k) \in Nat
  BY LastQualityIsOne DEF Arrived
<1> HIDE DEF gzipQ, starQ, gzip, star, q
<1>4. (\A k \in deciding : q(k) = 0) \/ request.method = "HEAD" => ~zips
  BY <1>1, <1>2, <1>3
<1>5. deciding # {} /\ (\A k \in deciding : q(k) > 0) /\ request.method # "HEAD" => zips
  BY <1>1, <1>2, <1>3
<1> QED
  BY <1>4, <1>5 DEF G!NegotiatedAsMeant, gzip, star, q

\* A line of Content-Encoding that is empty.
Blank == ""

\* What the middleware takes for the only coding is the only one that changes a body.
LEMMA OnlyCoding ==
    ASSUME Arrived
    PROVE  /\ G!SingleContentEncoding(request.codings) \in {Blank, "identity"} =>
                 G!Codings = {}
           /\ G!SingleContentEncoding(request.codings) = "gzip" =>
                 \E c \in G!Codings : G!Codings = {c} /\ request.codings[c] = "gzip"
<1> DEFINE codings == request.codings
           n == Len(codings)
           lines == {k \in DOMAIN codings : codings[k] # Blank}
<1>1. n \in Nat /\ DOMAIN codings = 1..n
  BY DEF Arrived
<1>2. G!Codings = {k \in lines : codings[k] # "identity"}
  BY DEF G!Codings, Blank
<1>3. CASE lines = {}
  <2>1. G!SingleContentEncoding(codings) = Blank /\ Blank # "gzip"
    BY <1>3 DEF G!SingleContentEncoding, Blank
  <2> QED
    BY <1>2, <1>3, <2>1
<1>4. CASE \E g \in lines : lines = {g}
  <2>1. PICK g \in lines : lines = {g}
    BY <1>4
  <2>2. lines # {} /\ lines \subseteq 1..n
    BY <1>1, <2>1
  <2>3. G!Max(lines) = g
    <3> HIDE DEF lines, n
    <3>1. G!Max(lines) \in lines
      BY <1>1, <2>2, GreatestNumber
    <3> QED
      BY <2>1, <3>1
  <2>4. G!SingleContentEncoding(codings) = codings[g] /\ codings[g] # Blank
    BY <1>4, <2>1, <2>2, <2>3 DEF G!SingleContentEncoding, Blank
  <2>5. "gzip" # "identity"
    OBVIOUS
  <2> HIDE DEF lines, codings
  <2>6. codings[g] = "identity" => G!Codings = {}
    BY <1>2, <2>1
  <2>7. codings[g] = "gzip" => G!Codings = {g}
    BY <1>2, <2>1, <2>5
  <2> QED
    BY <2>4, <2>6, <2>7 DEF codings
<1>5. CASE lines # {} /\ ~\E g \in lines : lines = {g}
  <2>1. G!SingleContentEncoding(codings) = "several" /\ Blank # "several"
    BY <1>5 DEF G!SingleContentEncoding, Blank
  <2> QED
    BY <2>1
<1> QED
  BY <1>3, <1>4, <1>5

\* One more piece of a body, and the data among its first n pieces.
WithPiece(data, piece) == IF piece \in G!Data THEN Append(data, piece) ELSE data

DataUpTo(d, s, n) == d = [k \in 0..n |-> IF k = 0 THEN << >> ELSE WithPiece(d[k - 1], s[k])]

\* The recursion of DataOf has a solution, for every number of pieces.
LEMMA DataExist ==
    ASSUME NEW s, NEW n \in Nat PROVE \E d : DataUpTo(d, s, n)
<1> DEFINE T == {m \in Nat : ~\E d : DataUpTo(d, s, m)}
<1> SUFFICES ASSUME T # {} PROVE FALSE
  OBVIOUS
<1>1. T \subseteq Nat
  OBVIOUS
<1>2. PICK m \in T : \A y \in T : m <= y
  <2> HIDE DEF T
  <2> QED
    BY <1>1, LeastNumber
<1>3. m \in Nat /\ ~\E d : DataUpTo(d, s, m)
  OBVIOUS
<1>4. m # 0
  <2> DEFINE f == [k \in 0..0 |-> << >>]
  <2>1. f = [k \in 0..0 |-> IF k = 0 THEN << >> ELSE WithPiece(f[k - 1], s[k])]
    OBVIOUS
  <2> HIDE DEF f
  <2> QED
    BY <1>3, <2>1 DEF DataUpTo
<1>5. PICK d : DataUpTo(d, s, m - 1)
  <2>1. m - 1 \in Nat /\ ~(m <= m - 1)
    BY <1>3, <1>4
  <2> QED
    BY <1>2, <2>1
<1> DEFINE f == [k \in 0..m |-> IF k = m THEN WithPiece(d[m - 1], s[m]) ELSE d[k]]
<1>6. f = [k \in 0..m |-> IF k = 0 THEN << >> ELSE WithPiece(f[k - 1], s[k])]
  <2>1. ASSUME NEW k \in 0..m
        PROVE  f[k] = IF k = 0 THEN << >> ELSE WithPiece(f[k - 1], s[k])
    <3>1. CASE k = m
      <4>1. f[k] = WithPiece(d[k - 1], s[k]) /\ k - 1 \in 0..m /\ k - 1 # m
        BY <1>3, <1>4, <3>1
      <4>2. f[k - 1] = d[k - 1]
        BY <4>1
      <4> QED
        BY <1>4, <3>1, <4>1, <4>2
    <3>2. CASE k # m
      <4>1. k \in 0..m - 1 /\ f[k] = d[k]
        BY <1>3, <3>2
      <4>2. d[k] = IF k = 0 THEN << >> ELSE WithPiece(d[k - 1], s[k])
        BY <1>5, <4>1 DEF DataUpTo
      <4>3. k # 0 => k - 1 \in 0..m /\ k - 1 # m
        BY <1>3, <4>1
      <4> QED
        BY <4>1, <4>2, <4>3
    <3> QED
      BY <3>1, <3>2
  <2> DEFINE g == [k \in 0..m |-> IF k = 0 THEN << >> ELSE WithPiece(f[k - 1], s[k])]
  <2>2. f = g
    BY <2>1
  <2> QED
    BY <2>2
<1> HIDE DEF f
<1> QED
  BY <1>3, <1>6 DEF DataUpTo

\* The data of a body grow with each piece that is data.
LEMMA DataGrow ==
    ASSUME NEW s, Len(s) \in Nat
    PROVE  /\ G!DataOf(s)[0] = << >>
           /\ \A k \in 1..Len(s) : G!DataOf(s)[k] = WithPiece(G!DataOf(s)[k - 1], s[k])
<1> DEFINE d == CHOOSE d : DataUpTo(d, s, Len(s))
<1>1. DataUpTo(d, s, Len(s))
  BY DataExist
<1>2. G!DataOf(s) = d
  BY DEF G!DataOf, DataUpTo, WithPiece
<1> HIDE DEF d
<1>3. \A k \in 0..Len(s) : d[k] = IF k = 0 THEN << >> ELSE WithPiece(d[k - 1], s[k])
  BY <1>1 DEF DataUpTo
<1>4. 0 \in 0..Len(s) /\ \A k \in 1..Len(s) : k \in 0..Len(s) /\ k # 0
  OBVIOUS
<1> QED
  BY <1>2, <1>3, <1>4

LEMMA PrefixByPlaces ==
    ASSUME NEW Items, NEW s \in Seq(Items), NEW t \in Seq(Items), Len(s) <= Len(t),
           \A k \in 1..Len(s) : s[k] = t[k]
    PROVE  G!IsPrefix(s, t)
<1>1. Len(s) \in Nat /\ Len(t) \in Nat
  OBVIOUS
<1>2. SubSeq(s, 1, Len(s)) = SubSeq(t, 1, Len(s))
  BY <1>1
<1> QED
  BY <1>1, <1>2 DEF G!IsPrefix

\* Nothing has been read.
Unread ==
    given = <<>> /\ body = request.sent /\ gz = "none" /\ err = "none" /\ last = "none"

\* What is left is what was sent after the first n pieces.
LeftAfter(n) ==
    /\ Len(body) = Len(request.sent) - n
    /\ \A k \in 1..Len(body) : body[k] = request.sent[n + k]

\* A body without a coding is given as it is.
PlainInv ==
    /\ G!Codings = {}
    /\ Len(given) <= Len(request.sent) /\ LeftAfter(Len(given))
    /\ \A k \in 1..Len(given) : given[k] = request.sent[k]
    /\ last \in {"none", "data", "end"}
    /\ last = "end" => body = <<>>

\* Of a compressed body n pieces have been read, each of them in its place.
Inflated(n) ==
    /\ \A k \in 1..n : G!Fits(request.sent, k)
    /\ given = G!DataOf(request.sent)[n]
    /\ last = "end" => n = Len(request.sent) /\ request.sent[n] = G!StreamEnd
    /\ last \notin {"end", "error"} => LeftAfter(n) /\ request.sent[n] # G!StreamEnd

ZippedInv ==
    /\ G!SingleContentEncoding(request.codings) = "gzip"
    /\ gz \in {"none", "open"} /\ last \in {"none", "data", "end", "error"}
    /\ gz = "none" /\ err = "none" => Unread
    /\ err # "none" =>
          /\ gz = "none" /\ given = <<>> /\ last = err
          /\ err = "end" => request.sent = <<>>
    /\ gz = "open" => \E n \in 1..Len(request.sent) : Inflated(n)

BodyInv ==
    /\ Arrived /\ Negotiated
    /\ pc \in {"arrived", "handled", "refused"}
    /\ pc # "handled" => Unread
    /\ pc = "handled" =>
          /\ body \in Seq(G!Pieces) /\ given \in Seq(G!Pieces)
          /\ wrapped \in BOOLEAN
          /\ wrapped => ZippedInv
          /\ ~wrapped => PlainInv

\* The kinds of pieces are not the same.
LEMMA PiecesDiffer ==
    /\ G!StreamHead # G!StreamEnd
    /\ G!StreamHead \notin G!Data /\ G!StreamEnd \notin G!Data
BY DEF G!StreamHead, G!StreamEnd, G!Data

\* What a handler has been given of a body without a coding is what was meant.
LEMMA PlainIsMeant ==
    ASSUME Arrived, PlainInv, given \in Seq(G!Pieces), body \in Seq(G!Pieces)
    PROVE  G!ContentAsMeant
<1>1. request.sent \in Seq(G!Pieces) /\ G!Codings = {}
  BY DEF Arrived, PlainInv
<1>2. /\ Len(given) <= Len(request.sent) /\ Len(body) = Len(request.sent) - Len(given)
      /\ \A k \in 1..Len(given) : given[k] = request.sent[k]
  BY DEF PlainInv, LeftAfter
<1>3. G!IsPrefix(given, request.sent)
  BY <1>1, <1>2, PrefixByPlaces
<1>4. last = "end" => given = request.sent
  <2> SUFFICES ASSUME last = "end" PROVE given = request.sent
    OBVIOUS
  <2>1. Len(body) = 0
    BY DEF PlainInv
  <2>2. Len(given) = Len(request.sent)
    BY <1>1, <1>2, <2>1
  <2> QED
    BY <1>1, <1>2, <2>2, SMTT(60)
<1> QED
  BY <1>1, <1>3, <1>4 DEF G!ContentAsMeant

\* The same of a body that was compressed with gzip.
LEMMA ZippedIsMeant ==
    ASSUME Arrived, G!SingleContentEncoding(request.codings) = "gzip",
           NEW n \in 0..Len(request.sent),
           \A k \in 1..n : G!Fits(request.sent, k),
           given = G!DataOf(request.sent)[n],
           last = "end" => /\ n = Len(request.sent)
                           /\ n = 0 \/ request.sent[n] = G!StreamEnd
    PROVE  G!ContentAsMeant
<1>1. PICK c \in G!Codings : G!Codings = {c} /\ request.codings[c] = "gzip"
  BY OnlyCoding
<1>2. G!Codings # {}
  BY <1>1
<1> QED
  BY <1>1, <1>2 DEF G!ContentAsMeant

\* Before anything is read, and of an empty body that has ended, nothing is given.
LEMMA NothingIsMeant ==
    ASSUME Arrived, given = <<>>,
           last = "none" \/ G!SingleContentEncoding(request.codings) = "gzip",
           last = "end" => request.sent = <<>>
    PROVE  G!ContentAsMeant
<1>1. Len(request.sent) \in Nat /\ request.sent \in Seq(G!Pieces)
  BY DEF Arrived
<1>2. G!DataOf(request.sent)[0] = << >>
  BY <1>1, DataGrow
<1>3. last = "end" => 0 = Len(request.sent)
  OBVIOUS
<1>4. \E n \in 0..Len(request.sent) :
         /\ \A k \in 1..n : G!Fits(request.sent, k)
         /\ given = G!DataOf(request.sent)[n]
         /\ last = "end" => n = Len(request.sent) /\ (n = 0 \/ request.sent[n] = G!StreamEnd)
  <2>1. 0 \in 0..Len(request.sent) /\ \A k \in 1..0 : G!Fits(request.sent, k)
    BY <1>1
  <2> QED
    BY <1>2, <1>3, <2>1
<1>5. G!IsPrefix(given, request.sent)
  <2>1. /\ given \in Seq(G!Pieces) /\ Len(given) = 0 /\ Len(given) <= Len(request.sent)
        /\ \A k \in 1..Len(given) : given[k] = request.sent[k]
    BY <1>1
  <2> QED
    BY <1>1, <2>1, PrefixByPlaces
<1>6. last = "end" => given = request.sent
  OBVIOUS
<1>7. last # "none" => \E c \in G!Codings : G!Codings = {c} /\ request.codings[c] = "gzip"
  BY OnlyCoding
<1> QED
  BY <1>4, <1>5, <1>6, <1>7 DEF G!ContentAsMeant

LEMMA BodyIsMeant == BodyInv => G!ContentAsMeant
<1> SUFFICES ASSUME BodyInv PROVE G!ContentAsMeant
  OBVIOUS
<1>0. Arrived
  BY DEF BodyInv
<1>1. CASE pc # "handled"
  <2>1. given = <<>> /\ last = "none"
    BY <1>1 DEF BodyInv, Unread
  <2> QED
    BY <1>0, <2>1, NothingIsMeant
<1>2. CASE pc = "handled" /\ ~wrapped
  BY <1>2, PlainIsMeant DEF BodyInv
<1>3. CASE pc = "handled" /\ wrapped /\ gz = "open"
  <2>1. ZippedInv
    BY <1>3 DEF BodyInv
  <2>2. PICK n \in 1..Len(request.sent) : Inflated(n)
    BY <1>3, <2>1 DEF ZippedInv
  <2>3. n \in 0..Len(request.sent)
    BY <2>2 DEF Arrived
  <2> QED
    BY <1>0, <2>1, <2>2, <2>3, ZippedIsMeant DEF ZippedInv, Inflated
<1>4. CASE pc = "handled" /\ wrapped /\ gz # "open"
  <2>1. ZippedInv
    BY <1>4 DEF BodyInv
  <2>2. /\ given = <<>> /\ G!SingleContentEncoding(request.codings) = "gzip"
        /\ last = "end" => request.sent = <<>>
    BY <1>4, <2>1 DEF ZippedInv, Unread
  <2> QED
    BY <1>0, <2>2, NothingIsMeant
<1> QED
  BY <1>1, <1>2, <1>3, <1>4

LEMMA BodyBegins == G!Init => BodyInv
<1> SUFFICES ASSUME G!Init PROVE BodyInv
  OBVIOUS
<1>1. Arrived
  BY InputsAssumption DEF G!RequestsAssumption, G!Init, Arrived
<1>2. Unread /\ pc = "arrived"
  BY DEF G!Init, Unread
<1> QED
  BY <1>1, <1>2 DEF BodyInv, Negotiated

LEMMA BodyCompress == BodyInv /\ G!Compress => BodyInv'
<1> SUFFICES ASSUME BodyInv, G!Compress PROVE BodyInv'
  OBVIOUS
<1> DEFINE encoding == G!SingleContentEncoding(request.codings)
<1>1. /\ Arrived /\ Unread
      /\ UNCHANGED <<request, body, gz, err, given, last, reads>>
      /\ zips' = (request.method # "HEAD" /\ G!AcceptsGzip(request.accept))
      /\ wrapped' = (encoding = "gzip")
  BY DEF BodyInv, G!Compress
<1>2. (pc' = "handled" /\ encoding \in {Blank, "identity", "gzip"}) \/ pc' = "refused"
  BY DEF G!Compress, Blank
<1>3. Arrived' /\ Unread' /\ Negotiated'
  BY <1>1 DEF Arrived, Unread, Negotiated
<1>4. CASE pc' = "refused"
  BY <1>3, <1>4 DEF BodyInv
<1>5. CASE pc' = "handled" /\ encoding \in {Blank, "identity", "gzip"}
  <2>1. request.sent \in Seq(G!Pieces) /\ <<>> \in Seq(G!Pieces)
    BY <1>1 DEF Arrived
  <2>2. CASE encoding = "gzip"
    <3>1. ZippedInv'
      BY <1>1, <1>3, <2>2 DEF ZippedInv, Unread
    <3> QED
      BY <1>1, <1>3, <1>5, <2>1, <2>2, <3>1 DEF BodyInv, Unread
  <2>3. CASE encoding # "gzip"
    <3>1. G!Codings'= {}
      BY <1>1, <1>5, <2>3, OnlyCoding DEF G!Codings
    <3>2. (Len(given) = 0)' /\ LeftAfter(0)'
      BY <1>1, <2>1 DEF LeftAfter, Unread
    <3>3. PlainInv'
      BY <1>1, <2>1, <3>1, <3>2 DEF PlainInv, Unread
    <3> QED
      BY <1>1, <1>3, <1>5, <2>1, <2>3, <3>3 DEF BodyInv, Unread
  <2> QED
    BY <2>2, <2>3
<1> QED
  BY <1>2, <1>4, <1>5

\* One more piece is taken.
LEMMA LeftMoves ==
    ASSUME NEW n \in Nat, LeftAfter(n), request.sent \in Seq(G!Pieces),
           body \in Seq(G!Pieces), body # <<>>, body' = Tail(body), UNCHANGED request
    PROVE  /\ LeftAfter(n + 1)' /\ (body \in Seq(G!Pieces))'
           /\ n + 1 \in 1..Len(request.sent) /\ body[1] = request.sent[n + 1]
<1>1. Len(body) \in Nat \ {0} /\ Len(request.sent) \in Nat
  OBVIOUS
<1>2. /\ body' \in Seq(G!Pieces) /\ Len(body') = Len(body) - 1
      /\ \A k \in 1..Len(body) - 1 : body'[k] = body[k + 1]
  BY <1>1
<1>3. Len(body) = Len(request.sent) - n /\ \A k \in 1..Len(body) : body[k] = request.sent[n + k]
  BY DEF LeftAfter
<1>4. ASSUME NEW k \in 1..Len(body') PROVE body'[k] = request'.sent[(n + 1) + k]
  <2>1. body'[k] = body[k + 1] /\ k + 1 \in 1..Len(body)
    BY <1>1, <1>2
  <2>2. (n + 1) + k = n + (k + 1)
    BY <1>1, <1>2
  <2> QED
    BY <1>3, <2>1, <2>2
<1>5. Len(body') = Len(request'.sent) - (n + 1)
  BY <1>1, <1>2, <1>3
<1> QED
  BY <1>1, <1>2, <1>3, <1>4, <1>5 DEF LeftAfter

LEMMA BodyReadPlain ==
    ASSUME BodyInv, pc = "handled", ~wrapped, G!ReadPlain,
           UNCHANGED <<request, pc, zips, wrapped>>
    PROVE  BodyInv'
<1>1. /\ Arrived /\ Negotiated /\ PlainInv
      /\ body \in Seq(G!Pieces) /\ given \in Seq(G!Pieces) /\ request.sent \in Seq(G!Pieces)
  BY DEF BodyInv, Arrived
<1>2. Arrived' /\ Negotiated' /\ G!Codings' = {}
  BY <1>1 DEF Arrived, Negotiated, PlainInv, G!Codings
<1>3. PlainInv' /\ (body \in Seq(G!Pieces))' /\ (given \in Seq(G!Pieces))'
  <2>1. CASE body = <<>> /\ last' = "end" /\ UNCHANGED <<given, body>>
    BY <1>1, <1>2, <2>1 DEF PlainInv, LeftAfter
  <2>2. CASE body # <<>> /\ last' = "data" /\ given' = Append(given, body[1]) /\ body' = Tail(body)
    <3>1. PICK n \in Nat : n = Len(given)
      BY <1>1
    <3>2. LeftAfter(n)
      BY <1>1, <3>1 DEF PlainInv
    <3>3. /\ LeftAfter(n + 1)' /\ (body \in Seq(G!Pieces))'
          /\ n + 1 \in 1..Len(request.sent) /\ body[1] = request.sent[n + 1]
      BY <1>1, <2>2, <3>2, LeftMoves
    <3>4. /\ given' \in Seq(G!Pieces) /\ Len(given') = n + 1
          /\ \A k \in 1..n + 1 : given'[k] = IF k <= n THEN given[k] ELSE body[1]
      BY <1>1, <2>2, <3>1, SMTT(60)
    <3>5. \A k \in 1..Len(given') : given'[k] = request'.sent[k]
      <4>1. request' = request /\ \A k \in 1..n : given[k] = request.sent[k]
        BY <1>1, <3>1 DEF PlainInv
      <4>2. \A k \in 1..n + 1 : IF k <= n THEN k \in 1..n ELSE k = n + 1
        BY <3>1
      <4> QED
        BY <3>3, <3>4, <4>1, <4>2
    <3>6. LeftAfter(Len(given))' /\ Len(given') <= Len(request'.sent)
      BY <1>1, <3>3, <3>4 DEF LeftAfter
    <3> QED
      BY <1>2, <2>2, <3>3, <3>4, <3>5, <3>6 DEF PlainInv
  <2> QED
    BY <2>1, <2>2 DEF G!ReadPlain
<1> QED
  BY <1>1, <1>2, <1>3 DEF BodyInv

LEMMA BodyReadFirst ==
    ASSUME BodyInv, pc = "handled", wrapped, G!ReadFirst,
           UNCHANGED <<request, pc, zips, wrapped>>
    PROVE  BodyInv'
<1>1. /\ Arrived /\ Negotiated /\ ZippedInv
      /\ body \in Seq(G!Pieces) /\ given \in Seq(G!Pieces) /\ request.sent \in Seq(G!Pieces)
      /\ gz = "none" /\ err = "none" /\ Unread /\ given' = given
  BY DEF BodyInv, ZippedInv, Arrived, G!ReadFirst
<1>2. Arrived' /\ Negotiated'
  BY <1>1 DEF Arrived, Negotiated
<1>3. (body \in Seq(G!Pieces))' /\ (given \in Seq(G!Pieces))'
  BY <1>1 DEF G!ReadFirst
<1>4. ZippedInv'
  <2>1. CASE body # <<>> /\ body[1] = G!StreamHead
    <3>1. gz' = "open" /\ last' = "none" /\ err' = "none" /\ body' = Tail(body)
      BY <1>1, <2>1 DEF G!ReadFirst
    <3>2. LeftAfter(0) /\ body[1] = request.sent[1]
      BY <1>1, <2>1 DEF LeftAfter, Unread
    <3>3. LeftAfter(1)' /\ 1 \in 1..Len(request.sent)
      <4>1. LeftAfter(0 + 1)' /\ 0 + 1 \in 1..Len(request.sent)
        BY <1>1, <2>1, <3>1, <3>2, LeftMoves
      <4> QED
        BY <4>1
    <3>4. G!Fits(request.sent, 1) /\ request.sent[1] # G!StreamEnd
      BY <2>1, <3>2, PiecesDiffer DEF G!Fits
    <3>5. given = G!DataOf(request.sent)[1]
      <4>1. /\ G!DataOf(request.sent)[0] = << >>
            /\ G!DataOf(request.sent)[1] = WithPiece(G!DataOf(request.sent)[1 - 1], request.sent[1])
        BY <1>1, <3>3, DataGrow
      <4> QED
        BY <1>1, <2>1, <3>2, <4>1, PiecesDiffer DEF WithPiece, Unread
    <3>6. Inflated(1)'
      BY <1>1, <3>1, <3>3, <3>4, <3>5 DEF Inflated
    <3> QED
      BY <1>1, <3>1, <3>3, <3>6 DEF ZippedInv
  <2>2. CASE ~(body # <<>> /\ body[1] = G!StreamHead)
    <3>1. /\ last' = IF body = <<>> THEN "end" ELSE "error"
          /\ err' = last' /\ gz' = gz
      BY <2>2 DEF G!ReadFirst, G!Kept
    <3> QED
      BY <1>1, <3>1 DEF ZippedInv, Unread
  <2> QED
    BY <2>1, <2>2
<1> QED
  BY <1>1, <1>2, <1>3, <1>4 DEF BodyInv

LEMMA BodyReadFailed ==
    ASSUME BodyInv, pc = "handled", wrapped, G!ReadFailed,
           UNCHANGED <<request, pc, zips, wrapped>>
    PROVE  BodyInv'
<1>1. Arrived' /\ Negotiated'
  BY DEF BodyInv, Arrived, Negotiated, G!ReadFailed
<1>2. ZippedInv'
  BY DEF BodyInv, ZippedInv, G!ReadFailed
<1> QED
  BY <1>1, <1>2 DEF BodyInv, G!ReadFailed

\* The next piece fits when it is read.
LEMMA NextPiece ==
    ASSUME Arrived, NEW n \in 1..Len(request.sent), n + 1 \in 1..Len(request.sent),
           \A k \in 1..n : G!Fits(request.sent, k),
           IF request.sent[n] = G!StreamEnd
           THEN request.sent[n + 1] = G!StreamHead
           ELSE request.sent[n + 1] \in G!Data \cup {G!StreamEnd}
    PROVE  /\ \A k \in 1..n + 1 : G!Fits(request.sent, k)
           /\ G!DataOf(request.sent)[n + 1]
                 = WithPiece(G!DataOf(request.sent)[n], request.sent[n + 1])
<1>1. n \in Nat \ {0} /\ Len(request.sent) \in Nat /\ (n + 1) - 1 = n /\ n + 1 # 1
  BY DEF Arrived
<1>2. G!Fits(request.sent, n + 1)
  BY <1>1 DEF G!Fits
<1>3. \A k \in 1..n + 1 : k \in 1..n \/ k = n + 1
  BY <1>1
<1>4. G!DataOf(request.sent)[n + 1]
         = WithPiece(G!DataOf(request.sent)[(n + 1) - 1], request.sent[n + 1])
  BY <1>1, DataGrow
<1> QED
  BY <1>1, <1>2, <1>3, <1>4

LEMMA BodyReadZipped ==
    ASSUME BodyInv, pc = "handled", wrapped, G!ReadZipped,
           UNCHANGED <<request, pc, zips, wrapped>>
    PROVE  BodyInv'
<1>1. /\ Arrived /\ Negotiated /\ ZippedInv
      /\ body \in Seq(G!Pieces) /\ given \in Seq(G!Pieces) /\ request.sent \in Seq(G!Pieces)
      /\ gz = "open" /\ err = "none" /\ UNCHANGED <<gz, err>>
  BY DEF BodyInv, ZippedInv, Arrived, G!ReadZipped
<1>2. Arrived' /\ Negotiated'
  BY <1>1 DEF Arrived, Negotiated
<1>3. PICK n \in 1..Len(request.sent) : Inflated(n)
  BY <1>1 DEF ZippedInv
<1>4. n \in Nat /\ Len(request.sent) \in Nat
  BY <1>1, <1>3
\* Going on from the n pieces that were read.
<1>5. ASSUME NEW m \in 1..Len(request.sent), Inflated(m)',
             (body \in Seq(G!Pieces))', (given \in Seq(G!Pieces))',
             last' \in {"none", "data", "end", "error"}
      PROVE  BodyInv'
  <2>1. ZippedInv'
    BY <1>1, <1>5 DEF ZippedInv
  <2> QED
    BY <1>1, <1>2, <1>5, <2>1 DEF BodyInv
<1>6. CASE last \in {"error", "end"} /\ UNCHANGED <<last, given, body>>
  <2>1. Inflated(n)'
    BY <1>3, <1>6 DEF Inflated, LeftAfter
  <2> QED
    BY <1>1, <1>3, <1>5, <1>6, <2>1
<1>7. CASE /\ last \notin {"error", "end"} /\ body = <<G!StreamEnd>>
           /\ last' = "end" /\ body' = <<>> /\ UNCHANGED given
  <2>1. body # <<>> /\ body' = Tail(body) /\ body[1] = G!StreamEnd /\ Len(body) = 1
    BY <1>7
  <2>2. LeftAfter(n) /\ request.sent[n] # G!StreamEnd
    BY <1>3, <1>7 DEF Inflated
  <2>3. /\ (body \in Seq(G!Pieces))' /\ n + 1 \in 1..Len(request.sent)
        /\ request.sent[n + 1] = G!StreamEnd
    BY <1>1, <1>4, <2>1, <2>2, LeftMoves
  <2>4. n + 1 = Len(request.sent)
    <3>1. 1 = Len(request.sent) - n
      BY <2>1, <2>2 DEF LeftAfter
    <3> QED
      BY <1>4, <3>1
  <2>5. /\ \A k \in 1..n + 1 : G!Fits(request.sent, k)
        /\ G!DataOf(request.sent)[n + 1] = given
    BY <1>1, <1>3, <2>2, <2>3, NextPiece, PiecesDiffer DEF Inflated, WithPiece
  <2>6. Inflated(n + 1)'
    BY <1>7, <2>3, <2>4, <2>5 DEF Inflated
  <2> QED
    BY <1>1, <1>5, <1>7, <2>3, <2>6
<1>8. CASE /\ last \notin {"error", "end"}
           /\ Len(body) > 1 /\ body[1] = G!StreamEnd /\ body[2] = G!StreamHead
           /\ last' = "none" /\ body' = Tail(Tail(body)) /\ UNCHANGED given
  <2>1. body # <<>> /\ LeftAfter(n) /\ request.sent[n] # G!StreamEnd
    BY <1>1, <1>3, <1>8 DEF Inflated
  <2>2. /\ n + 1 \in 1..Len(request.sent) /\ n + 2 \in 1..Len(request.sent)
        /\ request.sent[n + 1] = G!StreamEnd /\ request.sent[n + 2] = G!StreamHead
    BY <1>1, <1>4, <1>8, <2>1 DEF LeftAfter
  <2>3. /\ \A k \in 1..n + 1 : G!Fits(request.sent, k)
        /\ G!DataOf(request.sent)[n + 1] = given
    BY <1>1, <1>3, <2>1, <2>2, NextPiece, PiecesDiffer DEF Inflated, WithPiece
  <2>4. /\ \A k \in 1..n + 2 : G!Fits(request.sent, k)
        /\ G!DataOf(request.sent)[n + 2] = given
    <3> DEFINE m == n + 1
    <3>1. m \in 1..Len(request.sent) /\ m + 1 = n + 2
      BY <1>4, <2>2
    <3>2. /\ request.sent[m] = G!StreamEnd /\ request.sent[m + 1] = G!StreamHead
          /\ \A k \in 1..m : G!Fits(request.sent, k)
          /\ G!DataOf(request.sent)[m] = given
          /\ m + 1 \in 1..Len(request.sent)
      BY <2>2, <2>3, <3>1
    <3> HIDE DEF m
    <3>3. /\ \A k \in 1..m + 1 : G!Fits(request.sent, k)
          /\ G!DataOf(request.sent)[m + 1] = given
      BY <1>1, <3>1, <3>2, NextPiece, PiecesDiffer DEF WithPiece
    <3> QED
      BY <3>1, <3>3
  <2>5. LeftAfter(n + 2)' /\ (body \in Seq(G!Pieces))'
    <3>1. Len(body) \in Nat
      BY <1>1
    <3>2. /\ Tail(body) \in Seq(G!Pieces) /\ Len(Tail(body)) = Len(body) - 1
          /\ \A k \in 1..Len(body) - 1 : Tail(body)[k] = body[k + 1]
      BY <1>1, <2>1
    <3>3. PICK rest : rest = Tail(body) /\ body' = Tail(rest)
      BY <1>8
    <3>4. /\ rest \in Seq(G!Pieces) /\ Len(rest) = Len(body) - 1 /\ Len(rest) # 0
          /\ \A k \in 1..Len(body) - 1 : rest[k] = body[k + 1]
      BY <1>8, <3>1, <3>2, <3>3
    <3>5. /\ body' \in Seq(G!Pieces) /\ Len(body') = Len(rest) - 1
          /\ \A k \in 1..Len(rest) - 1 : body'[k] = rest[k + 1]
      <4>1. rest # <<>>
        BY <3>4
      <4> QED
        BY <3>3, <3>4, <4>1
    <3>6. Len(body) = Len(request.sent) - n /\ \A k \in 1..Len(body) : body[k] = request.sent[n + k]
      BY <2>1 DEF LeftAfter
    <3>7. Len(body') = Len(request'.sent) - (n + 2)
      BY <1>4, <3>1, <3>4, <3>5, <3>6
    <3>8. ASSUME NEW k \in 1..Len(body') PROVE body'[k] = request'.sent[(n + 2) + k]
      <4>1. /\ k \in 1..Len(rest) - 1 /\ k + 1 \in 1..Len(body) - 1 /\ k + 2 \in 1..Len(body)
            /\ (k + 1) + 1 = k + 2 /\ n + (k + 2) = (n + 2) + k
        BY <1>4, <3>1, <3>4, <3>5, <3>8
      <4>2. body'[k] = body[k + 2]
        BY <3>4, <3>5, <4>1
      <4> QED
        BY <3>6, <4>1, <4>2
    <3> QED
      BY <3>5, <3>7, <3>8 DEF LeftAfter
  <2>6. request.sent[n + 2] # G!StreamEnd
    BY <2>2, PiecesDiffer
  <2>7. Inflated(n + 2)'
    BY <1>8, <2>4, <2>5, <2>6 DEF Inflated
  <2> QED
    BY <1>1, <1>5, <1>8, <2>2, <2>5, <2>7
<1>9. CASE /\ last \notin {"error", "end"} /\ body # <<>> /\ body[1] \in G!Data
           /\ last' = "data" /\ given' = Append(given, body[1]) /\ body' = Tail(body)
  <2>1. LeftAfter(n) /\ request.sent[n] # G!StreamEnd
    BY <1>3, <1>9 DEF Inflated
  <2>2. /\ LeftAfter(n + 1)' /\ (body \in Seq(G!Pieces))' /\ n + 1 \in 1..Len(request.sent)
        /\ body[1] = request.sent[n + 1]
    BY <1>1, <1>4, <1>9, <2>1, LeftMoves
  <2>3. request.sent[n + 1] \in G!Data /\ request.sent[n + 1] # G!StreamEnd
    BY <1>9, <2>2, PiecesDiffer
  <2>4. /\ \A k \in 1..n + 1 : G!Fits(request.sent, k)
        /\ G!DataOf(request.sent)[n + 1] = given'
    BY <1>1, <1>3, <1>9, <2>1, <2>2, <2>3, NextPiece DEF Inflated, WithPiece
  <2>5. Inflated(n + 1)'
    BY <1>9, <2>2, <2>3, <2>4 DEF Inflated
  <2>6. (given \in Seq(G!Pieces))'
    BY <1>1, <1>9, <2>2
  <2> QED
    BY <1>1, <1>5, <1>9, <2>2, <2>5, <2>6
<1>10. CASE last \notin {"error", "end"} /\ last' = "error" /\ UNCHANGED <<given, body>>
  <2>1. Inflated(n)'
    BY <1>3, <1>10 DEF Inflated
  <2> QED
    BY <1>1, <1>3, <1>5, <1>10, <2>1
<1> HIDE DEF BodyInv
<1> QED
  BY <1>6, <1>7, <1>8, <1>9, <1>10 DEF G!ReadZipped

LEMMA BodyReadBody == BodyInv /\ G!ReadBody => BodyInv'
BY BodyReadPlain, BodyReadFirst, BodyReadFailed, BodyReadZipped DEF G!ReadBody

-----------------------------------------------------------------------------
(***************************************************************************)
(* An order number.                                                        *)
(***************************************************************************)
\* The k-th digit of s from the right, as it counts.
Worth(s, k) == N!Count(s[Len(s) + 1 - k], k)

\* The sums of the last digits of s, up to n of them.
AreSums(f, s, n) == f = [k \in 0..n |-> IF k = 0 THEN 0 ELSE f[k - 1] + Worth(s, k)]

SumsOf(s) == CHOOSE f : AreSums(f, s, Len(s))

\* The recursion of LuhnSum has a solution, for every number of digits.
LEMMA SumsExist ==
    ASSUME NEW s, NEW n \in Nat
    PROVE  \E f : AreSums(f, s, n)
<1> DEFINE T == {m \in Nat : ~\E f : AreSums(f, s, m)}
<1> SUFFICES ASSUME T # {} PROVE FALSE
  OBVIOUS
<1>1. T \subseteq Nat
  OBVIOUS
<1>2. PICK m \in T : \A y \in T : m <= y
  <2> HIDE DEF T
  <2> QED
    BY <1>1, LeastNumber
<1>3. m \in Nat /\ ~\E f : AreSums(f, s, m)
  OBVIOUS
<1>4. m # 0
  <2> DEFINE f == [k \in 0..0 |-> 0]
  <2>1. f = [k \in 0..0 |-> IF k = 0 THEN 0 ELSE f[k - 1] + Worth(s, k)]
    OBVIOUS
  <2> HIDE DEF f
  <2> QED
    BY <1>3, <2>1 DEF AreSums
<1>5. PICK e : AreSums(e, s, m - 1)
  <2>1. m - 1 \in Nat /\ ~(m <= m - 1)
    BY <1>3, <1>4
  <2> QED
    BY <1>2, <2>1
<1> DEFINE f == [k \in 0..m |-> IF k = m THEN e[m - 1] + Worth(s, m) ELSE e[k]]
<1>6. f = [k \in 0..m |-> IF k = 0 THEN 0 ELSE f[k - 1] + Worth(s, k)]
  <2>1. ASSUME NEW k \in 0..m
        PROVE  f[k] = IF k = 0 THEN 0 ELSE f[k - 1] + Worth(s, k)
    <3>1. CASE k = m
      <4>1. f[k] = e[k - 1] + Worth(s, k) /\ k - 1 \in 0..m /\ k - 1 # m
        BY <1>3, <1>4, <3>1
      <4>2. f[k - 1] = e[k - 1]
        BY <4>1
      <4> QED
        BY <1>4, <3>1, <4>1, <4>2
    <3>2. CASE k # m
      <4>1. k \in 0..m - 1 /\ f[k] = e[k]
        BY <1>3, <3>2
      <4>2. e[k] = IF k = 0 THEN 0 ELSE e[k - 1] + Worth(s, k)
        BY <1>5, <4>1 DEF AreSums
      <4>3. k # 0 => k - 1 \in 0..m /\ k - 1 # m
        BY <1>3, <4>1
      <4> QED
        BY <4>1, <4>2, <4>3
    <3> QED
      BY <3>1, <3>2
  <2> DEFINE g == [k \in 0..m |-> IF k = 0 THEN 0 ELSE f[k - 1] + Worth(s, k)]
  <2>2. f = g
    BY <2>1
  <2> QED
    BY <2>2
<1> HIDE DEF f
<1> QED
  BY <1>3, <1>6 DEF AreSums

LEMMA SumsBySteps ==
    ASSUME NEW s, Len(s) \in Nat
    PROVE  /\ SumsOf(s)[0] = 0
           /\ \A k \in 1..Len(s) : SumsOf(s)[k] = SumsOf(s)[k - 1] + Worth(s, k)
           /\ N!LuhnSum(s) = SumsOf(s)[Len(s)]
<1>1. AreSums(SumsOf(s), s, Len(s))
  BY SumsExist DEF SumsOf
<1>2. N!LuhnSum(s) = SumsOf(s)[Len(s)]
  BY DEF N!LuhnSum, SumsOf, AreSums, Worth
<1> DEFINE f == SumsOf(s)
<1> HIDE DEF f
<1>3. f = [k \in 0..Len(s) |-> IF k = 0 THEN 0 ELSE f[k - 1] + Worth(s, k)]
  BY <1>1 DEF AreSums, f
<1>4. 0 \in 0..Len(s) /\ \A k \in 1..Len(s) : k \in 0..Len(s) /\ k # 0
  OBVIOUS
<1>5. f[0] = 0 /\ \A k \in 1..Len(s) : f[k] = f[k - 1] + Worth(s, k)
  BY <1>3, <1>4
<1> QED
  BY <1>2, <1>5 DEF f

\* How a digit counts: a digit, another for another, and at most nine.
LEMMA CountOfDigit ==
    ASSUME NEW d \in 0..9, NEW k \in Nat
    PROVE  N!Count(d, k) = IF k % 2 = 1 THEN d ELSE IF d > 4 THEN 2 * d - 9 ELSE 2 * d
<1>1. CASE k % 2 = 1
  BY <1>1 DEF N!Count
<1>2. CASE k % 2 # 1
  <2>1. ((2 * d) \div 10) + ((2 * d) % 10) = IF d > 4 THEN 2 * d - 9 ELSE 2 * d
    <3>1. d \in {0, 1, 2, 3, 4, 5, 6, 7, 8, 9}
      OBVIOUS
    <3> QED
      BY <3>1
  <2> QED
    BY <1>2, <2>1 DEF N!Count
<1> QED
  BY <1>1, <1>2

LEMMA WorthIsInteger ==
    ASSUME NEW s, Len(s) \in Nat, NEW k \in 1..Len(s), s[Len(s) + 1 - k] \in 0..9
    PROVE  Worth(s, k) \in 0..9
<1> DEFINE d == s[Len(s) + 1 - k]
<1> HIDE DEF d
<1>1. d \in 0..9 /\ k \in Nat
  BY DEF d
<1>2. N!Count(d, k) = IF k % 2 = 1 THEN d ELSE IF d > 4 THEN 2 * d - 9 ELSE 2 * d
  BY <1>1, CountOfDigit
<1>3. N!Count(d, k) \in 0..9
  BY <1>1, <1>2
<1> QED
  BY <1>3 DEF Worth, d

LEMMA SumsAreNatural ==
    ASSUME NEW s, Len(s) \in Nat, NEW n \in 0..Len(s),
           \A k \in 1..n : s[Len(s) + 1 - k] \in 0..9
    PROVE  SumsOf(s)[n] \in Nat
<1> DEFINE T == {m \in Nat : m <= n /\ SumsOf(s)[m] \notin Nat}
<1> SUFFICES ASSUME T # {} PROVE FALSE
  OBVIOUS
<1>1. T \subseteq Nat
  OBVIOUS
<1>2. PICK m \in T : \A y \in T : m <= y
  <2> HIDE DEF T
  <2> QED
    BY <1>1, LeastNumber
<1>3. m \in Nat /\ m <= n /\ SumsOf(s)[m] \notin Nat
  OBVIOUS
<1>4. m # 0
  BY <1>3, SumsBySteps
<1>5. SumsOf(s)[m - 1] \in Nat
  <2>1. m - 1 \in Nat /\ m - 1 <= n /\ ~(m <= m - 1)
    BY <1>3, <1>4
  <2> QED
    BY <1>2, <2>1
<1>6. m \in 1..Len(s) /\ m \in 1..n
  BY <1>3, <1>4
<1>7. Worth(s, m) \in 0..9
  BY <1>6, WorthIsInteger
<1>8. SumsOf(s)[m] = SumsOf(s)[m - 1] + Worth(s, m)
  BY <1>6, SumsBySteps
<1> QED
  BY <1>3, <1>5, <1>7, <1>8, SMTT(60)

\* The digits of s and t are so many, and digits.
Comparable(s, t) ==
    /\ Len(s) \in Nat /\ Len(t) = Len(s)
    /\ \A p \in 1..Len(s) : s[p] \in 0..9 /\ t[p] \in 0..9

\* What t has more than s in the last k digits is D[k].
LEMMA SumsDiffer ==
    ASSUME NEW s, NEW t, Comparable(s, t), NEW D \in [0..Len(s) -> Int], D[0] = 0,
           \A k \in 1..Len(s) : D[k] = D[k - 1] + (Worth(t, k) - Worth(s, k))
    PROVE  /\ N!LuhnSum(s) \in Nat /\ N!LuhnSum(t) \in Nat
           /\ N!LuhnSum(t) = N!LuhnSum(s) + D[Len(s)]
<1>0. Len(s) \in Nat /\ Len(t) = Len(s)
  BY DEF Comparable
<1>1. \A k \in 0..Len(s) : SumsOf(s)[k] \in Nat /\ SumsOf(t)[k] \in Nat
  <2> SUFFICES ASSUME NEW k \in 0..Len(s) PROVE SumsOf(s)[k] \in Nat /\ SumsOf(t)[k] \in Nat
    OBVIOUS
  <2>1. \A j \in 1..k : s[Len(s) + 1 - j] \in 0..9 /\ t[Len(t) + 1 - j] \in 0..9
    <3>1. \A j \in 1..k : Len(s) + 1 - j \in 1..Len(s)
      BY <1>0
    <3> QED
      BY <1>0, <3>1 DEF Comparable
  <2> QED
    BY <1>0, <2>1, SumsAreNatural
<1>2. \A k \in 1..Len(s) : Worth(s, k) \in 0..9 /\ Worth(t, k) \in 0..9
  <2> SUFFICES ASSUME NEW k \in 1..Len(s) PROVE Worth(s, k) \in 0..9 /\ Worth(t, k) \in 0..9
    OBVIOUS
  <2>1. Len(s) + 1 - k \in 1..Len(s)
    BY <1>0
  <2>2. s[Len(s) + 1 - k] \in 0..9 /\ t[Len(t) + 1 - k] \in 0..9
    BY <1>0, <2>1 DEF Comparable
  <2> QED
    BY <1>0, <2>2, WorthIsInteger
<1> DEFINE T == {m \in Nat : m <= Len(s) /\ SumsOf(t)[m] # SumsOf(s)[m] + D[m]}
<1>3. T = {}
  <2> SUFFICES ASSUME T # {} PROVE FALSE
    OBVIOUS
  <2>1. T \subseteq Nat
    OBVIOUS
  <2>2. PICK m \in T : \A y \in T : m <= y
    <3> HIDE DEF T
    <3> QED
      BY <2>1, LeastNumber
  <2>3. m \in Nat /\ m <= Len(s) /\ SumsOf(t)[m] # SumsOf(s)[m] + D[m]
    OBVIOUS
  <2>4. m # 0
    <3>1. SumsOf(t)[0] = 0 /\ SumsOf(s)[0] = 0
      BY <1>0, SumsBySteps
    <3> QED
      BY <2>3, <3>1
  <2>5. m \in 1..Len(s) /\ m \in 0..Len(s) /\ m - 1 \in 0..Len(s)
    BY <1>0, <2>3, <2>4
  <2>6. SumsOf(t)[m - 1] = SumsOf(s)[m - 1] + D[m - 1]
    <3>1. m - 1 \in Nat /\ m - 1 <= Len(s) /\ ~(m <= m - 1)
      BY <1>0, <2>5
    <3> QED
      BY <2>2, <3>1
  <2>7. /\ SumsOf(t)[m] = SumsOf(t)[m - 1] + Worth(t, m)
        /\ SumsOf(s)[m] = SumsOf(s)[m - 1] + Worth(s, m)
    BY <1>0, <2>5, SumsBySteps
  <2>8. D[m] = D[m - 1] + (Worth(t, m) - Worth(s, m)) /\ D[m - 1] \in Int
    BY <2>5
  <2>9. /\ Worth(s, m) \in Int /\ Worth(t, m) \in Int
        /\ SumsOf(s)[m - 1] \in Int /\ SumsOf(t)[m - 1] \in Int
    <3> HIDE DEF T
    <3>1. SumsOf(s)[m - 1] \in Nat /\ SumsOf(t)[m - 1] \in Nat
      BY <1>1, <2>5
    <3>2. Worth(s, m) \in 0..9 /\ Worth(t, m) \in 0..9
      BY <1>2, <2>5
    <3> QED
      BY <3>1, <3>2
  <2> QED
    BY <2>3, <2>6, <2>7, <2>8, <2>9, SMTT(60)
<1>4. SumsOf(t)[Len(s)] = SumsOf(s)[Len(s)] + D[Len(s)]
  BY <1>0, <1>3
<1>5. Len(s) \in 0..Len(s)
  BY <1>0
<1> QED
  BY <1>0, <1>1, <1>4, <1>5, SumsBySteps

\* Ten divides one of two numbers at most that are so near.
LEMMA TensAreApart ==
    ASSUME NEW x \in Nat, NEW y \in Nat, NEW d \in -9..9, y = x + d, d # 0,
           x % 10 = 0
    PROVE  y % 10 # 0
OBVIOUS

LEMMA NumberIsComparable ==
    ASSUME NEW s \in Seq(0..9), NEW t \in Seq(0..9), Len(t) = Len(s) PROVE Comparable(s, t)
BY DEF Comparable

\* Two numbers of one length whose sums are so near are one number at most.
LEMMA NearIsNoNumber ==
    ASSUME NEW s \in Seq(0..9), NEW t \in Seq(0..9), Len(t) = Len(s), N!IsNumber(s),
           NEW D \in [0..Len(s) -> Int], D[0] = 0,
           \A k \in 1..Len(s) : D[k] = D[k - 1] + (Worth(t, k) - Worth(s, k)),
           D[Len(s)] \in -9..9, D[Len(s)] # 0
    PROVE  ~N!IsNumber(t)
<1>1. /\ N!LuhnSum(s) \in Nat /\ N!LuhnSum(t) \in Nat
      /\ N!LuhnSum(t) = N!LuhnSum(s) + D[Len(s)]
  BY NumberIsComparable, SumsDiffer
<1>2. N!LuhnSum(s) % 10 = 0
  BY DEF N!IsNumber
<1>3. N!LuhnSum(t) % 10 # 0
  BY <1>1, <1>2, TensAreApart
<1> QED
  BY <1>3 DEF N!IsNumber

\* The digit sum of the double of a digit.
Double(d) == IF d > 4 THEN 2 * d - 9 ELSE 2 * d

LEMMA DoublesDiffer ==
    ASSUME NEW a \in 0..9, NEW b \in 0..9, a # b
    PROVE  /\ Double(a) \in 0..9 /\ Double(b) \in 0..9 /\ Double(a) # Double(b)
           /\ {a, b} # {0, 9} => (a - b) + (Double(b) - Double(a)) \in (-9..9) \ {0}
<1>1. (a = 0 /\ b = 9) \/ (a = 9 /\ b = 0) => {a, b} = {0, 9}
  OBVIOUS
<1>2. Double(a) \in 0..9 /\ Double(b) \in 0..9 /\ Double(a) # Double(b)
  BY DEF Double
<1>3. ~(a = 0 /\ b = 9) /\ ~(a = 9 /\ b = 0)
        => (a - b) + (Double(b) - Double(a)) \in (-9..9) \ {0}
  BY DEF Double
<1> QED
  BY <1>1, <1>2, <1>3

LEMMA DigitDifference ==
    ASSUME NEW x \in 0..9, NEW y \in 0..9 PROVE x - y \in -9..9 /\ (x # y => x - y # 0)
OBVIOUS

LEMMA OppositeSums ==
    ASSUME NEW a \in 0..9, NEW b \in 0..9, NEW x \in 0..9, NEW y \in 0..9,
           (a - b) + (y - x) \in (-9..9) \ {0}
    PROVE  (x - y) + (b - a) \in (-9..9) \ {0}
OBVIOUS

\* Another digit in one place.
LEMMA WrongDigit ==
    ASSUME NEW s \in Seq(0..9), NEW p \in 1..Len(s), NEW c \in 0..9, c # s[p], N!IsNumber(s)
    PROVE  ~N!IsNumber([s EXCEPT ![p] = c])
<1> DEFINE t == [s EXCEPT ![p] = c]
           k0 == Len(s) + 1 - p
           e == N!Count(c, k0) - N!Count(s[p], k0)
           D == [k \in 0..Len(s) |-> IF k < k0 THEN 0 ELSE e]
<1>1. /\ t \in Seq(0..9) /\ Len(t) = Len(s) /\ t[p] = c
      /\ \A q \in 1..Len(s) : q # p => t[q] = s[q]
  OBVIOUS
<1>2. k0 \in 1..Len(s) /\ k0 \in Nat /\ Len(s) \in Nat /\ Len(s) + 1 - k0 = p
  OBVIOUS
<1> HIDE DEF t, k0
<1>3. e \in -9..9 /\ e # 0
  <2> DEFINE d == s[p]
  <2>1. d \in 0..9 /\ c # d
    OBVIOUS
  <2> HIDE DEF d
  <2>2. /\ N!Count(c, k0) = IF k0 % 2 = 1 THEN c ELSE Double(c)
        /\ N!Count(d, k0) = IF k0 % 2 = 1 THEN d ELSE Double(d)
    BY <1>2, <2>1, CountOfDigit DEF Double
  <2>3. Double(c) \in 0..9 /\ Double(d) \in 0..9 /\ Double(c) # Double(d)
    BY <2>1, DoublesDiffer
  <2>4. /\ N!Count(c, k0) \in 0..9 /\ N!Count(d, k0) \in 0..9
        /\ N!Count(c, k0) # N!Count(d, k0)
    BY <2>1, <2>2, <2>3
  <2>5. N!Count(c, k0) - N!Count(d, k0) \in -9..9 /\ N!Count(c, k0) - N!Count(d, k0) # 0
    BY <2>4, DigitDifference
  <2> QED
    BY <2>5 DEF d
<1>4. ASSUME NEW k \in 1..Len(s)
      PROVE  Worth(t, k) - Worth(s, k) = IF k = k0 THEN e ELSE 0
  <2>1. Len(s) + 1 - k \in 1..Len(s) /\ (k # k0 => Len(s) + 1 - k # p)
    BY <1>2
  <2>2. CASE k = k0
    BY <1>1, <1>2, <2>2 DEF Worth
  <2>3. CASE k # k0
    <3>1. Worth(t, k) = Worth(s, k)
      BY <1>1, <2>1, <2>3 DEF Worth
    <3>2. Worth(s, k) \in 0..9
      BY <1>2, <2>1, WorthIsInteger, SMTT(60)
    <3> QED
      BY <2>3, <3>1, <3>2
  <2> QED
    BY <2>2, <2>3
<1> HIDE DEF e
<1>5. D \in [0..Len(s) -> Int] /\ D[0] = 0 /\ D[Len(s)] = e
  BY <1>2, <1>3
<1>6. \A k \in 1..Len(s) : D[k] = D[k - 1] + (Worth(t, k) - Worth(s, k))
  <2> SUFFICES ASSUME NEW k \in 1..Len(s) PROVE D[k] = D[k - 1] + (Worth(t, k) - Worth(s, k))
    OBVIOUS
  <2>1. k \in 0..Len(s) /\ k - 1 \in 0..Len(s)
    BY <1>2
  <2>2. D[k] = (IF k < k0 THEN 0 ELSE e) /\ D[k - 1] = (IF k - 1 < k0 THEN 0 ELSE e)
    BY <2>1
  <2> HIDE DEF D
  <2> QED
    BY <1>2, <1>3, <1>4, <2>1, <2>2
<1> HIDE DEF D
<1>7. ~N!IsNumber(t)
  BY <1>1, <1>3, <1>5, <1>6, NearIsNoNumber
<1> QED
  BY <1>7 DEF t

\* Two neighbours in each other's place.
LEMMA WrongOrder ==
    ASSUME NEW s \in Seq(0..9), NEW p \in 1..Len(s) - 1, s[p] # s[p + 1],
           {s[p], s[p + 1]} # {0, 9}, N!IsNumber(s)
    PROVE  ~N!IsNumber([s EXCEPT ![p] = s[p + 1], ![p + 1] = s[p]])
<1> DEFINE t == [s EXCEPT ![p] = s[p + 1], ![p + 1] = s[p]]
           a == s[p]
           b == s[p + 1]
           k0 == Len(s) - p
           e1 == N!Count(a, k0) - N!Count(b, k0)
           e2 == N!Count(b, k0 + 1) - N!Count(a, k0 + 1)
           D == [k \in 0..Len(s) |-> IF k < k0 THEN 0 ELSE IF k = k0 THEN e1 ELSE e1 + e2]
<1>0. p \in 1..Len(s) /\ p + 1 \in 1..Len(s) /\ p # p + 1
  OBVIOUS
<1>1. /\ t \in Seq(0..9) /\ Len(t) = Len(s) /\ t[p] = b /\ t[p + 1] = a
      /\ \A q \in 1..Len(s) : q \notin {p, p + 1} => t[q] = s[q]
  BY <1>0
<1>2. /\ k0 \in 1..Len(s) /\ k0 + 1 \in 1..Len(s) /\ k0 \in Nat /\ Len(s) \in Nat
      /\ Len(s) + 1 - k0 = p + 1 /\ Len(s) + 1 - (k0 + 1) = p
  OBVIOUS
<1>3. a \in 0..9 /\ b \in 0..9 /\ a # b /\ {a, b} # {0, 9}
  <2>1. a \in 0..9 /\ b \in 0..9
    BY <1>0, SMTT(60)
  <2> QED
    BY <2>1
<1> HIDE DEF t, k0, a, b
<1>4. e1 \in -9..9 /\ e2 \in -9..9 /\ e1 + e2 \in -9..9 /\ e1 + e2 # 0
  <2>1. k0 + 1 \in Nat /\ ((k0 + 1) % 2 = 1 <=> k0 % 2 # 1)
    BY <1>2, SMTT(60)
  <2>2. /\ N!Count(a, k0) = IF k0 % 2 = 1 THEN a ELSE Double(a)
        /\ N!Count(b, k0) = IF k0 % 2 = 1 THEN b ELSE Double(b)
    BY <1>2, <1>3, CountOfDigit DEF Double
  <2>3. /\ N!Count(a, k0 + 1) = IF k0 % 2 = 1 THEN Double(a) ELSE a
        /\ N!Count(b, k0 + 1) = IF k0 % 2 = 1 THEN Double(b) ELSE b
    BY <1>3, <2>1, CountOfDigit DEF Double
  <2>4. /\ Double(a) \in 0..9 /\ Double(b) \in 0..9
        /\ (a - b) + (Double(b) - Double(a)) \in (-9..9) \ {0}
    BY <1>3, DoublesDiffer
  <2>5. CASE k0 % 2 = 1
    <3>1. e1 = a - b /\ e2 = Double(b) - Double(a)
      BY <2>2, <2>3, <2>5
    <3>2. a - b \in -9..9 /\ Double(b) - Double(a) \in -9..9
      BY <1>3, <2>4, DigitDifference
    <3> HIDE DEF e1, e2
    <3> QED
      BY <2>4, <3>1, <3>2
  <2>6. CASE k0 % 2 # 1
    <3>1. e1 = Double(a) - Double(b) /\ e2 = b - a
      BY <2>2, <2>3, <2>6
    <3>2. Double(a) - Double(b) \in -9..9 /\ b - a \in -9..9
      BY <1>3, <2>4, DigitDifference, SMTT(60)
    <3>3. (Double(a) - Double(b)) + (b - a) \in (-9..9) \ {0}
      BY <1>3, <2>4, OppositeSums
    <3> HIDE DEF e1, e2
    <3> QED
      BY <3>1, <3>2, <3>3
  <2> QED
    BY <2>5, <2>6
<1>5. ASSUME NEW k \in 1..Len(s)
      PROVE  Worth(t, k) - Worth(s, k) = IF k = k0 THEN e1 ELSE IF k = k0 + 1 THEN e2 ELSE 0
  <2>1. /\ Len(s) + 1 - k \in 1..Len(s)
        /\ k \notin {k0, k0 + 1} => Len(s) + 1 - k \notin {p, p + 1}
    BY <1>2
  <2>2. CASE k = k0
    BY <1>1, <1>2, <2>2 DEF Worth, a, b
  <2>3. CASE k = k0 + 1
    <3>1. k # k0
      BY <1>2, <2>3
    <3> QED
      BY <1>1, <1>2, <2>3, <3>1 DEF Worth, a, b
  <2>4. CASE k \notin {k0, k0 + 1}
    <3>1. Worth(t, k) = Worth(s, k)
      BY <1>1, <2>1, <2>4 DEF Worth
    <3>2. Worth(s, k) \in 0..9
      BY <1>2, <2>1, WorthIsInteger, SMTT(60)
    <3> QED
      BY <2>4, <3>1, <3>2
  <2> QED
    BY <2>2, <2>3, <2>4
<1> HIDE DEF e1, e2
<1>6. D \in [0..Len(s) -> Int] /\ D[0] = 0 /\ D[Len(s)] = e1 + e2
  BY <1>2, <1>4
<1>7. \A k \in 1..Len(s) : D[k] = D[k - 1] + (Worth(t, k) - Worth(s, k))
  <2> SUFFICES ASSUME NEW k \in 1..Len(s) PROVE D[k] = D[k - 1] + (Worth(t, k) - Worth(s, k))
    OBVIOUS
  <2>1. k \in 0..Len(s) /\ k - 1 \in 0..Len(s)
    BY <1>2
  <2>2. /\ D[k] = IF k < k0 THEN 0 ELSE IF k = k0 THEN e1 ELSE e1 + e2
        /\ D[k - 1] = IF k - 1 < k0 THEN 0 ELSE IF k - 1 = k0 THEN e1 ELSE e1 + e2
    BY <2>1
  <2> HIDE DEF D
  <2> QED
    BY <1>2, <1>4, <1>5, <2>1, <2>2
<1> HIDE DEF D
<1>8. ~N!IsNumber(t)
  BY <1>1, <1>4, <1>6, <1>7, NearIsNoNumber
<1> QED
  BY <1>8 DEF t, a, b

\* The value is the number with the mistake in it.
Slipped ==
    /\ mistake = "mistyped" =>
          \E p \in 1..Len(number), c \in (0..9) \cup {Other} :
              c # number[p] /\ value = [number EXCEPT ![p] = c]
    /\ mistake = "transposed" =>
          \E p \in 1..Len(number) - 1 :
              /\ number[p] # number[p + 1] /\ {number[p], number[p + 1]} # {0, 9}
              /\ value = [number EXCEPT ![p] = number[p + 1], ![p + 1] = number[p]]

\* The loop has taken the digits behind the i-th place.
Looping ==
    /\ i \in 1..Len(value) /\ Len(value) <= MaxNumberLength
    /\ \A p \in i + 1..Len(value) : value[p] \in 0..9
    /\ checksum = SumsOf(value)[Len(value) - i] % 10
    /\ double \in BOOLEAN /\ (double <=> (Len(value) - i) % 2 = 1)

NumberInv ==
    /\ number \in Seq(0..9) /\ N!IsNumber(number)
    /\ value \in Seq((0..9) \cup {Other})
    /\ Slipped
    /\ result \in {"unknown", "number", "invalid"}
    /\ result = "unknown" /\ i = 0 => checksum = 0 /\ double = FALSE
    /\ result = "unknown" /\ i # 0 => Looping
    /\ result = "number" => N!IsNumber(value)
    /\ result = "invalid" => ~N!IsNumber(value)

LEMMA OtherIsNoDigit == Other \notin 0..9
BY InputsAssumption DEF N!ConstantsAssumption

LEMMA NumberDetects == NumberInv => N!SlipsDetected
<1> SUFFICES ASSUME NumberInv, result = "number", mistake \in {"mistyped", "transposed"}
             PROVE  FALSE
  BY DEF NumberInv, N!SlipsDetected
<1>1. number \in Seq(0..9) /\ N!IsNumber(number) /\ N!IsNumber(value) /\ Slipped
  BY DEF NumberInv
<1>2. CASE mistake = "mistyped"
  <2>1. PICK p \in 1..Len(number), c \in (0..9) \cup {Other} :
            c # number[p] /\ value = [number EXCEPT ![p] = c]
    BY <1>1, <1>2 DEF Slipped
  <2>2. p \in DOMAIN value /\ value[p] = c
    BY <1>1, <2>1
  <2>3. c \in 0..9
    BY <1>1, <2>1, <2>2, OtherIsNoDigit DEF N!IsNumber
  <2> QED
    BY <1>1, <2>1, <2>3, WrongDigit
<1>3. CASE mistake = "transposed"
  BY <1>1, <1>3, WrongOrder DEF Slipped
<1> QED
  BY <1>2, <1>3

LEMMA NumberBegins == N!Init => NumberInv
<1> SUFFICES ASSUME N!Init PROVE NumberInv
  OBVIOUS
<1>1. number \in N!BoundedSeq(0..9, MaxLength) /\ N!IsNumber(number)
  BY DEF N!Init
<1>2. number \in Seq(0..9)
  BY <1>1 DEF N!BoundedSeq, N!SeqOf
<1> QED
  BY <1>1, <1>2 DEF N!Init, NumberInv, Slipped

LEMMA NumberMistype ==
    ASSUME NumberInv, NEW p \in DOMAIN number, NEW c \in (0..9) \cup {Other}, N!Mistype(p, c)
    PROVE  NumberInv'
<1>1. number \in Seq(0..9) /\ N!IsNumber(number) /\ p \in 1..Len(number)
  BY DEF NumberInv
<1>2. /\ result = "unknown" /\ i = 0 /\ checksum = 0 /\ double = FALSE
      /\ UNCHANGED <<number, i, checksum, double, result>>
  BY DEF NumberInv, N!Mistype, N!Copying
<1>3. (value \in Seq((0..9) \cup {Other}))'
  <2>1. number \in Seq((0..9) \cup {Other})
    BY <1>1
  <2> QED
    BY <1>1, <2>1 DEF N!Mistype
<1>4. Slipped'
  <2>1. /\ c # number'[p] /\ value' = [number' EXCEPT ![p] = c]
        /\ p \in 1..Len(number') /\ mistake' = "mistyped"
    BY <1>1, <1>2 DEF N!Mistype
  <2> QED
    BY <2>1 DEF Slipped
<1> QED
  BY <1>1, <1>2, <1>3, <1>4 DEF NumberInv

LEMMA NumberTranspose ==
    ASSUME NumberInv, NEW p \in 1..Len(number) - 1, N!Transpose(p)
    PROVE  NumberInv'
<1>1. number \in Seq(0..9) /\ N!IsNumber(number) /\ p \in 1..Len(number) /\ p + 1 \in 1..Len(number)
  BY DEF NumberInv
<1>2. /\ result = "unknown" /\ i = 0 /\ checksum = 0 /\ double = FALSE
      /\ UNCHANGED <<number, i, checksum, double, result>>
  BY DEF NumberInv, N!Transpose, N!Copying
<1>3. (value \in Seq((0..9) \cup {Other}))'
  <2>1. /\ number \in Seq((0..9) \cup {Other})
        /\ number[p] \in 0..9 /\ number[p + 1] \in 0..9
    BY <1>1
  <2> DEFINE half == [number EXCEPT ![p] = number[p + 1]]
  <2>2. half \in Seq((0..9) \cup {Other}) /\ Len(half) = Len(number)
    BY <1>1, <2>1
  <2> HIDE DEF half
  <2>3. [half EXCEPT ![p + 1] = number[p]] \in Seq((0..9) \cup {Other})
    BY <1>1, <2>1, <2>2
  <2>4. value' = [half EXCEPT ![p + 1] = number[p]]
    BY DEF N!Transpose, half
  <2> QED
    BY <2>3, <2>4
<1>4. Slipped'
  BY <1>1 DEF N!Transpose, Slipped
<1> QED
  BY <1>1, <1>2, <1>3, <1>4 DEF NumberInv

LEMMA NumberOverdo ==
    ASSUME NumberInv, NEW s \in {<<>>, << 0 >> \o number, number \o << 0 >>}, N!Overdo(s)
    PROVE  NumberInv'
<1>1. number \in Seq(0..9) /\ N!IsNumber(number)
  BY DEF NumberInv
<1>2. /\ result = "unknown" /\ i = 0 /\ checksum = 0 /\ double = FALSE
      /\ UNCHANGED <<number, i, checksum, double, result>>
  BY DEF NumberInv, N!Overdo, N!Copying
<1>3. (value \in Seq((0..9) \cup {Other}))'
  <2>1. <<>> \in Seq(0..9) /\ << 0 >> \in Seq(0..9)
    OBVIOUS
  <2>2. << 0 >> \o number \in Seq(0..9) /\ number \o << 0 >> \in Seq(0..9)
    BY <1>1, <2>1
  <2>3. s \in Seq(0..9)
    BY <2>1, <2>2
  <2>4. s \in Seq((0..9) \cup {Other})
    BY <2>3
  <2> QED
    BY <2>4 DEF N!Overdo
<1>4. Slipped'
  BY DEF N!Overdo, Slipped
<1> QED
  BY <1>1, <1>2, <1>3, <1>4 DEF NumberInv

LEMMA NumberBegin ==
    ASSUME NumberInv, N!Begin
    PROVE  NumberInv'
<1>1. /\ result = "unknown" /\ i = 0 /\ checksum = 0 /\ double = FALSE
      /\ UNCHANGED <<number, value, mistake, checksum, double>>
  BY DEF NumberInv, N!Begin
<1>2. /\ number \in Seq(0..9) /\ N!IsNumber(number)
      /\ value \in Seq((0..9) \cup {Other}) /\ Slipped'
  BY <1>1 DEF NumberInv, Slipped
<1>3. CASE /\ value = <<>> \/ Len(value) > MaxNumberLength
           /\ result' = "invalid" /\ i' = i
  <2>1. ~N!IsNumber(value)
    <3>1. Len(value) \in Nat /\ MaxNumberLength \in Nat
      BY <1>2, InputsAssumption DEF N!ConstantsAssumption
    <3> QED
      BY <1>3, <3>1 DEF N!IsNumber
  <2> QED
    BY <1>1, <1>2, <1>3, <2>1 DEF NumberInv
<1>4. CASE /\ ~(value = <<>> \/ Len(value) > MaxNumberLength)
           /\ i' = Len(value) /\ result' = result
  <2>1. Len(value) \in Nat /\ Len(value) # 0 /\ MaxNumberLength \in Nat
    BY <1>2, <1>4, InputsAssumption DEF N!ConstantsAssumption
  <2>2. SumsOf(value)[0] = 0
    BY <2>1, SumsBySteps
  <2>3. /\ Len(value) - Len(value) = 0 /\ Len(value) + 1..Len(value) = {}
        /\ 0 % 10 = 0 /\ 0 % 2 # 1
    BY <2>1
  <2> DEFINE n == Len(value)
  <2>4. /\ n' = n /\ i' = n /\ checksum' = 0 /\ value' = value
        /\ n \in 1..n /\ n <= MaxNumberLength
    BY <1>1, <1>4, <2>1
  <2>5. double' = FALSE
    BY <1>1
  <2> HIDE DEF n
  <2>6. /\ n - n = 0 /\ n + 1..n = {} /\ SumsOf(value)[n - n] % 10 = 0
    BY <2>2, <2>3 DEF n
  <2>7. (double \in BOOLEAN /\ (double <=> (n - i) % 2 = 1))'
    <3>1. ~((n' - i') % 2 = 1)
      BY <2>3, <2>4, <2>6
    <3> QED
      BY <2>5, <3>1, Zenon
  <2>8. Looping'
    BY <2>3, <2>4, <2>6, <2>7 DEF Looping, n
  <2> QED
    BY <1>1, <1>2, <1>4, <2>1, <2>8 DEF NumberInv
<1> QED
  BY <1>3, <1>4 DEF N!Begin

LEMMA SumModTen ==
    ASSUME NEW x \in Nat, NEW w \in Nat
    PROVE  ((x % 10) + w) % 10 = (x + w) % 10
OBVIOUS

LEMMA NumberRefuseByte ==
    ASSUME NumberInv, N!RefuseByte
    PROVE  NumberInv'
<1>1. /\ result = "unknown" /\ i > 0 /\ value[i] \notin 0..9 /\ result' = "invalid"
      /\ UNCHANGED <<number, value, mistake, i, checksum, double>>
  BY DEF N!RefuseByte
<1>2. /\ number \in Seq(0..9) /\ N!IsNumber(number)
      /\ value \in Seq((0..9) \cup {Other}) /\ Slipped' /\ Looping
  <2>1. i # 0
    BY <1>1
  <2>2. Slipped'
    BY <1>1 DEF NumberInv, Slipped
  <2> QED
    BY <1>1, <2>1, <2>2 DEF NumberInv
<1>3. i \in DOMAIN value
  BY <1>2 DEF Looping
<1>4. ~N!IsNumber(value)
  BY <1>1, <1>3 DEF N!IsNumber
<1> QED
  BY <1>1, <1>2, <1>4 DEF NumberInv

LEMMA NumberTakeDigit ==
    ASSUME NumberInv, N!TakeDigit
    PROVE  NumberInv'
<1> DEFINE n == Len(value)
           k == n - i + 1
<1>1. /\ result = "unknown" /\ i > 0 /\ value[i] \in 0..9
      /\ checksum' = (checksum + N!Weight(value[i])) % 10
      /\ double' = ~double
      /\ i' = i - 1
      /\ result' = IF i > 1 THEN result ELSE IF checksum' # 0 THEN "invalid" ELSE "number"
      /\ UNCHANGED <<number, value, mistake>>
  BY DEF N!TakeDigit
<1>2. /\ number \in Seq(0..9) /\ N!IsNumber(number)
      /\ value \in Seq((0..9) \cup {Other}) /\ Slipped' /\ Looping
  <2>1. i # 0
    BY <1>1
  <2>2. Slipped'
    BY <1>1 DEF NumberInv, Slipped
  <2> QED
    BY <1>1, <2>1, <2>2 DEF NumberInv
<1>3. /\ n \in Nat /\ i \in 1..n /\ k \in 1..n /\ n + 1 - k = i /\ k - 1 = n - i
      /\ n - (i - 1) = k
  BY <1>2 DEF Looping
<1> HIDE DEF n, k
<1>4. N!Weight(value[i]) = Worth(value, k) /\ Worth(value, k) \in 0..9
  <2>1. N!Count(value[i], k) = IF k % 2 = 1 THEN value[i] ELSE Double(value[i])
    BY <1>1, <1>3, CountOfDigit DEF Double
  <2>2. double <=> k % 2 # 1
    <3>1. double <=> (k - 1) % 2 = 1
      BY <1>2, <1>3 DEF Looping, n
    <3>2. k \in Nat /\ ((k - 1) % 2 = 1 <=> k % 2 # 1)
      BY <1>3
    <3> QED
      BY <3>1, <3>2
  <2>3. N!Weight(value[i]) = IF double THEN Double(value[i]) ELSE value[i]
    BY <1>1 DEF N!Weight, Double
  <2>4. Worth(value, k) = N!Count(value[i], k)
    BY <1>3 DEF Worth, n
  <2>5. Worth(value, k) \in 0..9
    BY <1>1, <1>3, WorthIsInteger DEF n
  <2> QED
    BY <2>1, <2>2, <2>3, <2>4, <2>5
<1>5. SumsOf(value)[k] = SumsOf(value)[k - 1] + Worth(value, k) /\ SumsOf(value)[k - 1] \in Nat
  <2>1. k - 1 \in 0..n /\ \A j \in 1..k - 1 : n + 1 - j \in i + 1..n
    BY <1>3
  <2>2. \A j \in 1..k - 1 : value[n + 1 - j] \in 0..9
    BY <1>2, <2>1 DEF Looping, n
  <2>3. SumsOf(value)[k - 1] \in Nat
    BY <1>3, <2>1, <2>2, SumsAreNatural DEF n
  <2> QED
    BY <1>3, <2>3, SumsBySteps DEF n
<1>6. checksum' = SumsOf(value)[k] % 10
  <2>1. checksum = SumsOf(value)[k - 1] % 10
    BY <1>2, <1>3 DEF Looping, n
  <2> QED
    BY <1>1, <1>4, <1>5, <2>1, SumModTen
<1>7. \A p \in i..n : value[p] \in 0..9
  <2>1. \A p \in i..n : p = i \/ p \in i + 1..n
    BY <1>3
  <2> QED
    BY <1>1, <1>2, <2>1 DEF Looping, n
<1>8. CASE i > 1
  <2>1. double' \in BOOLEAN /\ (double' <=> k % 2 = 1)
    <3>1. double \in BOOLEAN /\ (double <=> (k - 1) % 2 = 1)
      BY <1>2, <1>3 DEF Looping, n
    <3>2. k \in Nat /\ ((k - 1) % 2 = 1 <=> k % 2 # 1)
      BY <1>3
    <3> QED
      BY <1>1, <3>1, <3>2
  <2>2. i' \in 1..n /\ i' + 1 = i /\ n - i' = k /\ n <= MaxNumberLength
    BY <1>1, <1>2, <1>3, <1>8 DEF Looping, n
  <2>3. n' = n
    BY <1>1 DEF n
  <2>4. Looping'
    BY <1>1, <1>6, <1>7, <2>1, <2>2, <2>3 DEF Looping, n
  <2> QED
    BY <1>1, <1>2, <1>8, <2>2, <2>4 DEF NumberInv
<1>9. CASE ~(i > 1)
  <2>1. i = 1 /\ k = n
    BY <1>3, <1>9
  <2>2. N!IsNumber(value) <=> checksum' = 0
    <3>1. N!LuhnSum(value) % 10 = checksum'
      BY <1>3, <1>6, <2>1, SumsBySteps DEF n
    <3>2. value # <<>> /\ Len(value) <= MaxNumberLength /\ DOMAIN value = 1..n
      BY <1>2, <1>3 DEF Looping, n
    <3> QED
      BY <1>7, <2>1, <3>1, <3>2 DEF N!IsNumber
  <2> QED
    BY <1>1, <1>2, <1>9, <2>2 DEF NumberInv
<1> QED
  BY <1>8, <1>9

LEMMA NumberStutters ==
    NumberInv /\ UNCHANGED <<number, value, mistake, i, checksum, double, result>> => NumberInv'
<1> SUFFICES ASSUME NumberInv, UNCHANGED <<number, value, mistake, i, checksum, double, result>>
             PROVE  NumberInv'
  OBVIOUS
<1>1. Slipped' <=> Slipped
  BY DEF Slipped
<1>2. Looping' <=> Looping
  BY DEF Looping
<1> QED
  BY <1>1, <1>2 DEF NumberInv

LEMMA NumberStep == NumberInv /\ N!Next => NumberInv'
BY NumberMistype, NumberTranspose, NumberOverdo, NumberBegin, NumberTakeDigit,
   NumberRefuseByte DEF N!Next, N!Mistake

-----------------------------------------------------------------------------
(***************************************************************************)
(* A sum: powers of ten.                                                   *)
(***************************************************************************)
Powers(f, n) == f = [k \in 0..n |-> IF k = 0 THEN 1 ELSE 10 * f[k - 1]]

PowersOf(n) == CHOOSE f : Powers(f, n)

LEMMA PowersExist ==
    ASSUME NEW n \in Nat
    PROVE  \E f : Powers(f, n)
<1> DEFINE T == {m \in Nat : ~\E f : Powers(f, m)}
<1> SUFFICES ASSUME T # {} PROVE FALSE
  OBVIOUS
<1>1. T \subseteq Nat
  OBVIOUS
<1>2. PICK m \in T : \A y \in T : m <= y
  <2> HIDE DEF T
  <2> QED
    BY <1>1, LeastNumber
<1>3. m \in Nat /\ ~\E f : Powers(f, m)
  OBVIOUS
<1>4. m # 0
  <2> DEFINE f == [k \in 0..0 |-> 1]
  <2>1. f = [k \in 0..0 |-> IF k = 0 THEN 1 ELSE 10 * f[k - 1]]
    OBVIOUS
  <2> HIDE DEF f
  <2> QED
    BY <1>3, <2>1 DEF Powers
<1>5. PICK e : Powers(e, m - 1)
  <2>1. m - 1 \in Nat /\ ~(m <= m - 1)
    BY <1>3, <1>4
  <2> QED
    BY <1>2, <2>1
<1> DEFINE f == [k \in 0..m |-> IF k = m THEN 10 * e[m - 1] ELSE e[k]]
<1>6. f = [k \in 0..m |-> IF k = 0 THEN 1 ELSE 10 * f[k - 1]]
  <2>1. ASSUME NEW k \in 0..m
        PROVE  f[k] = IF k = 0 THEN 1 ELSE 10 * f[k - 1]
    <3>1. CASE k = m
      <4>1. f[k] = 10 * e[k - 1] /\ k - 1 \in 0..m /\ k - 1 # m
        BY <1>3, <1>4, <3>1
      <4>2. f[k - 1] = e[k - 1]
        BY <4>1
      <4> QED
        BY <1>4, <3>1, <4>1, <4>2
    <3>2. CASE k # m
      <4>1. k \in 0..m - 1 /\ f[k] = e[k]
        BY <1>3, <3>2
      <4>2. e[k] = IF k = 0 THEN 1 ELSE 10 * e[k - 1]
        BY <1>5, <4>1 DEF Powers
      <4>3. k # 0 => k - 1 \in 0..m /\ k - 1 # m
        BY <1>3, <4>1
      <4> QED
        BY <4>1, <4>2, <4>3
    <3> QED
      BY <3>1, <3>2
  <2> DEFINE g == [k \in 0..m |-> IF k = 0 THEN 1 ELSE 10 * f[k - 1]]
  <2>2. f = g
    BY <2>1
  <2> QED
    BY <2>2
<1> HIDE DEF f
<1> QED
  BY <1>3, <1>6 DEF Powers

LEMMA PowersBySteps ==
    ASSUME NEW n \in Nat
    PROVE  /\ PowersOf(n)[0] = 1
           /\ \A k \in 1..n : PowersOf(n)[k] = 10 * PowersOf(n)[k - 1]
           /\ S!TenTo(n) = PowersOf(n)[n]
<1>1. Powers(PowersOf(n), n)
  BY PowersExist DEF PowersOf
<1>2. S!TenTo(n) = PowersOf(n)[n]
  BY DEF S!TenTo, PowersOf, Powers
<1> DEFINE f == PowersOf(n)
<1> HIDE DEF f
<1>3. f = [k \in 0..n |-> IF k = 0 THEN 1 ELSE 10 * f[k - 1]]
  BY <1>1 DEF Powers, f
<1>4. 0 \in 0..n /\ \A k \in 1..n : k \in 0..n /\ k # 0
  OBVIOUS
<1>5. f[0] = 1 /\ \A k \in 1..n : f[k] = 10 * f[k - 1]
  BY <1>3, <1>4
<1> QED
  BY <1>2, <1>5 DEF f

\* The powers up to n are the same, whatever n is.
LEMMA PowersAgree ==
    ASSUME NEW n \in Nat, NEW k \in 0..n PROVE PowersOf(n)[k] = S!TenTo(k)
<1> DEFINE T == {m \in Nat : m <= k /\ PowersOf(n)[m] # PowersOf(k)[m]}
<1>1. T = {}
  <2> SUFFICES ASSUME T # {} PROVE FALSE
    OBVIOUS
  <2>1. T \subseteq Nat
    OBVIOUS
  <2>2. PICK m \in T : \A y \in T : m <= y
    <3> HIDE DEF T
    <3> QED
      BY <2>1, LeastNumber
  <2>3. m \in Nat /\ m <= k /\ PowersOf(n)[m] # PowersOf(k)[m]
    OBVIOUS
  <2>4. m # 0
    BY <2>3, PowersBySteps
  <2>5. PowersOf(n)[m - 1] = PowersOf(k)[m - 1]
    <3>1. m - 1 \in Nat /\ m - 1 <= k /\ ~(m <= m - 1)
      BY <2>3, <2>4
    <3> QED
      BY <2>2, <3>1
  <2>6. m \in 1..n /\ m \in 1..k /\ k \in Nat
    BY <2>3, <2>4
  <2>7. PowersOf(n)[m] = 10 * PowersOf(n)[m - 1] /\ PowersOf(k)[m] = 10 * PowersOf(k)[m - 1]
    BY <2>6, PowersBySteps
  <2> QED
    BY <2>3, <2>5, <2>7
<1>2. k \in Nat /\ k \notin T
  BY <1>1
<1>3. PowersOf(n)[k] = PowersOf(k)[k]
  BY <1>2
<1> QED
  BY <1>2, <1>3, PowersBySteps

LEMMA TenToZero == S!TenTo(0) = 1
BY PowersBySteps

LEMMA TenToNext ==
    ASSUME NEW n \in Nat
    PROVE  S!TenTo(n + 1) = 10 * S!TenTo(n)
<1>1. n + 1 \in Nat /\ n + 1 \in 1..n + 1 /\ n \in 0..n + 1 /\ (n + 1) - 1 = n
  OBVIOUS
<1>2. PowersOf(n + 1)[n + 1] = 10 * PowersOf(n + 1)[n]
  BY <1>1, PowersBySteps
<1>3. PowersOf(n + 1)[n] = S!TenTo(n)
  BY <1>1, PowersAgree
<1> QED
  BY <1>1, <1>2, <1>3, PowersBySteps

LEMMA TenToPositive ==
    ASSUME NEW n \in Nat
    PROVE  S!TenTo(n) \in Nat \ {0}
<1> DEFINE T == {m \in Nat : S!TenTo(m) \notin Nat \ {0}}
<1> SUFFICES ASSUME T # {} PROVE FALSE
  OBVIOUS
<1>1. T \subseteq Nat
  OBVIOUS
<1>2. PICK m \in T : \A y \in T : m <= y
  <2> HIDE DEF T
  <2> QED
    BY <1>1, LeastNumber
<1>3. m \in Nat /\ S!TenTo(m) \notin Nat \ {0}
  OBVIOUS
<1>4. m # 0
  BY <1>3, TenToZero
<1>5. m - 1 \in Nat /\ (m - 1) + 1 = m /\ ~(m <= m - 1)
  BY <1>3, <1>4
<1>6. S!TenTo(m - 1) \in Nat \ {0}
  BY <1>2, <1>5
<1>7. S!TenTo(m) = 10 * S!TenTo(m - 1)
  BY <1>5, TenToNext
<1> QED
  BY <1>3, <1>6, <1>7

LEMMA Associative ==
    ASSUME NEW a \in Int, NEW b \in Int, NEW c \in Int
    PROVE  a * b \in Int /\ a * b = b * a /\ (a * b) * c = a * (b * c)
OBVIOUS

LEMMA TenToSum ==
    ASSUME NEW a \in Nat, NEW b \in Nat PROVE S!TenTo(a + b) = S!TenTo(a) * S!TenTo(b)
<1> DEFINE T == {m \in Nat : S!TenTo(a + m) # S!TenTo(a) * S!TenTo(m)}
<1> SUFFICES ASSUME T # {} PROVE FALSE
  OBVIOUS
<1>1. T \subseteq Nat
  OBVIOUS
<1>2. PICK m \in T : \A y \in T : m <= y
  <2> HIDE DEF T
  <2> QED
    BY <1>1, LeastNumber
<1>3. m \in Nat /\ S!TenTo(a + m) # S!TenTo(a) * S!TenTo(m)
  OBVIOUS
<1>4. S!TenTo(a) \in Int
  BY TenToPositive
<1>5. m # 0
  <2>1. S!TenTo(a) * 1 = S!TenTo(a) /\ a + 0 = a
    BY <1>4
  <2> QED
    BY <1>3, <2>1, TenToZero
<1>6. m - 1 \in Nat /\ (m - 1) + 1 = m /\ ~(m <= m - 1) /\ a + (m - 1) \in Nat
      /\ (a + (m - 1)) + 1 = a + m
  BY <1>3, <1>5
<1>7. S!TenTo(a + (m - 1)) = S!TenTo(a) * S!TenTo(m - 1)
  BY <1>2, <1>6
<1>8. S!TenTo(m) = 10 * S!TenTo(m - 1) /\ S!TenTo(a + m) = 10 * S!TenTo(a + (m - 1))
  BY <1>6, TenToNext
<1>9. S!TenTo(m - 1) \in Int
  BY <1>6, TenToPositive
<1>10. 10 * (S!TenTo(a) * S!TenTo(m - 1)) = S!TenTo(a) * (10 * S!TenTo(m - 1))
  <2>1. ASSUME NEW x \in Int, NEW y \in Int PROVE 10 * (x * y) = x * (10 * y)
    BY Associative
  <2> QED
    BY <1>4, <1>9, <2>1
<1> QED
  BY <1>3, <1>7, <1>8, <1>10

LEMMA Cancelled ==
    ASSUME NEW x \in Int, NEW y \in Int, NEW c \in Nat \ {0}, x * c = y * c PROVE x = y
OBVIOUS

LEMMA DigitAppended ==
    ASSUME NEW x \in Nat, NEW y \in Nat, NEW d \in 0..9
    PROVE  /\ 10 * x + d \in Nat
           /\ x < y => 10 * x + d < 10 * y
           /\ d # 0 => 10 * x + d # 10 * y
OBVIOUS

LEMMA ProductsOrdered ==
    ASSUME NEW x \in Int, NEW y \in Int, NEW c \in Nat \ {0}
    PROVE  (x <= y => x * c <= y * c) /\ (x < y => x * c < y * c)
OBVIOUS

LEMMA TenToGrows ==
    ASSUME NEW a \in Nat, NEW b \in Nat, a <= b PROVE S!TenTo(a) <= S!TenTo(b)
<1>1. b - a \in Nat /\ a + (b - a) = b
  OBVIOUS
<1>2. S!TenTo(b) = S!TenTo(a) * S!TenTo(b - a)
  BY <1>1, TenToSum
<1>3. S!TenTo(a) \in Nat \ {0} /\ S!TenTo(b - a) \in Nat \ {0}
  BY <1>1, TenToPositive
<1>4. 1 * S!TenTo(a) <= S!TenTo(b - a) * S!TenTo(a)
  BY <1>3, ProductsOrdered
<1>5. S!TenTo(b - a) * S!TenTo(a) = S!TenTo(a) * S!TenTo(b - a)
  BY <1>3, Associative
<1> QED
  BY <1>2, <1>3, <1>4, <1>5

-----------------------------------------------------------------------------
(***************************************************************************)
(* A sum: what digits are worth.                                           *)
(***************************************************************************)
Values(f, s, n) == f = [k \in 0..n |-> IF k = 0 THEN 0 ELSE 10 * f[k - 1] + s[k]]

ValuesOf(s) == CHOOSE f : Values(f, s, Len(s))

LEMMA ValuesExist ==
    ASSUME NEW s, NEW n \in Nat
    PROVE  \E f : Values(f, s, n)
<1> DEFINE T == {m \in Nat : ~\E f : Values(f, s, m)}
<1> SUFFICES ASSUME T # {} PROVE FALSE
  OBVIOUS
<1>1. T \subseteq Nat
  OBVIOUS
<1>2. PICK m \in T : \A y \in T : m <= y
  <2> HIDE DEF T
  <2> QED
    BY <1>1, LeastNumber
<1>3. m \in Nat /\ ~\E f : Values(f, s, m)
  OBVIOUS
<1>4. m # 0
  <2> DEFINE f == [k \in 0..0 |-> 0]
  <2>1. f = [k \in 0..0 |-> IF k = 0 THEN 0 ELSE 10 * f[k - 1] + s[k]]
    OBVIOUS
  <2> HIDE DEF f
  <2> QED
    BY <1>3, <2>1 DEF Values
<1>5. PICK e : Values(e, s, m - 1)
  <2>1. m - 1 \in Nat /\ ~(m <= m - 1)
    BY <1>3, <1>4
  <2> QED
    BY <1>2, <2>1
<1> DEFINE f == [k \in 0..m |-> IF k = m THEN 10 * e[m - 1] + s[m] ELSE e[k]]
<1>6. f = [k \in 0..m |-> IF k = 0 THEN 0 ELSE 10 * f[k - 1] + s[k]]
  <2>1. ASSUME NEW k \in 0..m
        PROVE  f[k] = IF k = 0 THEN 0 ELSE 10 * f[k - 1] + s[k]
    <3>1. CASE k = m
      <4>1. f[k] = 10 * e[k - 1] + s[k] /\ k - 1 \in 0..m /\ k - 1 # m
        BY <1>3, <1>4, <3>1
      <4>2. f[k - 1] = e[k - 1]
        BY <4>1
      <4> QED
        BY <1>4, <3>1, <4>1, <4>2
    <3>2. CASE k # m
      <4>1. k \in 0..m - 1 /\ f[k] = e[k]
        BY <1>3, <3>2
      <4>2. e[k] = IF k = 0 THEN 0 ELSE 10 * e[k - 1] + s[k]
        BY <1>5, <4>1 DEF Values
      <4>3. k # 0 => k - 1 \in 0..m /\ k - 1 # m
        BY <1>3, <4>1
      <4> QED
        BY <4>1, <4>2, <4>3
    <3> QED
      BY <3>1, <3>2
  <2> DEFINE g == [k \in 0..m |-> IF k = 0 THEN 0 ELSE 10 * f[k - 1] + s[k]]
  <2>2. f = g
    BY <2>1
  <2> QED
    BY <2>2
<1> HIDE DEF f
<1> QED
  BY <1>3, <1>6 DEF Values

LEMMA ValuesBySteps ==
    ASSUME NEW s, Len(s) \in Nat
    PROVE  /\ ValuesOf(s)[0] = 0
           /\ \A k \in 1..Len(s) : ValuesOf(s)[k] = 10 * ValuesOf(s)[k - 1] + s[k]
           /\ S!Value(s) = ValuesOf(s)[Len(s)]
<1>1. Values(ValuesOf(s), s, Len(s))
  BY ValuesExist DEF ValuesOf
<1>2. S!Value(s) = ValuesOf(s)[Len(s)]
  BY DEF S!Value, ValuesOf, Values
<1> DEFINE f == ValuesOf(s)
<1> HIDE DEF f
<1>3. f = [k \in 0..Len(s) |-> IF k = 0 THEN 0 ELSE 10 * f[k - 1] + s[k]]
  BY <1>1 DEF Values, f
<1>4. 0 \in 0..Len(s) /\ \A k \in 1..Len(s) : k \in 0..Len(s) /\ k # 0
  OBVIOUS
<1>5. f[0] = 0 /\ \A k \in 1..Len(s) : f[k] = 10 * f[k - 1] + s[k]
  BY <1>3, <1>4
<1> QED
  BY <1>2, <1>5 DEF f

Digits(s) == Len(s) \in Nat /\ \A k \in 1..Len(s) : s[k] \in 0..9

LEMMA SequenceOfDigits ==
    ASSUME NEW s \in Seq(0..9)
    PROVE  Digits(s)
BY DEF Digits

\* k digits are worth less than the k-th power of ten.
LEMMA ValuesBounded ==
    ASSUME NEW s, Digits(s), NEW k \in 0..Len(s)
    PROVE  ValuesOf(s)[k] \in Nat /\ ValuesOf(s)[k] < S!TenTo(k)
<1> DEFINE P(j) == ValuesOf(s)[j] \in Nat /\ ValuesOf(s)[j] < S!TenTo(j)
           T == {m \in Nat : m <= Len(s) /\ ~P(m)}
<1>0. Len(s) \in Nat
  BY DEF Digits
<1>1. T = {}
  <2> SUFFICES ASSUME T # {} PROVE FALSE
    OBVIOUS
  <2>1. T \subseteq Nat
    OBVIOUS
  <2>2. PICK m \in T : \A y \in T : m <= y
    <3> HIDE DEF T
    <3> QED
      BY <2>1, LeastNumber
  <2>3. m \in Nat /\ m <= Len(s) /\ ~P(m)
    OBVIOUS
  <2>4. m # 0
    <3>1. P(0)
      BY <1>0, ValuesBySteps, TenToZero
    <3> HIDE DEF P
    <3> QED
      BY <2>3, <3>1
  <2>5. P(m - 1)
    <3>1. m - 1 \in Nat /\ m - 1 <= Len(s) /\ ~(m <= m - 1)
      BY <1>0, <2>3, <2>4
    <3> HIDE DEF P
    <3> QED
      BY <2>2, <3>1
  <2>6. m \in 1..Len(s) /\ m - 1 \in Nat /\ (m - 1) + 1 = m
    BY <1>0, <2>3, <2>4
  <2>7. ValuesOf(s)[m] = 10 * ValuesOf(s)[m - 1] + s[m] /\ s[m] \in 0..9
    BY <1>0, <2>6, ValuesBySteps DEF Digits
  <2>8. S!TenTo(m) = 10 * S!TenTo(m - 1) /\ S!TenTo(m - 1) \in Nat
    BY <2>6, TenToNext, TenToPositive
  <2>9. P(m)
    <3> HIDE DEF T
    <3>1. /\ 10 * ValuesOf(s)[m - 1] + s[m] \in Nat
          /\ 10 * ValuesOf(s)[m - 1] + s[m] < 10 * S!TenTo(m - 1)
      BY <2>5, <2>7, <2>8, DigitAppended
    <3> QED
      BY <2>7, <2>8, <3>1
  <2> HIDE DEF P
  <2> QED
    BY <2>3, <2>9
<1>2. P(k)
  <2>1. k \in Nat /\ k <= Len(s) /\ k \notin T
    BY <1>0, <1>1
  <2> HIDE DEF P
  <2> QED
    BY <2>1
<1> QED
  BY <1>2

LEMMA ValueBounded ==
    ASSUME NEW s, Digits(s) PROVE S!Value(s) \in Nat /\ S!Value(s) < S!TenTo(Len(s))
<1>1. Len(s) \in Nat /\ Len(s) \in 0..Len(s)
  BY DEF Digits
<1> QED
  BY <1>1, ValuesBounded, ValuesBySteps

\* With a first digit that is not zero they are worth the power before it.
LEMMA ValueOfFirst ==
    ASSUME NEW s, Digits(s), Len(s) # 0, s[1] # 0
    PROVE  S!Value(s) >= S!TenTo(Len(s) - 1)
<1> DEFINE P(j) == ValuesOf(s)[j] >= S!TenTo(j - 1)
           T == {m \in Nat : m \in 1..Len(s) /\ ~P(m)}
<1>0. Len(s) \in Nat /\ 1 \in 1..Len(s) /\ Len(s) \in 1..Len(s)
  BY DEF Digits
<1>1. T = {}
  <2> SUFFICES ASSUME T # {} PROVE FALSE
    OBVIOUS
  <2>1. T \subseteq Nat
    OBVIOUS
  <2>2. PICK m \in T : \A y \in T : m <= y
    <3> HIDE DEF T
    <3> QED
      BY <2>1, LeastNumber
  <2>3. m \in Nat /\ m \in 1..Len(s) /\ ~P(m)
    OBVIOUS
  <2>4. ValuesOf(s)[m] = 10 * ValuesOf(s)[m - 1] + s[m] /\ s[m] \in 0..9
    BY <1>0, <2>3, ValuesBySteps DEF Digits
  <2>5. m # 1
    <3>1. ValuesOf(s)[1] = 10 * ValuesOf(s)[0] + s[1] /\ s[1] \in 1..9
      BY <1>0, ValuesBySteps DEF Digits
    <3>2. ValuesOf(s)[0] = 0
      BY <1>0, ValuesBySteps
    <3>3. P(1)
      BY <3>1, <3>2, TenToZero, SMTT(60)
    <3> HIDE DEF P
    <3> QED
      BY <2>3, <3>3
  <2>6. m - 1 \in Nat /\ m - 1 \in 1..Len(s) /\ ~(m <= m - 1) /\ m - 2 \in Nat
        /\ (m - 2) + 1 = m - 1 /\ (m - 1) - 1 = m - 2 /\ m - 1 \in 0..Len(s)
    BY <1>0, <2>3, <2>5
  <2>7. P(m - 1)
    <3> HIDE DEF P
    <3> QED
      BY <2>2, <2>6
  <2>8. S!TenTo(m - 1) = 10 * S!TenTo(m - 2) /\ S!TenTo(m - 2) \in Nat
    BY <2>6, TenToNext, TenToPositive
  <2>9. ValuesOf(s)[m - 1] \in Nat /\ ValuesOf(s)[m - 1] >= S!TenTo(m - 2)
    BY <2>6, <2>7, ValuesBounded
  <2>10. P(m)
    <3> HIDE DEF T
    <3> QED
      BY <2>4, <2>8, <2>9, SMTT(60)
  <2> HIDE DEF P
  <2> QED
    BY <2>3, <2>10
<1>2. P(Len(s))
  <2>1. Len(s) \notin T
    BY <1>1
  <2> HIDE DEF P
  <2> QED
    BY <1>0, <2>1
<1> QED
  BY <1>0, <1>2, ValuesBySteps

\* With a last digit that is not zero ten does not divide them.
LEMMA ValueOfLast ==
    ASSUME NEW s, Digits(s), Len(s) # 0, s[Len(s)] # 0
    PROVE  \A q \in Nat : S!Value(s) # 10 * q
<1> DEFINE n == Len(s)
<1>1. n \in Nat /\ n \in 1..n /\ n - 1 \in 0..n
  BY DEF Digits
<1>2. ValuesOf(s)[n] = 10 * ValuesOf(s)[n - 1] + s[n] /\ s[n] \in 1..9
  BY <1>1, ValuesBySteps DEF Digits
<1>3. ValuesOf(s)[n - 1] \in Nat
  BY <1>1, ValuesBounded
<1>4. S!Value(s) = ValuesOf(s)[n]
  BY <1>1, ValuesBySteps
<1> HIDE DEF n
<1>5. ASSUME NEW q \in Nat PROVE 10 * ValuesOf(s)[n - 1] + s[n] # 10 * q
  <2>1. s[n] \in 0..9 /\ s[n] # 0
    BY <1>2
  <2> QED
    BY <1>3, <2>1, DigitAppended
<1> QED
  BY <1>2, <1>4, <1>5

\* Zeros in front count nothing.
LEMMA ValuesOfZeros ==
    ASSUME NEW s, Digits(s), NEW a \in 0..Len(s), \A k \in 1..a : s[k] = 0
    PROVE  ValuesOf(s)[a] = 0
<1> DEFINE T == {m \in Nat : m <= a /\ ValuesOf(s)[m] # 0}
<1>0. Len(s) \in Nat /\ a \in Nat
  BY DEF Digits
<1>1. T = {}
  <2> SUFFICES ASSUME T # {} PROVE FALSE
    OBVIOUS
  <2>1. T \subseteq Nat
    OBVIOUS
  <2>2. PICK m \in T : \A y \in T : m <= y
    <3> HIDE DEF T
    <3> QED
      BY <2>1, LeastNumber
  <2>3. m \in Nat /\ m <= a /\ ValuesOf(s)[m] # 0
    OBVIOUS
  <2>4. m # 0
    BY <1>0, <2>3, ValuesBySteps
  <2>5. m \in 1..Len(s) /\ m \in 1..a /\ m - 1 \in Nat /\ m - 1 <= a /\ ~(m <= m - 1)
    BY <1>0, <2>3, <2>4
  <2>6. ValuesOf(s)[m - 1] = 0
    BY <2>2, <2>5
  <2>7. ValuesOf(s)[m] = 10 * ValuesOf(s)[m - 1] + s[m] /\ s[m] = 0
    BY <1>0, <2>5, ValuesBySteps
  <2> QED
    BY <2>3, <2>6, <2>7
<1> QED
  BY <1>0, <1>1

\* Digits behind others that count nothing are worth what they are alone.
LEMMA ValuesOfPart ==
    ASSUME NEW s, NEW t, Digits(s), Digits(t), NEW a \in 0..Len(s), a + Len(t) <= Len(s),
           \A j \in 1..Len(t) : t[j] = s[a + j], ValuesOf(s)[a] = 0
    PROVE  S!Value(t) = ValuesOf(s)[a + Len(t)]
<1> DEFINE T == {m \in Nat : m <= Len(t) /\ ValuesOf(t)[m] # ValuesOf(s)[a + m]}
<1>0. Len(s) \in Nat /\ a \in Nat /\ Len(t) \in Nat
  BY DEF Digits
<1>1. T = {}
  <2> SUFFICES ASSUME T # {} PROVE FALSE
    OBVIOUS
  <2>1. T \subseteq Nat
    OBVIOUS
  <2>2. PICK m \in T : \A y \in T : m <= y
    <3> HIDE DEF T
    <3> QED
      BY <2>1, LeastNumber
  <2>3. m \in Nat /\ m <= Len(t) /\ ValuesOf(t)[m] # ValuesOf(s)[a + m]
    OBVIOUS
  <2>4. m # 0
    <3>1. ValuesOf(t)[0] = 0 /\ a + 0 = a
      BY <1>0, ValuesBySteps
    <3> QED
      BY <2>3, <3>1
  <2>5. m \in 1..Len(t) /\ a + m \in 1..Len(s) /\ (a + m) - 1 = a + (m - 1)
        /\ m - 1 \in Nat /\ m - 1 <= Len(t) /\ ~(m <= m - 1)
    BY <1>0, <2>3, <2>4
  <2>6. ValuesOf(t)[m - 1] = ValuesOf(s)[a + (m - 1)]
    BY <2>2, <2>5
  <2>7. /\ ValuesOf(t)[m] = 10 * ValuesOf(t)[m - 1] + t[m]
        /\ ValuesOf(s)[a + m] = 10 * ValuesOf(s)[(a + m) - 1] + s[a + m]
        /\ t[m] = s[a + m]
    BY <1>0, <2>5, ValuesBySteps
  <2> QED
    BY <2>3, <2>5, <2>6, <2>7
<1>2. ValuesOf(t)[Len(t)] = ValuesOf(s)[a + Len(t)]
  BY <1>0, <1>1
<1> QED
  BY <1>0, <1>2, ValuesBySteps

\* Zeros behind them multiply by a power of ten.
LEMMA ValuesBeforeZeros ==
    ASSUME NEW s, Digits(s), NEW b \in 0..Len(s), \A k \in b + 1..Len(s) : s[k] = 0
    PROVE  S!Value(s) = ValuesOf(s)[b] * S!TenTo(Len(s) - b)
<1> DEFINE T == {m \in Nat : m <= Len(s) - b
                               /\ ValuesOf(s)[b + m] # ValuesOf(s)[b] * S!TenTo(m)}
<1>0. Len(s) \in Nat /\ b \in Nat /\ ValuesOf(s)[b] \in Int
  <2>1. ValuesOf(s)[b] \in Nat
    BY ValuesBounded
  <2> QED
    BY <2>1 DEF Digits
<1>1. T = {}
  <2> SUFFICES ASSUME T # {} PROVE FALSE
    OBVIOUS
  <2>1. T \subseteq Nat
    OBVIOUS
  <2>2. PICK m \in T : \A y \in T : m <= y
    <3> HIDE DEF T
    <3> QED
      BY <2>1, LeastNumber
  <2>3. m \in Nat /\ m <= Len(s) - b /\ ValuesOf(s)[b + m] # ValuesOf(s)[b] * S!TenTo(m)
    OBVIOUS
  <2>4. m # 0
    <3>1. ValuesOf(s)[b] * 1 = ValuesOf(s)[b] /\ b + 0 = b
      BY <1>0
    <3> QED
      BY <2>3, <3>1, TenToZero
  <2>5. b + m \in 1..Len(s) /\ b + m \in b + 1..Len(s) /\ (b + m) - 1 = b + (m - 1)
        /\ m - 1 \in Nat /\ m - 1 <= Len(s) - b /\ ~(m <= m - 1) /\ (m - 1) + 1 = m
    BY <1>0, <2>3, <2>4
  <2>6. ValuesOf(s)[b + (m - 1)] = ValuesOf(s)[b] * S!TenTo(m - 1)
    BY <2>2, <2>5
  <2>7. ValuesOf(s)[b + m] = 10 * ValuesOf(s)[(b + m) - 1] + s[b + m] /\ s[b + m] = 0
    BY <1>0, <2>5, ValuesBySteps
  <2>8. S!TenTo(m) = 10 * S!TenTo(m - 1) /\ S!TenTo(m - 1) \in Int
    <3> HIDE DEF T
    <3>1. m - 1 \in Nat /\ (m - 1) + 1 = m
      BY <2>5
    <3>2. S!TenTo((m - 1) + 1) = 10 * S!TenTo(m - 1) /\ S!TenTo(m - 1) \in Nat \ {0}
      BY <3>1, TenToNext, TenToPositive
    <3> QED
      BY <3>1, <3>2
  <2>9. ASSUME NEW x \in Int, NEW y \in Int PROVE 10 * (x * y) + 0 = x * (10 * y)
    BY Associative
  <2>10. 10 * (ValuesOf(s)[b] * S!TenTo(m - 1)) + 0 = ValuesOf(s)[b] * (10 * S!TenTo(m - 1))
    BY <1>0, <2>8, <2>9
  <2> QED
    BY <2>3, <2>5, <2>6, <2>7, <2>8, <2>10
<1>2. Len(s) - b \in Nat /\ b + (Len(s) - b) = Len(s)
  BY <1>0
<1>3. ValuesOf(s)[b + (Len(s) - b)] = ValuesOf(s)[b] * S!TenTo(Len(s) - b)
  <2>1. Len(s) - b <= Len(s) - b /\ Len(s) - b \notin T
    BY <1>1, <1>2
  <2> QED
    BY <1>2, <2>1
<1> QED
  BY <1>0, <1>2, <1>3, ValuesBySteps

-----------------------------------------------------------------------------
(***************************************************************************)
(* A sum: zeros at both ends.                                              *)
(***************************************************************************)
LEMMA LeastOf ==
    ASSUME NEW T, T \subseteq Nat, T # {}
    PROVE  S!Min(T) \in T /\ \A y \in T : S!Min(T) <= y
BY LeastNumber DEF S!Min

LEMMA GreatestOf ==
    ASSUME NEW n \in Nat, NEW T, T \subseteq 0..n, T # {}
    PROVE  S!Max(T) \in T /\ \A y \in T : y <= S!Max(T)
<1> DEFINE U == {n - t : t \in T}
<1>1. U \subseteq Nat /\ U # {}
  <2>1. \A t \in T : t \in 0..n /\ n - t \in Nat
    OBVIOUS
  <2> QED
    BY <2>1
<1>2. PICK u \in U : \A y \in U : u <= y
  <2> HIDE DEF U
  <2> QED
    BY <1>1, LeastNumber
<1>3. PICK t \in T : u = n - t
  OBVIOUS
<1>4. ASSUME NEW y \in T PROVE y <= t
  <2>1. n - t <= n - y
    BY <1>2, <1>3
  <2>2. t \in Int /\ y \in Int
    OBVIOUS
  <2> QED
    BY <2>1, <2>2
<1>5. \E x \in T : \A y \in T : x >= y
  <2>1. \A y \in T : t >= y
    <3>1. T \subseteq Int
      OBVIOUS
    <3> QED
      BY <1>4, <3>1
  <2> QED
    BY <2>1
<1>6. S!Max(T) \in T /\ \A y \in T : S!Max(T) >= y
  BY <1>5 DEF S!Max
<1>7. T \subseteq Int
  OBVIOUS
<1> HIDE DEF U
<1> QED
  BY <1>6, <1>7

\* What TrimLeft leaves is worth the same, and begins with no zero.
LEMMA TrimmedLeft ==
    ASSUME NEW s \in Seq(0..9)
    PROVE  /\ S!TrimLeft(s) \in Seq(0..9)
           /\ Len(S!TrimLeft(s)) <= Len(s)
           /\ S!Value(S!TrimLeft(s)) = S!Value(s)
           /\ Len(S!TrimLeft(s)) # 0 => S!TrimLeft(s)[1] # 0
<1> DEFINE T == S!NonZero(s) \cup {Len(s) + 1}
           first == S!Min(T)
           t == S!TrimLeft(s)
<1>1. T \subseteq 1..Len(s) + 1 /\ T \subseteq Nat /\ T # {}
  BY DEF S!NonZero
<1>2. first \in T /\ \A y \in T : first <= y
  <2> HIDE DEF T
  <2> QED
    BY <1>1, LeastOf
<1>3. first \in 1..Len(s) + 1 /\ first - 1 \in 0..Len(s)
  BY <1>1, <1>2
<1>4. ASSUME NEW k \in 1..first - 1 PROVE s[k] = 0
  <2>1. k \in DOMAIN s /\ ~(first <= k)
    BY <1>3
  <2>2. k \notin T
    BY <1>2, <2>1
  <2> QED
    BY <2>1, <2>2 DEF S!NonZero
<1>5. first <= Len(s) => s[first] # 0
  BY <1>2, <1>3 DEF S!NonZero
<1>6. t = SubSeq(s, first, Len(s))
  BY DEF S!TrimLeft
<1> HIDE DEF T, first, t
<1>7. /\ t \in Seq(0..9) /\ Len(t) = Len(s) - (first - 1)
      /\ \A j \in 1..Len(t) : t[j] = s[(first - 1) + j]
  <2>1. /\ Len(t) = IF first <= Len(s) THEN Len(s) - first + 1 ELSE 0
        /\ \A j \in 1..Len(t) : t[j] = s[first + j - 1]
    BY <1>3, <1>6
  <2>2. t \in Seq(0..9)
    BY <1>3, <1>6, SMTT(60)
  <2>3. Len(t) = Len(s) - (first - 1)
    BY <1>3, <2>1
  <2>4. \A j \in 1..Len(t) : first + j - 1 = (first - 1) + j
    BY <1>3
  <2> QED
    BY <2>1, <2>2, <2>3, <2>4
<1>8. Digits(s) /\ Digits(t)
  BY <1>7, SequenceOfDigits
<1>9. ValuesOf(s)[first - 1] = 0
  BY <1>3, <1>4, <1>8, ValuesOfZeros
<1>10. (first - 1) + Len(t) = Len(s)
  BY <1>3, <1>7
<1>11. S!Value(t) = ValuesOf(s)[Len(s)]
  <2>1. (first - 1) + Len(t) <= Len(s)
    BY <1>10
  <2>2. S!Value(t) = ValuesOf(s)[(first - 1) + Len(t)]
    BY <1>3, <1>7, <1>8, <1>9, <2>1, ValuesOfPart
  <2> QED
    BY <1>10, <2>2
<1>12. S!Value(t) = S!Value(s)
  BY <1>11, ValuesBySteps
<1>13. Len(t) # 0 => t[1] # 0
  <2>1. Len(t) \in Nat /\ (Len(t) # 0 => 1 \in 1..Len(t) /\ (first - 1) + 1 = first)
    BY <1>3, <1>7
  <2> QED
    BY <1>3, <1>5, <1>7, <2>1, SMTT(60)
<1> QED
  BY <1>3, <1>7, <1>12, <1>13 DEF t

\* What TrimRight leaves ends with no zero, and is worth less by a power of ten.
LEMMA TrimmedRight ==
    ASSUME NEW s \in Seq(0..9)
    PROVE  /\ S!TrimRight(s) \in Seq(0..9)
           /\ Len(S!TrimRight(s)) <= Len(s)
           /\ S!Value(s) = S!Value(S!TrimRight(s)) * S!TenTo(Len(s) - Len(S!TrimRight(s)))
           /\ Len(S!TrimRight(s)) # 0 => S!TrimRight(s)[Len(S!TrimRight(s))] # 0
           /\ Len(s) # 0 /\ s[1] # 0 =>
                 Len(S!TrimRight(s)) # 0 /\ S!TrimRight(s)[1] # 0
<1> DEFINE T == S!NonZero(s) \cup {0}
           end == S!Max(T)
           t == S!TrimRight(s)
<1>1. T \subseteq 0..Len(s) /\ T # {} /\ Len(s) \in Nat
  BY DEF S!NonZero
<1>2. end \in T /\ \A y \in T : y <= end
  <2> HIDE DEF T
  <2> QED
    BY <1>1, GreatestOf
<1>3. end \in 0..Len(s)
  BY <1>1, <1>2
<1>4. ASSUME NEW k \in end + 1..Len(s) PROVE s[k] = 0
  <2>1. k \in DOMAIN s /\ ~(k <= end)
    BY <1>3
  <2>2. k \notin T
    BY <1>2, <2>1
  <2> QED
    BY <2>1, <2>2 DEF S!NonZero
<1>5. end # 0 => s[end] # 0
  BY <1>2 DEF S!NonZero
<1>6. t = SubSeq(s, 1, end)
  BY DEF S!TrimRight
<1>7. Len(s) # 0 /\ s[1] # 0 => end # 0
  <2>1. Len(s) # 0 /\ s[1] # 0 => 1 \in T
    BY <1>1 DEF S!NonZero
  <2> HIDE DEF T
  <2> QED
    BY <1>2, <1>3, <2>1
<1> HIDE DEF T, end, t
<1>8. /\ t \in Seq(0..9) /\ Len(t) = end
      /\ \A j \in 1..Len(t) : t[j] = s[j]
  <2>1. Len(t) = end /\ \A j \in 1..end : t[j] = s[1 + j - 1]
    BY <1>3, <1>6
  <2>2. \A j \in 1..end : 1 + j - 1 = j
    BY <1>3
  <2>3. t \in Seq(0..9)
    BY <1>3, <1>6
  <2> QED
    BY <2>1, <2>2, <2>3
<1>9. Digits(s) /\ Digits(t)
  BY <1>8, SequenceOfDigits
<1>10. S!Value(t) = ValuesOf(s)[end]
  <2>1. ValuesOf(s)[0] = 0 /\ 0 \in 0..Len(s) /\ 0 + Len(t) = Len(t) /\ Len(t) <= Len(s)
        /\ \A j \in 1..Len(t) : 0 + j = j
    BY <1>1, <1>3, <1>8, ValuesBySteps
  <2> QED
    BY <1>8, <1>9, <2>1, ValuesOfPart
<1>11. S!Value(s) = ValuesOf(s)[end] * S!TenTo(Len(s) - end)
  BY <1>3, <1>4, <1>9, ValuesBeforeZeros
<1>12. end # 0 => end \in 1..Len(t) /\ 1 \in 1..Len(t)
  BY <1>3, <1>8
<1> QED
  BY <1>3, <1>5, <1>7, <1>8, <1>10, <1>11, <1>12 DEF t

-----------------------------------------------------------------------------
(***************************************************************************)
(* A sum: what ParseSum makes of it.                                       *)
(***************************************************************************)
\* m * 10^p = h, where m has n digits.
SameNumber(m, n, p, h) ==
    IF m = 0 \/ h = 0
    THEN m = h
    ELSE \/ p \in 0..MaxDigits + 2 /\ m * S!TenTo(p) = h
         \/ -p \in 1..n /\ h * S!TenTo(-p) = m

LEMMA EqualIsSame ==
    ASSUME NEW t, NEW h
    PROVE  S!Equal(S!Decimal(t), h) <=>
           SameNumber(S!Value(t.integer \o t.fraction), Len(t.integer) + Len(t.fraction),
                      t.sign * S!Value(t.exponent) - Len(t.fraction) + 2, h)
<1> DEFINE m == S!Value(t.integer \o t.fraction)
           n == Len(t.integer) + Len(t.fraction)
           p == t.sign * S!Value(t.exponent) - Len(t.fraction) + 2
<1>1. S!Decimal(t) = [mantissa |-> m, length |-> n, power |-> p]
  BY DEF S!Decimal
<1> HIDE DEF m, n, p
<1> DEFINE x == [mantissa |-> m, length |-> n, power |-> p]
<1>2. x.mantissa = m /\ x.length = n /\ x.power = p
  OBVIOUS
<1> HIDE DEF x
<1>3. S!Equal(x, h) <=> SameNumber(m, n, p, h)
  BY <1>2, Zenon DEF S!Equal, SameNumber
<1> QED
  BY <1>1, <1>3 DEF x, m, n, p

LEMMA DigitsAreFew == MaxDigits \in Nat \ {0}
BY InputsAssumption DEF S!ConstantsAssumption

LEMMA TenToSplit ==
    ASSUME NEW a \in Nat, NEW b \in Nat, NEW c \in Nat, a = b + c
    PROVE  /\ S!TenTo(a) = S!TenTo(b) * S!TenTo(c)
           /\ S!TenTo(b) \in Int /\ S!TenTo(c) \in Int
BY TenToSum, TenToPositive

\* A number of w digits, v, whose last is no zero, and z zeros, that stands for v * 10^x
\* units, is accepted as it is ...
LEMMA AcceptedIsSame ==
    ASSUME NEW v \in Nat \ {0}, NEW w \in Nat, v < S!TenTo(w), NEW z \in Nat, NEW n \in Nat,
           z <= n, NEW p \in Int, p + z >= 0, w + p + z <= MaxDigits + 2
    PROVE  /\ v * S!TenTo(p + z) \in 1..S!TenTo(MaxDigits + 2) - 1
           /\ SameNumber(v * S!TenTo(z), n, p, v * S!TenTo(p + z))
<1> DEFINE a == v * S!TenTo(p + z)
           m == v * S!TenTo(z)
<1>0. MaxDigits \in Nat /\ p + z \in Nat /\ w + (p + z) \in Nat /\ MaxDigits + 2 \in Nat
  BY DigitsAreFew
<1>1. S!TenTo(p + z) \in Nat \ {0} /\ S!TenTo(z) \in Nat \ {0} /\ S!TenTo(w) \in Nat \ {0}
  BY <1>0, TenToPositive
<1>2. a < S!TenTo(MaxDigits + 2)
  <2>1. a < S!TenTo(w) * S!TenTo(p + z)
    BY <1>1, ProductsOrdered
  <2>2. S!TenTo(w) * S!TenTo(p + z) = S!TenTo(w + (p + z))
    BY <1>0, TenToSum
  <2>3. w + (p + z) <= MaxDigits + 2
    BY <1>0
  <2>4. S!TenTo(w + (p + z)) <= S!TenTo(MaxDigits + 2)
    BY <1>0, <2>3, TenToGrows
  <2>5. S!TenTo(w + (p + z)) \in Nat /\ S!TenTo(MaxDigits + 2) \in Nat /\ a \in Int
    BY <1>0, <1>1, TenToPositive, Associative
  <2> HIDE DEF a
  <2> QED
    BY <2>1, <2>2, <2>4, <2>5
<1>3. a \in Nat \ {0} /\ m \in Nat \ {0}
  <2>1. 1 * S!TenTo(p + z) <= a /\ 1 * S!TenTo(z) <= m
    BY <1>1, ProductsOrdered
  <2>2. a \in Int /\ m \in Int
    BY <1>1, Associative
  <2> HIDE DEF a, m
  <2> QED
    BY <1>1, <2>1, <2>2
<1>4. CASE p >= 0
  <2>1. p \in Nat /\ p \in 0..MaxDigits + 2 /\ p + z = z + p
    BY <1>0, <1>4
  <2>2. S!TenTo(z + p) = S!TenTo(z) * S!TenTo(p) /\ S!TenTo(p) \in Int
    BY <2>1, TenToSum, TenToPositive
  <2>3. m * S!TenTo(p) = v * (S!TenTo(z) * S!TenTo(p))
    BY <1>1, <2>2, Associative
  <2>4. m * S!TenTo(p) = a
    BY <2>1, <2>2, <2>3
  <2> HIDE DEF a, m
  <2>5. SameNumber(m, n, p, a)
    BY <1>3, <2>1, <2>4 DEF SameNumber
  <2> QED
    BY <1>0, <1>2, <1>3, <2>5, TenToPositive DEF a, m
<1>5. CASE p < 0
  <2>1. -p \in Nat /\ -p \in 1..n /\ z = (p + z) + (-p)
    BY <1>0, <1>5
  <2>2. S!TenTo(z) = S!TenTo(p + z) * S!TenTo(-p) /\ S!TenTo(-p) \in Int
    BY <1>0, <2>1, TenToSplit
  <2>3. a * S!TenTo(-p) = v * (S!TenTo(p + z) * S!TenTo(-p))
    BY <1>1, <2>2, Associative
  <2>4. a * S!TenTo(-p) = m
    BY <2>1, <2>2, <2>3
  <2> HIDE DEF a, m
  <2>5. SameNumber(m, n, p, a)
    BY <1>3, <2>1, <2>4 DEF SameNumber
  <2> QED
    BY <1>0, <1>2, <1>3, <2>5, TenToPositive DEF a, m
<1> QED
  BY <1>4, <1>5

\* ... or stands for no number of hundredths that the column holds.
LEMMA RefusedIsNone ==
    ASSUME NEW v \in Nat \ {0}, NEW w \in Nat \ {0}, v >= S!TenTo(w - 1),
           \A q \in Nat : v # 10 * q,
           NEW z \in Nat, NEW n \in Nat, NEW p \in Int,
           p + z < 0 \/ w + p + z > MaxDigits + 2,
           NEW h \in 1..S!TenTo(MaxDigits + 2) - 1
    PROVE  ~SameNumber(v * S!TenTo(z), n, p, h)
<1> DEFINE m == v * S!TenTo(z)
<1> SUFFICES ASSUME SameNumber(m, n, p, h) PROVE FALSE
  OBVIOUS
<1>0. MaxDigits \in Nat /\ MaxDigits + 2 \in Nat /\ w - 1 \in Nat
  BY DigitsAreFew
<1>1. /\ S!TenTo(MaxDigits + 2) \in Nat \ {0} /\ S!TenTo(z) \in Nat \ {0}
      /\ S!TenTo(w - 1) \in Nat \ {0}
  BY <1>0, TenToPositive
<1>2. h \in Nat \ {0} /\ h < S!TenTo(MaxDigits + 2)
  BY <1>1
<1>3. m \in Nat \ {0}
  <2>1. 1 * S!TenTo(z) <= m
    BY <1>1, ProductsOrdered
  <2>2. m \in Int
    BY <1>1, Associative
  <2> HIDE DEF m
  <2> QED
    BY <1>1, <2>1, <2>2
\* A power of v's as large as this is too large.
<1>4. ASSUME NEW k \in Nat, w + k > MaxDigits + 2 PROVE h # v * S!TenTo(k)
  <2>1. S!TenTo(k) \in Nat \ {0} /\ (w - 1) + k \in Nat /\ MaxDigits + 2 <= (w - 1) + k
    BY <1>0, <1>4, TenToPositive
  <2>2. S!TenTo(w - 1) * S!TenTo(k) <= v * S!TenTo(k)
    BY <1>1, <2>1, ProductsOrdered
  <2>3. S!TenTo((w - 1) + k) = S!TenTo(w - 1) * S!TenTo(k)
    BY <1>0, TenToSum
  <2>4. S!TenTo(MaxDigits + 2) <= S!TenTo((w - 1) + k)
    BY <1>0, <2>1, TenToGrows
  <2>5. v * S!TenTo(k) \in Int /\ S!TenTo((w - 1) + k) \in Int
    BY <2>1, Associative, TenToPositive
  <2> DEFINE u == v * S!TenTo(k)
             o == S!TenTo((w - 1) + k)
  <2>6. o <= u /\ S!TenTo(MaxDigits + 2) <= o /\ o \in Int /\ u \in Int
    BY <2>2, <2>3, <2>4, <2>5
  <2> HIDE DEF u, o
  <2>7. h # u
    BY <1>1, <1>2, <2>6
  <2> QED
    BY <2>7 DEF u
<1>5. CASE p \in Nat /\ m * S!TenTo(p) = h
  <2>1. z + p \in Nat /\ w + (z + p) > MaxDigits + 2
    BY <1>0, <1>5
  <2>2. S!TenTo(z + p) = S!TenTo(z) * S!TenTo(p) /\ S!TenTo(p) \in Int
    BY <1>5, TenToSum, TenToPositive
  <2>3. m * S!TenTo(p) = v * (S!TenTo(z) * S!TenTo(p))
    BY <1>1, <2>2, Associative
  <2> QED
    BY <1>4, <1>5, <2>1, <2>2, <2>3
<1>6. CASE -p \in Nat \ {0} /\ h * S!TenTo(-p) = m
  <2>1. S!TenTo(-p) \in Nat \ {0}
    BY <1>6, TenToPositive
  <2>2. CASE p + z < 0
    <3> DEFINE k == -p - z - 1
    <3>1. k \in Nat /\ k + 1 \in Nat /\ -p \in Nat /\ -p = (k + 1) + z
      BY <1>6, <2>2
    <3> HIDE DEF k
    <3>2. S!TenTo(-p) = S!TenTo(k + 1) * S!TenTo(z) /\ S!TenTo(k + 1) \in Int
      BY <3>1, TenToSplit
    <3>3. (h * S!TenTo(k + 1)) * S!TenTo(z) = h * (S!TenTo(k + 1) * S!TenTo(z))
      BY <1>1, <1>2, <3>2, Associative
    <3>4. h * S!TenTo(k + 1) = v
      <4>1. (h * S!TenTo(k + 1)) * S!TenTo(z) = v * S!TenTo(z)
        BY <1>6, <3>2, <3>3
      <4>2. h * S!TenTo(k + 1) \in Int
        BY <1>2, <3>2, Associative
      <4> QED
        BY <1>1, <4>1, <4>2, Cancelled
    <3>5. S!TenTo(k + 1) = 10 * S!TenTo(k) /\ S!TenTo(k) \in Nat
      BY <3>1, TenToNext, TenToPositive
    <3>6. h * (10 * S!TenTo(k)) = 10 * (h * S!TenTo(k)) /\ h * S!TenTo(k) \in Nat
      <4>1. ASSUME NEW x \in Nat, NEW y \in Nat PROVE x * (10 * y) = 10 * (x * y) /\ x * y \in Nat
        OBVIOUS
      <4> QED
        BY <1>2, <3>5, <4>1
    <3>7. v = 10 * (h * S!TenTo(k))
      BY <3>4, <3>5, <3>6
    <3> QED
      BY <3>6, <3>7
  <2>3. CASE p + z >= 0
    <3>1. p + z \in Nat /\ z = (p + z) + (-p) /\ -p \in Nat /\ w + (p + z) > MaxDigits + 2
      BY <1>0, <1>6, <2>3
    <3>2. S!TenTo(z) = S!TenTo(p + z) * S!TenTo(-p) /\ S!TenTo(p + z) \in Int
      BY <3>1, TenToSplit
    <3>3. v * (S!TenTo(p + z) * S!TenTo(-p)) = (v * S!TenTo(p + z)) * S!TenTo(-p)
          /\ v * S!TenTo(p + z) \in Int
      BY <2>1, <3>2, Associative
    <3>4. h * S!TenTo(-p) = (v * S!TenTo(p + z)) * S!TenTo(-p)
      BY <1>6, <3>2, <3>3
    <3>5. h = v * S!TenTo(p + z)
      BY <1>2, <2>1, <3>3, <3>4, Cancelled
    <3> QED
      BY <1>4, <3>1, <3>5
  <2> QED
    BY <2>2, <2>3
<1>7. \/ p \in Nat /\ m * S!TenTo(p) = h
      \/ -p \in Nat \ {0} /\ h * S!TenTo(-p) = m
  <2> HIDE DEF m
  <2>1. \/ p \in 0..MaxDigits + 2 /\ m * S!TenTo(p) = h
        \/ -p \in 1..n /\ h * S!TenTo(-p) = m
    BY <1>2, <1>3 DEF SameNumber
  <2> QED
    BY <1>0, <2>1
<1> QED
  BY <1>5, <1>6, <1>7

-----------------------------------------------------------------------------
(***************************************************************************)
(* A sum: how a text is parsed.                                            *)
(***************************************************************************)
LEMMA TextOfDigits ==
    ASSUME NEW t \in Texts
    PROVE  /\ t.integer \in Seq(0..9) /\ t.fraction \in Seq(0..9) /\ t.exponent \in Seq(0..9)
           /\ t.sign \in {-1, 1}
           /\ ~(Len(t.integer) > 1 /\ t.integer[1] = 0)
           /\ Len(t.integer) + Len(t.fraction) + MaxDigits + 2 < S!TenTo(MaxDigits)
           /\ Invalid \notin Int
BY InputsAssumption DEF S!ConstantsAssumption

\* An exponent that is too long is larger than the number is long.
LEMMA ExponentParsed ==
    ASSUME NEW t \in Texts
    PROVE  /\ S!Value(t.exponent) \in Nat
           /\ S!ParsedExponent(t) # Invalid =>
                 S!ParsedExponent(t) = t.sign * S!Value(t.exponent)
           /\ S!ParsedExponent(t) = Invalid => S!Value(t.exponent) >= S!TenTo(MaxDigits)
<1> DEFINE d == S!TrimLeft(t.exponent)
           e == S!Value(t.exponent)
<1>1. /\ d \in Seq(0..9) /\ S!Value(d) = e
      /\ Len(d) # 0 => d[1] # 0
  BY TextOfDigits, TrimmedLeft
<1>2. Digits(d) /\ e \in Nat
  BY <1>1, SequenceOfDigits, ValueBounded
<1>3. S!ParsedExponent(t) = IF Len(d) > MaxDigits THEN Invalid ELSE t.sign * S!Value(d)
  BY DEF S!ParsedExponent
<1>4. t.sign * e \in Int /\ Invalid \notin Int
  <2>1. t.sign \in {-1, 1} /\ Invalid \notin Int
    BY TextOfDigits, Zenon
  <2> HIDE DEF e
  <2> QED
    BY <1>2, <2>1
<1> HIDE DEF d, e
<1>5. CASE Len(d) > MaxDigits
  <2>1. MaxDigits \in Nat /\ Len(d) - 1 \in Nat /\ MaxDigits <= Len(d) - 1 /\ Len(d) # 0
    BY <1>1, <1>5, DigitsAreFew
  <2>2. S!TenTo(MaxDigits) <= S!TenTo(Len(d) - 1)
    BY <2>1, TenToGrows
  <2>3. e >= S!TenTo(Len(d) - 1)
    BY <1>1, <1>2, <2>1, ValueOfFirst
  <2>4. S!TenTo(MaxDigits) \in Int /\ S!TenTo(Len(d) - 1) \in Int
    BY <2>1, TenToPositive, SMTT(60)
  <2>5. e >= S!TenTo(MaxDigits)
    BY <1>2, <2>2, <2>3, <2>4
  <2> QED
    BY <1>2, <1>3, <1>5, <2>5 DEF e
<1>6. CASE ~(Len(d) > MaxDigits)
  <2>1. S!ParsedExponent(t) = t.sign * e
    BY <1>1, <1>3, <1>6
  <2>2. S!ParsedExponent(t) # Invalid
    BY <1>4, <2>1
  <2> QED
    BY <1>2, <2>1, <2>2 DEF e
<1> QED
  BY <1>5, <1>6

Kept(s) == S!Significant(S!TrimLeft(s))
Zeros(s) == Len(S!TrimLeft(s)) - Len(Kept(s))

LEMMA NothingKept ==
    ASSUME NEW s \in Seq(0..9), S!TrimLeft(s) = <<>> PROVE S!Value(s) = 0
<1>1. S!Value(s) = S!Value(<<>>) /\ Len(<<>>) = 0
  BY TrimmedLeft
<1> QED
  BY <1>1, ValuesBySteps

LEMMA KeptDigits ==
    ASSUME NEW s \in Seq(0..9), S!TrimLeft(s) # <<>>
    PROVE  /\ Zeros(s) \in Nat /\ Zeros(s) <= Len(s)
           /\ Len(Kept(s)) \in Nat \ {0}
           /\ S!Value(Kept(s)) \in Nat \ {0}
           /\ S!Value(Kept(s)) < S!TenTo(Len(Kept(s)))
           /\ S!Value(Kept(s)) >= S!TenTo(Len(Kept(s)) - 1)
           /\ \A q \in Nat : S!Value(Kept(s)) # 10 * q
           /\ S!Value(s) = S!Value(Kept(s)) * S!TenTo(Zeros(s))
<1> DEFINE d == S!TrimLeft(s)
           g == Kept(s)
<1>1. /\ d \in Seq(0..9) /\ Len(d) <= Len(s) /\ S!Value(d) = S!Value(s)
      /\ Len(d) # 0 => d[1] # 0
  BY TrimmedLeft
<1>2. g = S!TrimRight(d)
  BY DEF Kept, S!Significant
<1>3. Zeros(s) = Len(d) - Len(g) /\ d # <<>>
  BY DEF Zeros
<1> HIDE DEF d, g
<1>4. Len(d) # 0 /\ Len(d) \in Nat /\ Len(s) \in Nat
  BY <1>1, <1>3
<1>5. /\ g \in Seq(0..9) /\ Len(g) <= Len(d)
      /\ S!Value(d) = S!Value(g) * S!TenTo(Len(d) - Len(g))
      /\ Len(g) # 0 => g[Len(g)] # 0
      /\ Len(g) # 0 /\ g[1] # 0
  BY <1>1, <1>2, <1>4, TrimmedRight
<1>6. Digits(g) /\ Len(g) \in Nat \ {0} /\ Len(g) - 1 \in Nat
  BY <1>5, SequenceOfDigits
<1>7. /\ S!Value(g) \in Nat /\ S!Value(g) < S!TenTo(Len(g))
      /\ S!Value(g) >= S!TenTo(Len(g) - 1)
      /\ \A q \in Nat : S!Value(g) # 10 * q
  BY <1>5, <1>6, ValueBounded, ValueOfFirst, ValueOfLast
<1>8. S!TenTo(Len(g) - 1) \in Nat \ {0}
  BY <1>6, TenToPositive
<1>9. S!Value(g) \in Nat \ {0}
  BY <1>7, <1>8
<1>10. Zeros(s) \in Nat /\ Zeros(s) <= Len(s)
  BY <1>1, <1>3, <1>4, <1>5, <1>6
<1> QED
  BY <1>1, <1>3, <1>5, <1>6, <1>7, <1>9, <1>10 DEF g

Number(t) == t.integer \o t.fraction
Power(t) == t.sign * S!Value(t.exponent) - Len(t.fraction) + 2

LEMMA NumberOfText ==
    ASSUME NEW t \in Texts
    PROVE  /\ Number(t) \in Seq(0..9) /\ Len(Number(t)) = Len(t.integer) + Len(t.fraction)
           /\ Len(Number(t)) \in Nat /\ Power(t) \in Int
           /\ \A h : S!Equal(S!Decimal(t), h) <=>
                 SameNumber(S!Value(Number(t)), Len(Number(t)), Power(t), h)
<1>1. t.integer \in Seq(0..9) /\ t.fraction \in Seq(0..9) /\ t.sign \in {-1, 1}
  BY TextOfDigits
<1>2. Number(t) \in Seq(0..9) /\ Len(Number(t)) = Len(t.integer) + Len(t.fraction)
  BY <1>1 DEF Number
<1>3. Power(t) \in Int
  <2>1. S!Value(t.exponent) \in Int /\ Len(t.fraction) \in Int
    BY <1>1, ExponentParsed
  <2> QED
    BY <1>1, <2>1 DEF Power
<1>4. ASSUME NEW h
      PROVE  S!Equal(S!Decimal(t), h) <=>
                 SameNumber(S!Value(Number(t)), Len(Number(t)), Power(t), h)
  BY <1>2, EqualIsSame DEF Number, Power
<1>5. Len(Number(t)) \in Nat
  BY <1>2, SequenceOfDigits DEF Digits
<1> QED
  BY <1>2, <1>3, <1>4, <1>5, Zenon

\* A number is refused for what it is: by its sign or as a whole, as zero, by an exponent
\* that is too long, or by its last digit or its first.
LEMMA SumParsed ==
    ASSUME NEW t \in Texts
    PROVE  \/ /\ t.negative /\ S!ParseSum(t) = Invalid
           \/ /\ S!ParsedExponent(t) = Invalid /\ S!ParseSum(t) = Invalid
           \/ /\ S!TrimLeft(Number(t)) = <<>> /\ S!ParseSum(t) = Invalid
           \/ /\ S!TrimLeft(Number(t)) # <<>>
              /\ \/ Power(t) + Zeros(Number(t)) < 0
                 \/ Len(Kept(Number(t))) + Power(t) + Zeros(Number(t)) > MaxDigits + 2
              /\ S!ParseSum(t) = Invalid
           \/ /\ S!TrimLeft(Number(t)) # <<>> /\ ~t.negative
              /\ Power(t) + Zeros(Number(t)) >= 0
              /\ Len(Kept(Number(t))) + Power(t) + Zeros(Number(t)) <= MaxDigits + 2
              /\ S!ParseSum(t) =
                    S!Value(Kept(Number(t))) * S!TenTo(Power(t) + Zeros(Number(t)))
<1> DEFINE s == Number(t)
           x == S!ParsedExponent(t)
           e == x - Len(t.fraction) + Len(S!TrimLeft(s)) - Len(Kept(s))
<1>1. S!ParseSum(t) =
          IF \/ t.negative
             \/ Len(t.integer) > 1 /\ t.integer[1] = 0
             \/ x = Invalid
             \/ S!TrimLeft(s) = <<>>
             \/ e < -2
             \/ Len(Kept(s)) + e > MaxDigits
          THEN Invalid
          ELSE S!Value(Kept(s)) * S!TenTo(e + 2)
  BY DEF S!ParseSum, Number, Kept
<1>2. ASSUME x # Invalid, S!TrimLeft(s) # <<>>
      PROVE  /\ e + 2 = Power(t) + Zeros(s) /\ e \in Int
             /\ Power(t) + Zeros(s) \in Int /\ Len(Kept(s)) \in Int
  <2>1. Len(t.fraction) \in Int /\ t.sign * S!Value(t.exponent) \in Int
    <3>1. t.fraction \in Seq(0..9) /\ t.sign \in {-1, 1} /\ S!Value(t.exponent) \in Nat
      BY TextOfDigits, ExponentParsed
    <3> QED
      BY <3>1
  <2>2. s \in Seq(0..9)
    BY NumberOfText
  <2>3. Len(Kept(s)) \in Int /\ Len(S!TrimLeft(s)) \in Int
    BY <1>2, <2>2, KeptDigits, TrimmedLeft
  <2>4. x = t.sign * S!Value(t.exponent)
    BY <1>2, ExponentParsed
  <2> QED
    BY <2>1, <2>3, <2>4 DEF Power, Zeros
<1>3. MaxDigits \in Int /\ ~(Len(t.integer) > 1 /\ t.integer[1] = 0)
  <2>1. ~(Len(t.integer) > 1 /\ t.integer[1] = 0)
    BY TextOfDigits, Zenon
  <2> QED
    BY <2>1, DigitsAreFew
<1> HIDE DEF s, x, e
<1>4. CASE t.negative
  BY <1>1, <1>4
<1>5. CASE x = Invalid
  BY <1>1, <1>5 DEF x
<1>6. CASE S!TrimLeft(s) = <<>>
  BY <1>1, <1>6 DEF s
<1>7. CASE ~t.negative /\ x # Invalid /\ S!TrimLeft(s) # <<>>
  <2>1. S!ParseSum(t) = IF e < -2 \/ Len(Kept(s)) + e > MaxDigits
                        THEN Invalid ELSE S!Value(Kept(s)) * S!TenTo(e + 2)
    BY <1>1, <1>3, <1>7
  <2>2. /\ e < -2 <=> Power(t) + Zeros(s) < 0
        /\ Len(Kept(s)) + e > MaxDigits <=> Len(Kept(s)) + (Power(t) + Zeros(s)) > MaxDigits + 2
    BY <1>2, <1>3, <1>7, SMTT(60)
  <2>3. Len(Kept(s)) + (Power(t) + Zeros(s)) = Len(Kept(s)) + Power(t) + Zeros(s)
    <3>1. Power(t) \in Int /\ s \in Seq(0..9)
      BY NumberOfText DEF s
    <3>2. Zeros(s) \in Int
      BY <1>7, <3>1, KeptDigits
    <3> QED
      BY <1>2, <1>7, <3>1, <3>2
  <2>4. Power(t) + Zeros(s) \in Int /\ Len(Kept(s)) + Power(t) + Zeros(s) \in Int
        /\ MaxDigits + 2 \in Int
    BY <1>2, <1>3, <1>7, <2>3
  <2> QED
    BY <1>2, <1>7, <2>1, <2>2, <2>3, <2>4 DEF s
<1> QED
  BY <1>4, <1>5, <1>6, <1>7

\* No power of ten this large, or this small, makes a sum.
LEMMA FarIsNoSum ==
    ASSUME NEW t \in Texts, S!ParsedExponent(t) = Invalid, NEW m, NEW h \in Nat \ {0}
    PROVE  ~SameNumber(m, Len(Number(t)), Power(t), h)
<1> DEFINE e == S!Value(t.exponent)
           a == Len(t.integer)
           b == Len(t.fraction)
<1>1. e \in Nat /\ e >= S!TenTo(MaxDigits)
  BY ExponentParsed
<1>2. a + b + MaxDigits + 2 < S!TenTo(MaxDigits) /\ t.sign \in {-1, 1}
  BY TextOfDigits, Zenon
<1>3. a \in Nat /\ b \in Nat
  <2>1. t.integer \in Seq(0..9) /\ t.fraction \in Seq(0..9)
    BY TextOfDigits
  <2> QED
    BY <2>1
<1>4. MaxDigits \in Nat \ {0} /\ S!TenTo(MaxDigits) \in Nat
  BY DigitsAreFew, TenToPositive
<1>5. Len(Number(t)) = a + b /\ Power(t) = t.sign * e - b + 2
  BY NumberOfText DEF Power
<1> HIDE DEF e, a, b
<1>6. e > a + b + MaxDigits + 2
  BY <1>1, <1>2, <1>3, <1>4
<1>7. CASE t.sign = 1
  <2>1. Power(t) = e - b + 2
    BY <1>1, <1>3, <1>5, <1>7
  <2>2. Power(t) \notin 0..MaxDigits + 2 /\ -Power(t) \notin 1..a + b
    BY <1>1, <1>3, <1>4, <1>6, <2>1
  <2>3. CASE m = 0
    BY <2>3 DEF SameNumber
  <2>4. CASE m # 0
    BY <1>5, <2>2, <2>4 DEF SameNumber
  <2> QED
    BY <2>3, <2>4
<1>8. CASE t.sign = -1
  <2>1. Power(t) = -e - b + 2
    BY <1>1, <1>3, <1>5, <1>8
  <2>2. Power(t) \notin 0..MaxDigits + 2 /\ -Power(t) \notin 1..a + b
    BY <1>1, <1>3, <1>4, <1>6, <2>1
  <2>3. CASE m = 0
    BY <2>3 DEF SameNumber
  <2>4. CASE m # 0
    BY <1>5, <2>2, <2>4 DEF SameNumber
  <2> QED
    BY <2>3, <2>4
<1> QED
  BY <1>2, <1>7, <1>8

\* What is accepted is a number of hundredths.
LEMMA KeptIsAccepted ==
    ASSUME NEW t \in Texts, S!TrimLeft(Number(t)) # <<>>,
           Power(t) + Zeros(Number(t)) >= 0,
           Len(Kept(Number(t))) + Power(t) + Zeros(Number(t)) <= MaxDigits + 2,
           S!ParseSum(t) = S!Value(Kept(Number(t))) * S!TenTo(Power(t) + Zeros(Number(t)))
    PROVE  /\ S!ParseSum(t) \in 1..S!TenTo(MaxDigits + 2) - 1
           /\ S!ParseSum(t) \in Nat \ {0}
           /\ S!ParseSum(t) # Invalid
           /\ S!Equal(S!Decimal(t), S!ParseSum(t))
<1> DEFINE s == Number(t)
           v == S!Value(Kept(s))
           w == Len(Kept(s))
           z == Zeros(s)
           n == Len(s)
           p == Power(t)
<1>1. s \in Seq(0..9) /\ n \in Nat /\ p \in Int
  BY NumberOfText
<1>2. /\ z \in Nat /\ z <= n /\ w \in Nat \ {0} /\ v \in Nat \ {0} /\ v < S!TenTo(w)
      /\ S!Value(s) = v * S!TenTo(z)
  BY <1>1, KeptDigits
<1>3. p + z >= 0 /\ w + p + z <= MaxDigits + 2 /\ S!ParseSum(t) = v * S!TenTo(p + z)
  OBVIOUS
<1>4. S!Equal(S!Decimal(t), S!ParseSum(t)) <=> SameNumber(S!Value(s), n, p, S!ParseSum(t))
  BY NumberOfText
<1>5. S!TenTo(MaxDigits + 2) \in Int /\ Invalid \notin Int
  <2>1. MaxDigits + 2 \in Nat
    BY DigitsAreFew
  <2>2. Invalid \notin Int
    BY TextOfDigits, Zenon
  <2> QED
    BY <2>1, <2>2, TenToPositive
<1> HIDE DEF s, v, w, z, n, p
<1>6. /\ v * S!TenTo(p + z) \in 1..S!TenTo(MaxDigits + 2) - 1
      /\ SameNumber(v * S!TenTo(z), n, p, v * S!TenTo(p + z))
  <2>1. w \in Nat
    BY <1>2
  <2> QED
    BY <1>1, <1>2, <1>3, <2>1, AcceptedIsSame
<1>7. S!ParseSum(t) \in 1..S!TenTo(MaxDigits + 2) - 1
  BY <1>3, <1>6
<1>8. S!Equal(S!Decimal(t), S!ParseSum(t))
  BY <1>2, <1>3, <1>4, <1>6
<1>9. S!ParseSum(t) \in Nat \ {0}
  BY <1>5, <1>7
<1>10. S!ParseSum(t) # Invalid
  BY <1>5, <1>9
<1> QED
  BY <1>7, <1>8, <1>9, <1>10

LEMMA SumAccepted ==
    ASSUME NEW t \in Texts, S!ParseSum(t) # Invalid
    PROVE  /\ ~t.negative
           /\ S!ParseSum(t) \in 1..S!TenTo(MaxDigits + 2) - 1
           /\ S!ParseSum(t) \in Nat \ {0}
           /\ S!Equal(S!Decimal(t), S!ParseSum(t))
<1>1. /\ S!TrimLeft(Number(t)) # <<>> /\ ~t.negative
      /\ Power(t) + Zeros(Number(t)) >= 0
      /\ Len(Kept(Number(t))) + Power(t) + Zeros(Number(t)) <= MaxDigits + 2
      /\ S!ParseSum(t) = S!Value(Kept(Number(t))) * S!TenTo(Power(t) + Zeros(Number(t)))
  BY SumParsed, Zenon
<1> QED
  BY <1>1, KeptIsAccepted

LEMMA SumRefused ==
    ASSUME NEW t \in Texts, ~t.negative, S!ParseSum(t) = Invalid,
           NEW h \in 1..S!TenTo(MaxDigits + 2) - 1
    PROVE  ~S!Equal(S!Decimal(t), h)
<1> DEFINE s == Number(t)
<1>0. h \in Nat \ {0}
  <2>1. MaxDigits + 2 \in Nat
    BY DigitsAreFew
  <2>2. S!TenTo(MaxDigits + 2) \in Nat
    BY <2>1, TenToPositive
  <2> QED
    BY <2>2
<1>1. s \in Seq(0..9) /\ Len(s) \in Nat /\ Power(t) \in Int
  BY NumberOfText
<1>2. S!Equal(S!Decimal(t), h) <=> SameNumber(S!Value(s), Len(s), Power(t), h)
  BY NumberOfText
<1>3. CASE S!ParsedExponent(t) = Invalid
  BY <1>0, <1>2, <1>3, FarIsNoSum
<1>4. CASE S!TrimLeft(s) = <<>>
  <2>1. S!Value(s) = 0
    BY <1>1, <1>4, NothingKept
  <2>2. ~SameNumber(S!Value(s), Len(s), Power(t), h)
    BY <1>0, <2>1 DEF SameNumber
  <2> QED
    BY <1>2, <2>2
<1>5. CASE /\ S!TrimLeft(s) # <<>>
           /\ \/ Power(t) + Zeros(s) < 0
              \/ Len(Kept(s)) + Power(t) + Zeros(s) > MaxDigits + 2
  <2> DEFINE v == S!Value(Kept(s))
             w == Len(Kept(s))
             z == Zeros(s)
             n == Len(s)
             p == Power(t)
  <2>1. /\ z \in Nat /\ w \in Nat \ {0} /\ v \in Nat \ {0} /\ v >= S!TenTo(w - 1)
        /\ (\A q \in Nat : v # 10 * q)
        /\ S!Value(s) = v * S!TenTo(z)
    BY <1>1, <1>5, KeptDigits
  <2>2. n \in Nat /\ p \in Int /\ (p + z < 0 \/ w + p + z > MaxDigits + 2)
    BY <1>1, <1>5
  <2> HIDE DEF v, w, z, n, p
  <2>3. ~SameNumber(v * S!TenTo(z), n, p, h)
    BY <2>1, <2>2, RefusedIsNone
  <2> QED
    BY <1>2, <2>1, <2>3 DEF n, p
<1>6. CASE S!ParseSum(t) # Invalid
  BY <1>6
<1> QED
  <2>1. \/ S!ParsedExponent(t) = Invalid
        \/ S!TrimLeft(s) = <<>>
        \/ /\ S!TrimLeft(s) # <<>>
           /\ \/ Power(t) + Zeros(s) < 0
              \/ Len(Kept(s)) + Power(t) + Zeros(s) > MaxDigits + 2
        \/ S!ParseSum(t) # Invalid
    <3>1. CASE /\ S!TrimLeft(Number(t)) # <<>>
               /\ Power(t) + Zeros(Number(t)) >= 0
               /\ Len(Kept(Number(t))) + Power(t) + Zeros(Number(t)) <= MaxDigits + 2
               /\ S!ParseSum(t) =
                    S!Value(Kept(Number(t))) * S!TenTo(Power(t) + Zeros(Number(t)))
      BY <3>1, KeptIsAccepted
    <3> QED
      BY <3>1, SumParsed, Zenon
  <2> HIDE DEF s
  <2> QED
    BY <1>3, <1>4, <1>5, <1>6, <2>1

-----------------------------------------------------------------------------
(***************************************************************************)
(* A sum: how an amount is read and shown.                                 *)
(***************************************************************************)
LEMMA Divided ==
    ASSUME NEW h \in Nat, NEW d \in Nat \ {0}, h % d = 0
    PROVE  (h \div d) * d = h /\ h \div d \in Nat
OBVIOUS

\* Whatever form h hundredths are read in, they are h hundredths.
LEMMA NumericConverted ==
    ASSUME NEW h \in Nat, NEW x \in S!Numerics(h) PROVE S!FromNumeric(x[1], x[2]) = h
<1>0. MaxDigits \in Nat
  BY DigitsAreFew
<1>1. S!TenTo(0) = 1 /\ S!TenTo(1) = 10
  <2>1. S!TenTo(0 + 1) = 10 * S!TenTo(0) /\ 0 + 1 = 1
    BY TenToNext
  <2> QED
    BY <2>1, TenToZero
<1>2. CASE x = <<h * S!TenTo(-2 - (-2)), -2>>
  <2>1. x[1] = h /\ x[2] = -2
    <3>1. -2 - (-2) = 0
      OBVIOUS
    <3> QED
      BY <1>1, <1>2, <3>1
  <2>2. S!FromNumeric(h, -2) = h
    <3>1. -2 + 2 = 0 /\ h * 1 = h /\ ~(h < 0) /\ ~(0 < 0) /\ 0 >= 0
      OBVIOUS
    <3> QED
      BY <1>1, <3>1 DEF S!FromNumeric
  <2> QED
    BY <2>1, <2>2
<1>3. ASSUME NEW e \in Int, e + 3 = 0, x = <<h * S!TenTo(-2 - e), e>>
      PROVE  S!FromNumeric(x[1], x[2]) = h
  <2>1. -2 - e = 1 /\ -(e + 2) = 1 /\ ~(e + 2 >= 0) /\ e + 2 < 0
    BY <1>3
  <2>2. x[1] = h * 10 /\ x[2] = e
    BY <1>1, <1>3, <2>1
  <2>3. (h * 10) \div 10 = h /\ (h * 10) % 10 = 0 /\ ~(h < 0)
    OBVIOUS
  <2>4. S!FromNumeric(h * 10, e) = h
    BY <1>1, <2>1, <2>3 DEF S!FromNumeric
  <2> QED
    BY <2>2, <2>4
<1>4. ASSUME NEW e \in -1..MaxDigits, h % S!TenTo(e + 2) = 0,
             x = <<h \div S!TenTo(e + 2), e>>
      PROVE  S!FromNumeric(x[1], x[2]) = h
  <2>1. e + 2 \in Nat /\ e + 2 >= 0 /\ ~(e + 2 < 0)
    BY <1>0
  <2>2. S!TenTo(e + 2) \in Nat \ {0}
    BY <2>1, TenToPositive
  <2>3. (h \div S!TenTo(e + 2)) * S!TenTo(e + 2) = h
    BY <1>4, <2>2, Divided, Zenon
  <2>6. ~(h < 0)
    OBVIOUS
  <2>4. x[1] = h \div S!TenTo(e + 2) /\ x[2] = e
    BY <1>4
  <2>5. S!FromNumeric(h \div S!TenTo(e + 2), e) = h
    BY <2>1, <2>3, <2>6 DEF S!FromNumeric
  <2> QED
    BY <2>4, <2>5
<1> QED
  BY <1>2, <1>3, <1>4 DEF S!Numerics

DigitLists(f, n) ==
    f = [k \in 0..n |-> IF k < 10 THEN <<k>> ELSE Append(f[k \div 10], k % 10)]

DigitListsOf(n) == CHOOSE f : DigitLists(f, n)

LEMMA Tenth ==
    ASSUME NEW k \in Nat
    PROVE  /\ k \div 10 \in Nat /\ k % 10 \in 0..9 /\ k = 10 * (k \div 10) + (k % 10)
           /\ ~(k < 10) => k \div 10 < k /\ k # 0
OBVIOUS

LEMMA DigitListsExist ==
    ASSUME NEW n \in Nat
    PROVE  \E f : DigitLists(f, n)
<1> DEFINE T == {m \in Nat : ~\E f : DigitLists(f, m)}
<1> SUFFICES ASSUME T # {} PROVE FALSE
  OBVIOUS
<1>1. T \subseteq Nat
  OBVIOUS
<1>2. PICK m \in T : \A y \in T : m <= y
  <2> HIDE DEF T
  <2> QED
    BY <1>1, LeastNumber
<1>3. m \in Nat /\ ~\E f : DigitLists(f, m)
  OBVIOUS
<1>4. m # 0
  <2> DEFINE f == [k \in 0..0 |-> <<k>>]
  <2>1. f = [k \in 0..0 |-> IF k < 10 THEN <<k>> ELSE Append(f[k \div 10], k % 10)]
    OBVIOUS
  <2> HIDE DEF f
  <2> QED
    BY <1>3, <2>1 DEF DigitLists
<1>5. PICK e : DigitLists(e, m - 1)
  <2>1. m - 1 \in Nat /\ ~(m <= m - 1)
    BY <1>3, <1>4
  <2> QED
    BY <1>2, <2>1
<1> DEFINE newest == IF m < 10 THEN <<m>> ELSE Append(e[m \div 10], m % 10)
           f == [k \in 0..m |-> IF k = m THEN newest ELSE e[k]]
<1>6. ASSUME NEW k \in 0..m
      PROVE  f[k] = IF k < 10 THEN <<k>> ELSE Append(f[k \div 10], k % 10)
  <2>1. k \in Nat /\ (~(k < 10) => k \div 10 \in 0..m /\ k \div 10 # m)
    <3>1. k \in Nat /\ k <= m
      BY <1>3
    <3>2. k \div 10 \in Nat /\ (~(k < 10) => k \div 10 < k)
      BY <3>1, Tenth
    <3> QED
      BY <1>3, <3>1, <3>2
  <2>2. ~(k < 10) => f[k \div 10] = e[k \div 10]
    <3> HIDE DEF newest
    <3> QED
      BY <2>1
  <2>3. CASE k = m
    <3>1. f[k] = newest
      <4> HIDE DEF newest
      <4> QED
        BY <2>3
    <3> HIDE DEF f
    <3> QED
      BY <2>2, <2>3, <3>1
  <2>4. CASE k # m
    <3>1. k \in 0..m - 1
      BY <1>3, <2>4
    <3>2. f[k] = e[k]
      <4> HIDE DEF newest
      <4> QED
        BY <2>4
    <3> HIDE DEF f
    <3>3. e[k] = IF k < 10 THEN <<k>> ELSE Append(e[k \div 10], k % 10)
      BY <1>5, <3>1 DEF DigitLists
    <3> QED
      BY <2>2, <3>2, <3>3
  <2> QED
    BY <2>3, <2>4
<1>7. f = [k \in 0..m |-> IF k < 10 THEN <<k>> ELSE Append(f[k \div 10], k % 10)]
  <2> DEFINE g == [k \in 0..m |-> IF k < 10 THEN <<k>> ELSE Append(f[k \div 10], k % 10)]
  <2>1. \A k \in 0..m : f[k] = g[k]
    <3> HIDE DEF f
    <3> QED
      BY <1>6
  <2>2. f = g
    <3>1. f = [k \in 0..m |-> f[k]]
      <4> HIDE DEF newest
      <4> QED
        OBVIOUS
    <3>2. g = [k \in 0..m |-> g[k]]
      <4> HIDE DEF f
      <4> QED
        OBVIOUS
    <3> HIDE DEF f, g
    <3> QED
      BY <2>1, <3>1, <3>2
  <2> QED
    BY <2>2
<1> HIDE DEF f
<1> QED
  BY <1>3, <1>7 DEF DigitLists

\* A digit behind them multiplies by ten.
LEMMA ValueOfAppend ==
    ASSUME NEW s \in Seq(0..9), NEW d \in 0..9
    PROVE  /\ Append(s, d) \in Seq(0..9) /\ Len(Append(s, d)) = Len(s) + 1
           /\ S!Value(Append(s, d)) = 10 * S!Value(s) + d
<1> DEFINE t == Append(s, d)
<1>1. /\ t \in Seq(0..9) /\ Len(t) = Len(s) + 1 /\ Len(s) \in Nat
      /\ (\A k \in 1..Len(s) : t[k] = s[k]) /\ t[Len(s) + 1] = d
  OBVIOUS
<1> HIDE DEF t
<1>2. Digits(s) /\ Digits(t)
  BY <1>1, SequenceOfDigits
<1>3. S!Value(s) = ValuesOf(t)[Len(s)]
  <2>1. ValuesOf(t)[0] = 0 /\ 0 \in 0..Len(t) /\ 0 + Len(s) = Len(s) /\ Len(s) <= Len(t)
        /\ \A j \in 1..Len(s) : 0 + j = j
    BY <1>1, ValuesBySteps
  <2>2. \A j \in 1..Len(s) : s[j] = t[0 + j]
    BY <1>1, <2>1
  <2>3. S!Value(s) = ValuesOf(t)[0 + Len(s)]
    BY <1>2, <2>1, <2>2, ValuesOfPart
  <2> QED
    BY <2>1, <2>3
<1>4. ValuesOf(t)[Len(s) + 1] = 10 * ValuesOf(t)[Len(s)] + d
  <2>1. Len(s) + 1 \in 1..Len(t) /\ (Len(s) + 1) - 1 = Len(s) /\ Len(t) \in Nat
    BY <1>1
  <2> QED
    BY <1>1, <2>1, ValuesBySteps
<1>5. S!Value(t) = ValuesOf(t)[Len(s) + 1]
  BY <1>1, ValuesBySteps
<1> QED
  BY <1>1, <1>3, <1>4, <1>5 DEF t

\* The digits of n are worth n.
LEMMA DigitsAreWorth ==
    ASSUME NEW n \in Nat
    PROVE  /\ S!DecimalDigits(n) \in Seq(0..9) /\ S!DecimalDigits(n) # <<>>
           /\ S!Value(S!DecimalDigits(n)) = n
<1> DEFINE f == DigitListsOf(n)
           P(k) == f[k] \in Seq(0..9) /\ f[k] # <<>> /\ S!Value(f[k]) = k
           T == {m \in Nat : m <= n /\ ~P(m)}
<1>1. DigitLists(f, n)
  BY DigitListsExist DEF DigitListsOf
<1>2. S!DecimalDigits(n) = f[n]
  BY DEF S!DecimalDigits, DigitListsOf, DigitLists
<1> HIDE DEF f
<1>3. \A k \in 0..n : f[k] = IF k < 10 THEN <<k>> ELSE Append(f[k \div 10], k % 10)
  BY <1>1 DEF DigitLists
<1>4. T = {}
  <2> SUFFICES ASSUME T # {} PROVE FALSE
    OBVIOUS
  <2>1. T \subseteq Nat
    OBVIOUS
  <2>2. PICK m \in T : \A y \in T : m <= y
    <3> HIDE DEF T
    <3> QED
      BY <2>1, LeastNumber
  <2>3. m \in Nat /\ m <= n /\ ~P(m)
    OBVIOUS
  <2>4. m \in 0..n
    BY <2>3
  <2> HIDE DEF T
  <2>5. CASE m < 10
    <3>1. f[m] = <<m>> /\ m \in 0..9
      <4>1. m \in 0..9
        BY <2>3, <2>5
      <4> QED
        BY <1>3, <2>4, <2>5, <4>1
    <3>2. <<>> \in Seq(0..9) /\ <<m>> = Append(<<>>, m) /\ Len(<<>>) = 0 /\ <<m>> # <<>>
      BY <3>1
    <3>3. S!Value(<<>>) = 0
      BY <3>2, ValuesBySteps
    <3>4. S!Value(<<m>>) = 10 * S!Value(<<>>) + m /\ <<m>> \in Seq(0..9)
      <4>1. /\ Append(<<>>, m) \in Seq(0..9)
            /\ S!Value(Append(<<>>, m)) = 10 * S!Value(<<>>) + m
        BY <3>1, <3>2, ValueOfAppend, Zenon
      <4> QED
        BY <3>2, <4>1, Zenon
    <3>5. S!Value(<<m>>) = m
      BY <2>3, <3>3, <3>4
    <3> QED
      BY <2>3, <3>1, <3>2, <3>4, <3>5
  <2>6. CASE ~(m < 10)
    <3> DEFINE q == m \div 10
               d == m % 10
    <3>1. q \in Nat /\ d \in 0..9 /\ m = 10 * q + d /\ q < m
      BY <2>3, <2>6, Tenth
    <3>2. f[m] = Append(f[q], d)
      BY <1>3, <2>4, <2>6
    <3> HIDE DEF q, d
    <3>3. q <= n /\ ~(m <= q)
      BY <2>3, <3>1
    <3>4. P(q)
      <4>1. q \notin T
        BY <2>2, <3>3
      <4> HIDE DEF P
      <4> QED
        BY <3>1, <3>3, <4>1 DEF T
    <3>5. /\ Append(f[q], d) \in Seq(0..9) /\ Len(Append(f[q], d)) = Len(f[q]) + 1
          /\ S!Value(Append(f[q], d)) = 10 * S!Value(f[q]) + d
      BY <3>1, <3>4, ValueOfAppend
    <3>6. Append(f[q], d) # <<>>
      BY <3>4
    <3> QED
      BY <2>3, <3>1, <3>2, <3>4, <3>5, <3>6
  <2> QED
    BY <2>5, <2>6
<1>5. P(n)
  <2>1. n <= n /\ n \notin T
    BY <1>4
  <2> HIDE DEF P
  <2> QED
    BY <2>1
<1> QED
  BY <1>2, <1>5

LEMMA Cents ==
    ASSUME NEW a \in Nat
    PROVE  /\ a \div 100 \in Nat /\ (a % 100) \div 10 \in 0..9 /\ a % 10 \in 0..9
           /\ a = 10 * (10 * (a \div 100) + ((a % 100) \div 10)) + (a % 10)
OBVIOUS

Units(a) == S!DecimalDigits(a \div 100)

\* The parts of what is shown of a: its units and, behind a point, two digits, one or none.
ShownAs(c, a) ==
    LET u == Units(a)
        x == (a % 100) \div 10
        y == a % 10
        n == Len(Units(a))
    IN  /\ c \in Seq(Int)
        /\ \A k \in 1..n : c[k] = u[k]
        /\ \/ Len(c) = n + 3 /\ c[n + 1] = S!Point /\ c[n + 2] = x /\ c[n + 3] = y
           \/ Len(c) = n + 2 /\ c[n + 1] = S!Point /\ c[n + 2] = x /\ y = 0
           \/ Len(c) = n /\ x = 0 /\ y = 0

LEMMA CompactedAsShown ==
    ASSUME NEW a \in Nat PROVE ShownAs(S!Compacted(S!AmountString(a)), a)
<1> DEFINE u == Units(a)
           n == Len(u)
           x == (a % 100) \div 10
           y == a % 10
           s == S!AmountString(a)
           c == S!Compacted(s)
           T == S!NonZero(s) \cup {0}
           end == S!Max(T)
           t == S!TrimRight(s)
<1>1. u \in Seq(0..9) /\ n \in Nat /\ n # 0 /\ x \in 0..9 /\ y \in 0..9
  <2>1. u \in Seq(0..9) /\ u # <<>>
    BY Cents, DigitsAreWorth DEF Units
  <2>2. n \in Nat /\ n # 0
    BY <2>1
  <2> QED
    BY <2>1, <2>2, Cents
<1>2. s = (u \o <<-1>>) \o <<x, y>>
  <2> HIDE DEF x, y
  <2> QED
    BY DEF S!AmountString, S!Point, Units, x, y
<1>3. c = IF t[Len(t)] = -1 THEN SubSeq(t, 1, Len(t) - 1) ELSE t
  BY DEF S!Compacted, S!Last, S!Front, S!Point
<1>4. t = SubSeq(s, 1, end) /\ T = {k \in DOMAIN s : s[k] # 0} \cup {0}
  BY DEF S!TrimRight, S!NonZero
<1> HIDE DEF u, n, x, y, s, c, T, end, t
<1>5. /\ s \in Seq(Int) /\ Len(s) = n + 3
      /\ \A k \in 1..n : s[k] = u[k]
      /\ s[n + 1] = -1 /\ s[n + 2] = x /\ s[n + 3] = y
  <2> DEFINE v == u \o <<-1>>
  <2>1. u \in Seq(Int) /\ <<-1>> \in Seq(Int) /\ <<x, y>> \in Seq(Int)
    BY <1>1
  <2>2. v \in Seq(Int) /\ Len(v) = n + 1 /\ (\A k \in 1..n : v[k] = u[k]) /\ v[n + 1] = -1
    BY <1>1, <2>1 DEF n
  <2> HIDE DEF v
  <2>3. s = v \o <<x, y>>
    BY <1>2 DEF v
  <2>4. s \in Seq(Int) /\ Len(s) = n + 3
    BY <1>1, <2>1, <2>2, <2>3
  <2>5. \A k \in 1..n + 1 : s[k] = v[k]
    BY <1>1, <2>1, <2>2, <2>3
  <2>6. s[n + 2] = x /\ s[n + 3] = y
    BY <1>1, <2>1, <2>2, <2>3
  <2>7. n + 1 \in 1..n + 1 /\ \A k \in 1..n : k \in 1..n + 1
    BY <1>1
  <2> QED
    BY <2>2, <2>4, <2>5, <2>6, <2>7
<1>6. T \subseteq 0..n + 3 /\ T # {} /\ n + 3 \in Nat /\ n + 1 \in T
  BY <1>1, <1>4, <1>5
<1>7. end \in T /\ \A k \in T : k <= end
  BY <1>6, GreatestOf DEF end
<1>8. end \in n + 1..n + 3 /\ s[end] # 0
  <2>1. end \in 0..n + 3 /\ n + 1 <= end /\ end # 0
    BY <1>1, <1>6, <1>7
  <2> QED
    BY <1>1, <1>4, <1>7, <2>1
<1>9. \A k \in 1..n + 3 : k > end => s[k] = 0
  <2>1. \A k \in 1..n + 3 : k > end => k \notin T
    BY <1>6, <1>7
  <2> QED
    BY <1>1, <1>4, <1>5, <2>1
<1>10. t \in Seq(Int) /\ Len(t) = end /\ \A k \in 1..end : t[k] = s[k]
  BY <1>1, <1>4, <1>5, <1>8
<1>11. CASE end = n + 1
  <2>1. t[Len(t)] = -1 /\ n + 1 \in 1..end
    BY <1>1, <1>5, <1>10, <1>11
  <2>2. c = SubSeq(t, 1, n) /\ \A k \in 1..n : k \in 1..end
    BY <1>1, <1>3, <1>10, <1>11, <2>1
  <2>3. c \in Seq(Int) /\ Len(c) = n /\ \A k \in 1..n : c[k] = t[k]
    BY <1>1, <1>10, <1>11, <2>2
  <2>4. x = 0 /\ y = 0
    BY <1>1, <1>5, <1>9, <1>11
  <2> QED
    BY <1>5, <1>10, <2>2, <2>3, <2>4 DEF ShownAs, c, s, u, n, x, y
<1>12. CASE end = n + 2
  <2>1. t[Len(t)] = x /\ x # 0 /\ n + 2 \in 1..end /\ n + 1 \in 1..end
    BY <1>1, <1>5, <1>8, <1>10, <1>12
  <2>2. c = t
    BY <1>1, <1>3, <2>1
  <2>3. y = 0 /\ \A k \in 1..n : k \in 1..end
    BY <1>1, <1>5, <1>9, <1>12
  <2> QED
    BY <1>5, <1>10, <1>12, <2>1, <2>2, <2>3 DEF ShownAs, S!Point, c, s, u, n, x, y
<1>13. CASE end = n + 3
  <2>1. t[Len(t)] = y /\ n + 3 \in 1..end /\ n + 2 \in 1..end /\ n + 1 \in 1..end
    BY <1>1, <1>5, <1>8, <1>10, <1>13
  <2>2. c = t /\ \A k \in 1..n : k \in 1..end
    BY <1>1, <1>3, <1>13, <2>1
  <2> QED
    BY <1>5, <1>10, <1>13, <2>1, <2>2 DEF ShownAs, S!Point, c, s, u, n, x, y
<1> QED
  BY <1>1, <1>8, <1>11, <1>12, <1>13

\* Units and the digits behind them, up to two.
LEMMA ValueWithCents ==
    ASSUME NEW s, Digits(s), NEW u, Digits(u), Len(u) <= Len(s),
           \A k \in 1..Len(u) : s[k] = u[k]
    PROVE  /\ Len(s) = Len(u) => S!Value(s) = S!Value(u)
           /\ Len(s) = Len(u) + 1 => S!Value(s) = 10 * S!Value(u) + s[Len(u) + 1]
           /\ Len(s) = Len(u) + 2 =>
                 S!Value(s) = 10 * (10 * S!Value(u) + s[Len(u) + 1]) + s[Len(u) + 2]
<1> DEFINE n == Len(u)
           e == ValuesOf(s)
<1>1. n \in Nat /\ Len(s) \in Nat /\ e[0] = 0
      /\ (\A k \in 1..Len(s) : e[k] = 10 * e[k - 1] + s[k]) /\ S!Value(s) = e[Len(s)]
  BY ValuesBySteps DEF Digits
<1>2. S!Value(u) = e[n]
  <2>1. 0 \in 0..Len(s) /\ 0 + n = n /\ n <= Len(s) /\ \A j \in 1..n : 0 + j = j
    BY <1>1
  <2>2. S!Value(u) = e[0 + n]
    BY <1>1, <2>1, ValuesOfPart
  <2> QED
    BY <2>1, <2>2
<1> HIDE DEF e
<1>3. CASE Len(s) = n
  BY <1>1, <1>2, <1>3
<1>4. CASE Len(s) = n + 1
  <2>1. n + 1 \in 1..Len(s) /\ (n + 1) - 1 = n
    BY <1>1, <1>4
  <2>2. e[n + 1] = 10 * e[n] + s[n + 1]
    BY <1>1, <2>1
  <2> QED
    BY <1>1, <1>2, <1>4, <2>2
<1>5. CASE Len(s) = n + 2
  <2>1. n + 1 \in 1..Len(s) /\ (n + 1) - 1 = n /\ n + 2 \in 1..Len(s) /\ (n + 2) - 1 = n + 1
    BY <1>1, <1>5
  <2>2. e[n + 1] = 10 * e[n] + s[n + 1] /\ e[n + 2] = 10 * e[n + 1] + s[n + 2]
    BY <1>1, <2>1
  <2> QED
    BY <1>1, <1>2, <1>5, <2>2
<1> QED
  BY <1>1, <1>3, <1>4, <1>5

LEMMA Joined ==
    ASSUME NEW p \in Seq(Int), NEW q \in Seq(Int)
    PROVE  /\ Len(p \o q) = Len(p) + Len(q)
           /\ \A k \in 1..Len(p) : (p \o q)[k] = p[k]
           /\ \A k \in 1..Len(q) : (p \o q)[Len(p) + k] = q[k]
OBVIOUS

\* The client finds the point behind the units, and the cents behind the point.
LEMMA ShownInParts ==
    ASSUME NEW a \in Nat, ShownAs(shown, a)
    PROVE  /\ S!ShownText.sign = 1 /\ S!ShownText.exponent = <<>>
           /\ S!ShownText.integer = SubSeq(shown, 1, Len(Units(a)))
           /\ S!ShownText.fraction = SubSeq(shown, Len(Units(a)) + 2, Len(shown))
<1> DEFINE n == Len(Units(a))
           u == Units(a)
           T == {k \in DOMAIN shown : shown[k] = S!Point} \cup {Len(shown) + 1}
           point == S!Min(T)
<1>1. S!ShownText =
          [negative |-> FALSE, sign |-> 1, exponent |-> <<>>,
           integer |-> SubSeq(shown, 1, point - 1),
           fraction |-> SubSeq(shown, point + 1, Len(shown))]
  BY DEF S!ShownText
<1>2. u \in Seq(0..9) /\ n \in Nat
  <2>1. u \in Seq(0..9)
    BY Cents, DigitsAreWorth DEF Units
  <2> QED
    BY <2>1
<1>3. /\ shown \in Seq(Int)
      /\ \A k \in 1..n : shown[k] = u[k]
      /\ \/ Len(shown) = n
         \/ Len(shown) \in n + 1..n + 3 /\ shown[n + 1] = -1
  BY <1>2 DEF ShownAs, S!Point
<1>4. T = {k \in DOMAIN shown : shown[k] = -1} \cup {Len(shown) + 1}
  BY DEF S!Point
<1> HIDE DEF n, u, T, point
<1>5. T \subseteq Nat /\ T # {} /\ n + 1 \in T
  BY <1>2, <1>3, <1>4, SMTT(60)
<1>6. \A k \in T : n + 1 <= k
  <2>1. ASSUME NEW k \in T, k <= n PROVE FALSE
    <3>1. k \in 1..n /\ k \in DOMAIN shown /\ k # Len(shown) + 1
      BY <1>2, <1>3, <1>4, <2>1
    <3>2. shown[k] = -1 /\ shown[k] = u[k] /\ u[k] \in 0..9
      BY <1>2, <1>3, <1>4, <3>1 DEF n, u
    <3> QED
      BY <3>2
  <2> QED
    BY <1>2, <1>5, <2>1
<1>7. point = n + 1
  <2>1. point \in T /\ \A k \in T : point <= k
    BY <1>5, LeastOf DEF point
  <2> QED
    BY <1>2, <1>5, <1>6, <2>1
<1>8. point - 1 = n /\ point + 1 = n + 2
  BY <1>2, <1>7
<1> QED
  BY <1>1, <1>8 DEF n

LEMMA ShownIsAmount ==
    ASSUME NEW a \in Nat, ShownAs(shown, a) PROVE S!IsValue(S!ShownText, a)
<1> DEFINE u == Units(a)
           n == Len(u)
           x == (a % 100) \div 10
           y == a % 10
           t == S!ShownText
           s == t.integer \o t.fraction
           f == Len(t.fraction)
           m == S!Value(s)
           v == a \div 100
<1>1. u \in Seq(0..9) /\ S!Value(u) = v /\ v \in Nat /\ x \in 0..9 /\ y \in 0..9
      /\ a = 10 * (10 * v + x) + y
  BY Cents, DigitsAreWorth DEF Units
<1>2. n \in Nat /\ Digits(u)
  <2> HIDE DEF u
  <2> QED
    BY <1>1, SequenceOfDigits DEF Digits
<1>3. /\ shown \in Seq(Int)
      /\ \A k \in 1..n : shown[k] = u[k]
      /\ \/ Len(shown) = n + 3 /\ shown[n + 2] = x /\ shown[n + 3] = y
         \/ Len(shown) = n + 2 /\ shown[n + 2] = x /\ y = 0
         \/ Len(shown) = n /\ x = 0 /\ y = 0
  BY DEF ShownAs
<1>4. /\ t.sign = 1 /\ t.exponent = <<>>
      /\ t.integer = SubSeq(shown, 1, n) /\ t.fraction = SubSeq(shown, n + 2, Len(shown))
  BY ShownInParts
<1>5. S!IsValue(t, a) <=>
          SameNumber(m, Len(t.integer) + f, t.sign * S!Value(t.exponent) - f + 2, a)
  BY EqualIsSame DEF S!IsValue
<1> HIDE DEF u, n, x, y, t, v
<1>6. S!Value(t.exponent) = 0
  <2>1. Len(<<>>) = 0
    OBVIOUS
  <2>2. S!Value(<<>>) = 0
    BY <2>1, ValuesBySteps
  <2> QED
    BY <1>4, <2>2
<1>7. Len(shown) \in Nat /\ n <= Len(shown)
  BY <1>2, <1>3
<1>8. /\ t.integer \in Seq(Int) /\ Len(t.integer) = n
      /\ \A k \in 1..n : t.integer[k] = shown[k]
  BY <1>2, <1>3, <1>4, <1>7
<1>9. /\ t.fraction \in Seq(Int)
      /\ f = IF n + 2 <= Len(shown) THEN Len(shown) - (n + 1) ELSE 0
      /\ \A k \in 1..f : t.fraction[k] = shown[n + 2 + k - 1]
  <2>1. t.fraction \in Seq(Int)
    BY <1>2, <1>3, <1>4, <1>7
  <2>2. f = IF n + 2 <= Len(shown) THEN Len(shown) - (n + 2) + 1 ELSE 0
    BY <1>2, <1>3, <1>4, <1>7
  <2>3. \A k \in 1..f : t.fraction[k] = shown[n + 2 + k - 1]
    BY <1>2, <1>3, <1>4, <1>7
  <2>4. Len(shown) - (n + 2) + 1 = Len(shown) - (n + 1)
    BY <1>2, <1>7
  <2> QED
    BY <2>1, <2>2, <2>3, <2>4
<1>10. /\ f \in 0..2
       /\ f > 0 => t.fraction[1] = x
       /\ f > 1 => t.fraction[2] = y
       /\ f < 2 => y = 0
       /\ f < 1 => x = 0
  <2>1. CASE Len(shown) = n + 3 /\ shown[n + 2] = x /\ shown[n + 3] = y
    <3>1. f = 2 /\ n + 2 + 1 - 1 = n + 2 /\ n + 2 + 2 - 1 = n + 3 /\ 1 \in 1..f /\ 2 \in 1..f
      BY <1>2, <1>9, <2>1
    <3> HIDE DEF f
    <3>2. t.fraction[1] = shown[n + 2 + 1 - 1] /\ t.fraction[2] = shown[n + 2 + 2 - 1]
      BY <1>9, <3>1
    <3> QED
      BY <2>1, <3>1, <3>2
  <2>2. CASE Len(shown) = n + 2 /\ shown[n + 2] = x /\ y = 0
    <3>1. f = 1 /\ n + 2 + 1 - 1 = n + 2 /\ 1 \in 1..f
      BY <1>2, <1>9, <2>2
    <3> HIDE DEF f
    <3>2. t.fraction[1] = shown[n + 2 + 1 - 1]
      BY <1>9, <3>1
    <3> QED
      BY <2>2, <3>1, <3>2
  <2>3. CASE Len(shown) = n /\ x = 0 /\ y = 0
    <3>1. f = 0
      BY <1>2, <1>9, <2>3
    <3> HIDE DEF f
    <3> QED
      BY <2>3, <3>1
  <2> QED
    BY <1>3, <2>1, <2>2, <2>3
<1>11. /\ Len(s) = n + f
       /\ \A k \in 1..n : s[k] = u[k]
       /\ f > 0 => s[n + 1] = x
       /\ f > 1 => s[n + 2] = y
  <2>0. /\ Len(s) = Len(t.integer) + f
        /\ \A k \in 1..Len(t.integer) : s[k] = t.integer[k]
        /\ \A k \in 1..f : s[Len(t.integer) + k] = t.fraction[k]
    BY <1>8, <1>9, Joined, Zenon
  <2>1. Len(s) = n + f
    BY <1>8, <2>0
  <2>2. \A k \in 1..n : s[k] = t.integer[k]
    BY <1>8, <2>0
  <2>3. \A k \in 1..f : s[n + k] = t.fraction[k]
    BY <1>8, <2>0
  <2>4. f > 0 => 1 \in 1..f
    BY <1>10
  <2>5. f > 1 => 2 \in 1..f
    BY <1>10
  <2> HIDE DEF s, f
  <2>6. \A k \in 1..n : s[k] = u[k]
    BY <1>3, <1>8, <2>2
  <2>7. f > 0 => s[n + 1] = x
    BY <1>10, <2>3, <2>4
  <2>8. f > 1 => s[n + 2] = y
    BY <1>10, <2>3, <2>5, <1>2
  <2> QED
    BY <2>1, <2>6, <2>7, <2>8
<1> HIDE DEF s, f
<1>12. Digits(s)
  <2>1. \A k \in 1..n + f : k \in 1..n \/ (k = n + 1 /\ f > 0) \/ (k = n + 2 /\ f > 1)
    BY <1>2, <1>10
  <2>2. \A k \in 1..n : u[k] \in 0..9
    BY <1>2 DEF Digits, n
  <2>3. ASSUME NEW k \in 1..n + f PROVE s[k] \in 0..9
    <3>1. CASE k \in 1..n
      BY <1>11, <2>2, <3>1
    <3>2. CASE k = n + 1 /\ f > 0
      BY <1>1, <1>11, <3>2
    <3>3. CASE k = n + 2 /\ f > 1
      BY <1>1, <1>11, <3>3
    <3> QED
      BY <2>1, <3>1, <3>2, <3>3
  <2>4. n + f \in Nat
    BY <1>2, <1>10
  <2> QED
    BY <1>11, <2>3, <2>4 DEF Digits
<1>13. /\ f = 0 => m = v
       /\ f = 1 => m = 10 * v + x
       /\ f = 2 => m = 10 * (10 * v + x) + y
  <2>1. Len(u) = n /\ Len(u) <= Len(s) /\ \A k \in 1..Len(u) : s[k] = u[k]
    BY <1>2, <1>10, <1>11 DEF n
  <2>2. /\ Len(s) = Len(u) => S!Value(s) = S!Value(u)
        /\ Len(s) = Len(u) + 1 => S!Value(s) = 10 * S!Value(u) + s[Len(u) + 1]
        /\ Len(s) = Len(u) + 2 =>
              S!Value(s) = 10 * (10 * S!Value(u) + s[Len(u) + 1]) + s[Len(u) + 2]
    BY <1>2, <1>12, <2>1, ValueWithCents
  <2>3. n + 0 = n /\ 1 > 0 /\ 2 > 0 /\ 2 > 1
    BY <1>2
  <2> QED
    BY <1>1, <1>11, <2>1, <2>2, <2>3
<1> HIDE DEF m
<1>14. m \in Nat /\ 1 * 0 - f + 2 = 2 - f /\ MaxDigits + 2 \in Nat /\ 2 - f \in 0..MaxDigits + 2
  <2>1. m \in Nat
    BY <1>12, ValueBounded DEF m
  <2> QED
    BY <1>10, <2>1, DigitsAreFew
<1>15. m * S!TenTo(2 - f) = a
  <2>1. S!TenTo(0) = 1 /\ S!TenTo(1) = 10 /\ S!TenTo(2) = 100
    <3>1. S!TenTo(0 + 1) = 10 * S!TenTo(0) /\ S!TenTo(1 + 1) = 10 * S!TenTo(1)
      BY TenToNext
    <3>2. 0 + 1 = 1 /\ 1 + 1 = 2
      OBVIOUS
    <3> QED
      BY <3>1, <3>2, TenToZero
  <2>2. CASE f = 0
    <3>1. 2 - f = 2 /\ m = v /\ x = 0 /\ y = 0
      BY <1>10, <1>13, <2>2
    <3> QED
      BY <1>1, <2>1, <3>1
  <2>3. CASE f = 1
    <3>1. 2 - f = 1 /\ m = 10 * v + x /\ y = 0
      BY <1>10, <1>13, <2>3
    <3> QED
      BY <1>1, <2>1, <3>1
  <2>4. CASE f = 2
    <3>1. 2 - f = 0 /\ m = 10 * (10 * v + x) + y
      BY <1>10, <1>13, <2>4
    <3> QED
      BY <1>1, <2>1, <3>1
  <2> QED
    BY <1>10, <2>2, <2>3, <2>4
<1>16. m = 0 \/ a = 0 => m = a
  <2>1. 2 - f \in Nat
    BY <1>10
  <2>2. S!TenTo(2 - f) \in Nat \ {0}
    BY <2>1, TenToPositive
  <2> DEFINE o == S!TenTo(2 - f)
  <2> HIDE DEF o
  <2>3. m * o = a /\ o \in Nat \ {0}
    BY <1>15, <2>2 DEF o
  <2>4. m = 0 => a = 0
    BY <2>3
  <2>5. a = 0 => m = 0
    <3>1. m # 0 => 1 * o <= m * o
      BY <1>14, <2>3, ProductsOrdered
    <3> QED
      BY <1>14, <2>3, <3>1
  <2> QED
    BY <2>4, <2>5
<1>17. SameNumber(m, Len(t.integer) + f, 2 - f, a)
  BY <1>14, <1>15, <1>16 DEF SameNumber
<1>18. t.sign * S!Value(t.exponent) - f + 2 = 2 - f
  BY <1>4, <1>6, <1>14
<1> QED
  BY <1>5, <1>17, <1>18 DEF t

-----------------------------------------------------------------------------
(***************************************************************************)
(* A sum: its way.                                                         *)
(***************************************************************************)
\* What is read: the sum, or the rest of the accruals.
Owed == IF credit = 0 THEN S!ParseSum(text) ELSE credit - S!ParseSum(text)

\* What has been parsed is not lost: each stage has it in its own form.
SumInv ==
    /\ text \in Texts
    /\ stage \in {"request", "refused", "parsed", "read", "converted", "shown"}
    /\ credit \in Nat /\ (credit # 0 => credit >= S!ParseSum(text))
    /\ stage = "request" => credit = 0
    /\ stage = "refused" => S!ParseSum(text) = Invalid
    /\ stage \in {"parsed", "read", "converted", "shown"} => S!ParseSum(text) # Invalid
    /\ stage = "parsed" => amount = S!ParseSum(text) /\ credit = 0
    /\ stage = "read" => numeric \in S!Numerics(Owed)
    /\ stage \in {"converted", "shown"} => amount = Owed
    /\ stage = "shown" => shown = S!Compacted(S!AmountString(amount))

LEMMA OwedIsAmount ==
    ASSUME SumInv, S!ParseSum(text) # Invalid
    PROVE  Owed \in Nat /\ S!ParseSum(text) \in Nat \ {0}
<1>1. S!ParseSum(text) \in Nat \ {0}
  BY SumAccepted DEF SumInv
<1>2. credit \in Nat /\ (credit # 0 => credit >= S!ParseSum(text))
  BY DEF SumInv
<1> QED
  BY <1>1, <1>2 DEF Owed

LEMMA SumIsParsed == SumInv => S!ParsedExactly
<1> SUFFICES ASSUME SumInv PROVE S!ParsedExactly
  OBVIOUS
<1>1. text \in Texts
  BY DEF SumInv
<1>2. ASSUME stage = "refused", ~text.negative
      PROVE  \A h \in 1..S!TenTo(MaxDigits + 2) - 1 : ~S!Equal(S!Decimal(text), h)
  BY <1>1, <1>2, SumRefused DEF SumInv
<1>3. ASSUME stage = "parsed"
      PROVE  /\ ~text.negative
             /\ amount \in 1..S!TenTo(MaxDigits + 2) - 1
             /\ S!IsValue(text, amount)
  <2>1. amount = S!ParseSum(text) /\ S!ParseSum(text) # Invalid
    BY <1>3 DEF SumInv
  <2> QED
    BY <1>1, <2>1, SumAccepted DEF S!IsValue
<1> QED
  BY <1>2, <1>3 DEF S!ParsedExactly

LEMMA SumIsShown == SumInv => S!ShownExactly
<1> SUFFICES ASSUME SumInv PROVE S!ShownExactly
  OBVIOUS
<1>1. stage # "failed"
  BY DEF SumInv
<1>2. ASSUME stage = "shown"
      PROVE  /\ S!IsValue(text, IF credit = 0 THEN amount ELSE credit - amount)
             /\ S!IsValue(S!ShownText, amount)
  <2>1. /\ S!ParseSum(text) # Invalid /\ amount = Owed /\ text \in Texts /\ credit \in Nat
        /\ shown = S!Compacted(S!AmountString(amount))
    BY <1>2 DEF SumInv
  <2>2. Owed \in Nat /\ S!ParseSum(text) \in Nat \ {0}
    BY <2>1, OwedIsAmount
  <2>3. S!IsValue(S!ShownText, amount)
    <3>1. ShownAs(shown, amount)
      BY <2>1, <2>2, CompactedAsShown
    <3> QED
      BY <2>1, <2>2, <3>1, ShownIsAmount
  <2>4. (IF credit = 0 THEN amount ELSE credit - amount) = S!ParseSum(text)
    BY <2>1, <2>2 DEF Owed
  <2>5. S!IsValue(text, S!ParseSum(text))
    BY <2>1, SumAccepted DEF S!IsValue
  <2> QED
    BY <2>3, <2>4, <2>5
<1> QED
  BY <1>1, <1>2 DEF S!ShownExactly

LEMMA SumBegins == S!Init => SumInv
BY DEF S!Init, SumInv

LEMMA SumParse ==
    ASSUME SumInv, S!Parse
    PROVE  SumInv'
<1>1. /\ text' = text /\ credit' = credit /\ credit = 0 /\ amount' = S!ParseSum(text)
      /\ stage' = IF amount' = Invalid THEN "refused" ELSE "parsed"
      /\ text \in Texts
  BY DEF SumInv, S!Parse
<1> QED
  BY <1>1 DEF SumInv, Owed

LEMMA SumReadAlone ==
    ASSUME SumInv, S!ReadAlone
    PROVE  SumInv'
<1>1. /\ text' = text /\ credit' = credit /\ credit = 0 /\ stage' = "read"
      /\ text \in Texts /\ numeric' \in S!Numerics(S!ParseSum(text))
      /\ S!ParseSum(text) # Invalid
  BY DEF SumInv, S!ReadAlone
<1> QED
  BY <1>1 DEF SumInv, Owed

LEMMA SumReadBalance ==
    ASSUME SumInv, NEW c \in Credits, S!ReadBalance(c) PROVE SumInv'
<1>1. /\ text' = text /\ credit' = c /\ stage' = "read" /\ text \in Texts
      /\ c >= S!ParseSum(text) /\ numeric' \in S!Numerics(c - S!ParseSum(text))
      /\ S!ParseSum(text) # Invalid
  BY DEF SumInv, S!ReadBalance
<1>2. c \in Nat
  BY InputsAssumption DEF S!ConstantsAssumption
<1>3. S!ParseSum(text) \in Nat \ {0}
  BY <1>1, OwedIsAmount
<1>4. c # 0
  BY <1>1, <1>2, <1>3
<1> QED
  BY <1>1, <1>2, <1>4 DEF SumInv, Owed

LEMMA SumConvert ==
    ASSUME SumInv, S!Convert
    PROVE  SumInv'
<1>1. /\ text' = text /\ credit' = credit /\ text \in Texts
      /\ amount' = S!FromNumeric(numeric[1], numeric[2])
      /\ stage' = IF amount' = Invalid THEN "failed" ELSE "converted"
      /\ S!ParseSum(text) # Invalid /\ numeric \in S!Numerics(Owed)
      /\ credit \in Nat /\ (credit # 0 => credit >= S!ParseSum(text))
  BY DEF SumInv, S!Convert
<1>2. Owed \in Nat
  BY <1>1, OwedIsAmount
<1>3. S!FromNumeric(numeric[1], numeric[2]) = Owed
  BY <1>1, <1>2, NumericConverted
<1>4. Owed # Invalid
  <2>1. Invalid \notin Int
    BY <1>1, TextOfDigits, Zenon
  <2> QED
    BY <1>2, <2>1
<1>5. stage' = "converted" /\ amount' = Owed /\ Owed' = Owed
  BY <1>1, <1>3, <1>4 DEF Owed
<1> QED
  BY <1>1, <1>5 DEF SumInv

LEMMA SumShow ==
    ASSUME SumInv, S!Show
    PROVE  SumInv'
<1>1. /\ text' = text /\ credit' = credit /\ amount' = amount /\ stage' = "shown"
      /\ shown' = S!Compacted(S!AmountString(amount))
      /\ text \in Texts /\ amount = Owed /\ S!ParseSum(text) # Invalid
      /\ credit \in Nat /\ (credit # 0 => credit >= S!ParseSum(text))
  BY DEF SumInv, S!Show
<1>2. Owed' = Owed
  BY <1>1 DEF Owed
<1> QED
  BY <1>1, <1>2 DEF SumInv

-----------------------------------------------------------------------------
\* What each unit keeps.
UnitsInv ==
    /\ unit = "sum" => SumInv
    /\ unit = "number" => NumberInv
    /\ unit = "response" => ResponseInv
    /\ unit = "configuration" => StartInv
    /\ unit = "body" => BodyInv
    /\ unit = "request" => RequestInv

LEMMA UnitsBegin == Init => UnitsInv
BY SumBegins, NumberBegins, RequestBegins, ResponseBegins, StartBegins, BodyBegins
   DEF Init, UnitsInv

LEMMA UnitsStep == UnitsInv /\ [Next]_vars => UnitsInv'
<1> SUFFICES ASSUME UnitsInv, [Next]_vars PROVE UnitsInv'
  OBVIOUS
<1>1. unit' = unit
  BY DEF Next, vars
<1>2. ASSUME unit = "request" PROVE RequestInv'
  <2>1. CASE UNCHANGED vars
    <3>1. UNCHANGED <<request, pc, user, call, outcome, status>>
      BY <2>1 DEF vars, requestVars
    <3> QED
      BY <1>2, <3>1 DEF UnitsInv, RequestInv, A!RefusedWithoutEffect, Authentic, Whole,
                        A!Presented
  <2>2. CASE A!Next
    BY <1>2, <2>2, RequestDecompress, RequestRoute, RequestAuthenticate, RequestReadBody,
       RequestServe, RequestRespond DEF UnitsInv, A!Next
  <2> QED
    BY <1>2, <2>1, <2>2 DEF Next
<1>3. ASSUME unit = "response" PROVE ResponseInv'
  <2>1. CASE UNCHANGED vars
    <3>1. UNCHANGED <<pc, now, number, response, received, outcome, until>>
      BY <2>1 DEF vars, responseVars
    <3> QED
      BY <1>3, <3>1 DEF UnitsInv, ResponseInv, LongEnough, C!OnlySoundVerdicts, C!Sound,
                        C!SilentAsAsked, C!Asked, C!Longest
  <2>2. CASE C!Next
    BY <1>3, <2>2, ResponseAnswer, ResponseFail, ResponseFetch, ResponsePause,
       ResponseElapse DEF UnitsInv, C!Next
  <2> QED
    BY <1>3, <2>1, <2>2 DEF Next
<1>4. ASSUME unit = "configuration" PROVE StartInv'
  <2>1. CASE UNCHANGED vars
    <3>1. UNCHANGED <<start, cfg, pc>>
      BY <2>1 DEF vars, startVars
    <3> QED
      BY <1>4, <3>1, StartStutters DEF UnitsInv
  <2>2. CASE F!Next
    BY <1>4, <2>2, StartParseFlags, StartLoadFile, StartReadEnvironment, StartApplyFlags,
       StartCheck, StartMakeClient DEF UnitsInv, F!Next
  <2> QED
    BY <1>4, <2>1, <2>2 DEF Next
<1>5. ASSUME unit = "body" PROVE BodyInv'
  <2>1. CASE UNCHANGED vars
    <3>1. UNCHANGED <<request, pc, zips, body, wrapped, gz, err, given, last>>
      BY <2>1 DEF vars, bodyVars
    <3> QED
      BY <1>5, <3>1 DEF UnitsInv, BodyInv, Arrived, Negotiated, Unread, PlainInv, ZippedInv,
                        Inflated, LeftAfter, G!Codings
  <2>2. CASE G!Next
    BY <1>5, <2>2, BodyCompress, BodyReadBody DEF UnitsInv, G!Next
  <2> QED
    BY <1>5, <2>1, <2>2 DEF Next
<1>6. ASSUME unit = "number" PROVE NumberInv'
  <2>1. CASE UNCHANGED vars
    <3>1. UNCHANGED <<number, value, mistake, i, checksum, double, result>>
      BY <2>1 DEF vars, numberVars
    <3> QED
      BY <1>6, <3>1, NumberStutters DEF UnitsInv
  <2>2. CASE N!Next
    BY <1>6, <2>2, NumberStep DEF UnitsInv
  <2> QED
    BY <1>6, <2>1, <2>2 DEF Next
<1>7. ASSUME unit = "sum" PROVE SumInv'
  <2>1. CASE UNCHANGED vars
    <3>1. UNCHANGED <<text, stage, amount, credit, numeric, shown>>
      BY <2>1 DEF vars, sumVars
    <3> QED
      BY <1>7, <3>1 DEF UnitsInv, SumInv, Owed
  <2>2. CASE S!Next
    BY <1>7, <2>2, SumParse, SumReadAlone, SumReadBalance, SumConvert, SumShow
       DEF UnitsInv, S!Next
  <2> QED
    BY <1>7, <2>1, <2>2 DEF Next
<1> QED
  BY <1>1, <1>2, <1>3, <1>4, <1>5, <1>6, <1>7 DEF UnitsInv

\* Each unit keeps its invariant, whatever its inputs are.
THEOREM UnitsInvariant == Spec => []UnitsInv
BY UnitsBegin, UnitsStep, PTL DEF Spec

\* A service is called only for a request that is whole and authentic, and the
\* status tells whether it has had an effect; for every request, however many
\* Authorization headers it has and however long its body is.
THEOREM NoEffectWhenRefused == Spec => []RefusedWithoutEffect
<1>1. UnitsInv => RefusedWithoutEffect
  BY DEF UnitsInv, RequestInv, RefusedWithoutEffect
<1> QED
  BY <1>1, UnitsInvariant, PTL

\* A sum is the number that was written, or there is none that the column holds; for
\* every text, however many digits the parser allows.
THEOREM ParsesExactly == Spec => []ParsedExactly
<1>1. UnitsInv => ParsedExactly
  BY SumIsParsed DEF UnitsInv, ParsedExactly
<1> QED
  BY <1>1, UnitsInvariant, PTL

\* The client is shown the number it asked for, or the exact rest of its accruals,
\* whatever form the driver reads it in; for every amount.
THEOREM ShowsExactly == Spec => []ShownExactly
<1>1. UnitsInv => ShownExactly
  BY SumIsShown DEF UnitsInv, ShownExactly
<1> QED
  BY <1>1, UnitsInvariant, PTL

\* The loop takes what the Luhn check by its definition takes, and neither a wrong digit
\* nor two neighbours in each other's place make another number; for every length.
THEOREM DetectsSlips == Spec => []SlipsDetected
<1>1. UnitsInv => SlipsDetected
  BY NumberDetects DEF UnitsInv, SlipsDetected
<1> QED
  BY <1>1, UnitsInvariant, PTL

\* A verdict about an order comes from one whole, valid object about that order, with
\* nothing after it; for every body, however long, and every limit.
THEOREM VerdictsAreSound == Spec => []OnlySoundVerdicts
<1>1. UnitsInv => OnlySoundVerdicts
  BY DEF UnitsInv, ResponseInv, OnlySoundVerdicts
<1> QED
  BY <1>1, UnitsInvariant, PTL

\* After a 429 a worker is silent as long as it is asked to, or for the longest pause;
\* for every number of seconds and every date, and every size of the integers that
\* holds the longest pause.
THEOREM SilenceIsKept == Spec => []SilentAsAsked
<1>1. UnitsInv => SilentAsAsked
  BY DEF UnitsInv, ResponseInv, SilentAsAsked
<1> QED
  BY <1>1, UnitsInvariant, PTL

\* The program connects to its database exactly with a configuration in order, and
\* with each setting from its most important source; for every set of starts.
THEOREM ConnectsAsConfigured == Spec => []ConnectedAsConfigured
<1>1. UnitsInv => ConnectedAsConfigured
  BY DEF UnitsInv, StartInv, ConnectedAsConfigured
<1> QED
  BY <1>1, UnitsInvariant, PTL

\* The response is compressed if all the items that decide take gzip, and not if all of
\* them refuse it or none is there, however many items an Accept-Encoding has.
THEOREM NegotiatesAsMeant == Spec => []NegotiatedAsMeant
<1>1. UnitsInv => NegotiatedAsMeant
  BY NegotiatedIsMeant DEF UnitsInv, BodyInv, NegotiatedAsMeant
<1> QED
  BY <1>1, UnitsInvariant, PTL

\* A handler is given a beginning of what the client means, and its end only after all of
\* it: of every body of any pieces, any number of gzip members among them, whatever the
\* codings it is said to have, and for every number of reads.
THEOREM GivesWhatIsMeant == Spec => []ContentAsMeant
<1>1. UnitsInv => ContentAsMeant
  BY BodyIsMeant DEF UnitsInv, ContentAsMeant
<1> QED
  BY <1>1, UnitsInvariant, PTL
=============================================================================
