--------------------------- MODULE AccrualClient ---------------------------
(***************************************************************************)
(* One request of the accrual client: what it makes of whatever the        *)
(* service, or something between, answers, and for how long a worker is    *)
(* silent after a 429.  Times are in nanoseconds; a duration, and a number *)
(* that ParseInt reads, is at most MaxInt, and larger products wrap.       *)
(***************************************************************************)
EXTENDS Integers, Sequences, SequencesExt, FiniteSetsExt

CONSTANTS
    Numbers,        \* order numbers, and Other for any other text
    Statuses,       \* accrualapp.ValidStatus
    MaxAccrual,     \* maxAccrual
    MaxBody,        \* maxBodySize
    MaxInt,         \* the largest int64
    Second,         \* time.Second
    DefaultRetry,   \* DefaultRetryAfter
    MaxRetry,       \* maxRetryAfterSeconds
    None, Other,
    Bodies,         \* the bodies of the responses
    Retries,        \* their Retry-After headers
    Times           \* when a client or a worker may look at the clock

ConstantsAssumption ==
    /\ Other \in Numbers /\ Other \notin Statuses
    /\ MaxAccrual \in Nat /\ MaxBody \in Nat /\ MaxInt \in Nat
    /\ MaxRetry \in Nat /\ DefaultRetry \in Nat
    /\ Second \in Nat \ {0}
    /\ MaxRetry * Second <= MaxInt
    /\ DefaultRetry * Second <= MaxInt
    /\ DefaultRetry <= MaxRetry
    /\ Times \subseteq Nat

\* A JSON value of some length, and what comes after it, piece by piece.  The
\* value of a malformed body is None.
Objects == [order : Numbers, status : Statuses \cup {Other}, accrual : Int \cup {None}]
Body == [object : Objects \cup {None}, length : Nat, trailing : Seq({"space", "data"})]

\* A Retry-After header: absent, or anything, or a number, or a date.
Header == [kind : {"absent", "garbage"}]
    \cup [kind : {"seconds"}, seconds : Int]
    \cup [kind : {"date"}, at : Nat]

InputsAssumption == Bodies \subseteq Body /\ Retries \subseteq Header

VARIABLES
    pc,             \* "asking", "answered", "done" and "silent", in this order
    now,            \* the clock
    number,         \* the order
    response,       \* what arrived, None if nothing did
    received,       \* when it arrived
    outcome,        \* what Fetch returns
    until           \* until when the worker is silent

vars == <<pc, now, number, response, received, outcome, until>>
-----------------------------------------------------------------------------
Failed == [kind |-> "error"]
Unregistered == [kind |-> "unregistered"]
Result(object) ==
    [kind |-> "result", status |-> object.status, accrual |-> object.accrual]
Limited(wait) == [kind |-> "limited", wait |-> wait]

\* A signed integer that kept only the bits of an int64.
Wrapped(n) == ((n + MaxInt + 1) % (2 * (MaxInt + 1))) - MaxInt - 1
-----------------------------------------------------------------------------
(***************************************************************************)
(* Faults: a plausible mistake in the code each.  They are no part of the  *)
(* specification; they show what the properties below detect.              *)
(***************************************************************************)
\* The reader stops at the limit, and the excess is not noticed.
ReadShort(body) == Min({body.length + Len(body.trailing), MaxBody})

\* Seconds are not limited before they become nanoseconds.
CappedNever(seconds) == seconds
-----------------------------------------------------------------------------
\* io.ReadAll of the LimitReader: how much of the body is read.
Read(body) == Min({body.length + Len(body.trailing), MaxBody + 1})

\* ValidateAccrual.
ValidAccrual(a) == a = None \/ (a >= 0 /\ a < MaxAccrual)

\* decode.
Decoded(body) ==
    IF \/ Read(body) > MaxBody
       \/ body.object = None
       \/ body.length > Read(body)
       \/ "data" \in Range(SubSeq(body.trailing, 1, Read(body) - body.length))
       \/ body.object.order # number
       \/ body.object.status \notin Statuses
       \/ ~ValidAccrual(body.object.accrual)
    THEN Failed
    ELSE Result(body.object)

Capped(seconds) == IF seconds > MaxRetry THEN MaxRetry ELSE seconds

\* retryAfter.  Sub is limited to what a duration can hold.
RetryAfter(header, time) ==
    CASE header.kind = "seconds" /\ header.seconds \in 0..MaxInt ->
            Wrapped(Capped(header.seconds) * Second)
      [] header.kind = "date" ->
            IF header.at > time THEN Min({header.at - time, MaxInt}) ELSE 0
      [] OTHER -> DefaultRetry * Second

\* What Fetch makes of a response.
Interpreted(r, time) ==
    CASE r.status = 200 -> Decoded(r.body)
      [] r.status = 204 -> Unregistered
      [] r.status = 429 -> Limited(RetryAfter(r.retry, time))
      [] OTHER -> Failed
-----------------------------------------------------------------------------
Init ==
    /\ pc = "asking"
    /\ now \in Times
    /\ number \in Numbers \ {Other}
    /\ response = None
    /\ received = 0
    /\ outcome = None
    /\ until = 0

\* The service answers, or a proxy does.
Answer(r) ==
    /\ pc = "asking"
    /\ response' = r
    /\ received' = now
    /\ pc' = "answered"
    /\ UNCHANGED <<now, number, outcome, until>>

\* The request fails, or five seconds are over, or the worker is stopped.
Fail ==
    /\ pc = "asking"
    /\ outcome' = Failed
    /\ pc' = "done"
    /\ UNCHANGED <<now, number, response, received, until>>

\* Fetch returns.  The body may break off.
Fetch ==
    /\ pc = "answered"
    /\ \/ outcome' = Interpreted(response, now)
       \/ response.status = 200 /\ outcome' = Failed
    /\ pc' = "done"
    /\ UNCHANGED <<now, number, response, received, until>>

\* Worker.pause.
Pause ==
    /\ pc = "done" /\ outcome.kind = "limited"
    /\ until' = now + outcome.wait
    /\ pc' = "silent"
    /\ UNCHANGED <<now, number, response, received, outcome>>

\* The clock goes on at any moment.
Elapse(time) ==
    /\ time > now
    /\ now' = time
    /\ UNCHANGED <<pc, number, response, received, outcome, until>>

Responses ==
    [status : {200}, body : Bodies, retry : {[kind |-> "absent"]}]
        \cup [status : {204, 500}, body : {None}, retry : {[kind |-> "absent"]}]
        \cup [status : {429}, body : {None}, retry : Retries]

Next ==
    \/ \E r \in Responses : Answer(r)
    \/ Fail \/ Fetch \/ Pause
    \/ \E time \in Times : Elapse(time)

Spec == Init /\ [][Next]_vars
-----------------------------------------------------------------------------
\* The body is one JSON object about the order asked for, with nothing else
\* after it, however much, and within the limit.
Sound(body) ==
    /\ body.object # None
    /\ body.object.order = number
    /\ body.object.status # Other
    /\ body.object.accrual # None => body.object.accrual \in 0..MaxAccrual - 1
    /\ \A k \in DOMAIN body.trailing : body.trailing[k] # "data"
    /\ body.length + Len(body.trailing) <= MaxBody

\* A verdict is believed only if all of the response is sound: another order's,
\* one that is cut at the limit or followed by something else never decides an
\* order.  A response that arrived is not taken for "not registered" either.
OnlySoundVerdicts ==
    pc \in {"done", "silent"} =>
        /\ outcome.kind = "result" =>
              /\ response.status = 200 /\ Sound(response.body)
              /\ outcome = Result(response.body.object)
        /\ outcome.kind = "unregistered" => response.status = 204

\* The moment up to which a 429 asks for silence; one that does not say asks for the
\* default pause.
Asked ==
    CASE response.retry.kind = "seconds" /\ response.retry.seconds >= 0 ->
            received + response.retry.seconds * Second
      [] response.retry.kind = "date" -> response.retry.at
      [] OTHER -> received + DefaultRetry * Second

\* The seconds of silence that are never exceeded.  A number that ParseInt cannot hold is
\* no number to the client, so that it gets the default pause and not the longest one.
Longest ==
    IF response.retry.kind = "seconds" /\ response.retry.seconds > MaxInt
    THEN DefaultRetry ELSE MaxRetry

\* After a 429 the worker is silent at least until the moment asked for, or for the
\* longest pause there is for such a header: no product of seconds that the client could
\* read, and no date, past or far in the future, wraps around, and the way to the worker
\* does not shorten it (client.go:129-150, worker.go:204-215).
SilentAsAsked ==
    pc = "silent" =>
        /\ until >= received
        /\ until >= Min({Asked, received + Longest * Second})
=============================================================================
