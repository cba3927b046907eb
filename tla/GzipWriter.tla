----------------------------- MODULE GzipWriter -----------------------------
(***************************************************************************)
(* The response writer of the Compress middleware, as a handler drives it  *)
(* for a client that accepts gzip: any sequence of header changes,         *)
(* WriteHeader and Write, then a return or a panic.  Beside it runs what   *)
(* net/http would have sent to the same calls without the middleware.  No  *)
(* handler here reaches past the middleware to that writer (Unwrap).       *)
(***************************************************************************)
EXTENDS Naturals, Sequences

CONSTANTS
    Chunks,         \* the data that handlers write
    Empty,          \* a write of no data
    MaxCalls        \* bound: how many calls a handler makes

ASSUME BoundAssumption == MaxCalls \in Nat

VARIABLES
    pc,             \* whether the handler runs, or how it ended
    calls,          \* how many calls the handler has made
    header,         \* the header map
    code,           \* gzipResponseWriter.code
    sent,           \* gzipResponseWriter.sent
    gz,             \* gzipResponseWriter.gz
    wire,           \* what the client receives
    plain,          \* what it would receive without the middleware
    orderly         \* history: no late change of the head of the response

vars == <<pc, calls, header, code, sent, gz, wire, plain, orderly>>
-----------------------------------------------------------------------------
\* Status codes by what the code tells apart, and 0 for none.
Informational == 103
OK == 200
NotFound == 404
Bodyless == {204, 304}
FinalCodes == {OK, NotFound} \cup Bodyless

Types == {"none", "text", "image"}
Encodings == {"none", "gzip", "br"}
Header == [type : Types, encoding : Encodings, length : BOOLEAN]
NoHeader == [type |-> "none", encoding |-> "none", length |-> FALSE]

\* The parts of a body: data as it is, compressed data, the end of a gzip stream.
Raw(chunk) == <<"raw", chunk>>
Zipped(chunk) == <<"zip", chunk>>
End == <<"end", Empty>>
Parts == ({"raw", "zip"} \X Chunks) \cup {End}

Response == [hints : Nat, status : FinalCodes \cup {0}, header : Header, body : Seq(Parts)]

TypeOK ==
    /\ pc \in {"running", "returned", "panicked"}
    /\ calls \in 0..MaxCalls
    /\ header \in Header
    /\ code \in FinalCodes \cup {0}
    /\ sent \in BOOLEAN
    /\ gz \in {"none", "open", "closed"}
    /\ wire \in Response
    /\ plain \in Response
    /\ orderly \in BOOLEAN
-----------------------------------------------------------------------------
\* The http.ResponseWriter underneath: the first final code counts, and the
\* header as it is then; a write sends 200 first; some codes have no body.
HeadSent(response, c, h) ==
    IF response.status # 0 THEN response
    ELSE IF c = Informational THEN [response EXCEPT !.hints = response.hints + 1]
    ELSE [response EXCEPT !.status = c, !.header = h]

Written(response, parts, h) ==
    LET headed == HeadSent(response, OK, h)
    IN  IF headed.status \in Bodyless THEN headed
        ELSE [headed EXCEPT !.body = headed.body \o parts]

\* What a client makes of a response: a gzip stream is decoded, if it has an end.
HasEnd(body) == body # <<>> /\ body[Len(body)] = End
Data(body) == IF HasEnd(body) THEN SubSeq(body, 1, Len(body) - 1) ELSE body

Decoded(response) ==
    LET zipped == response.header.encoding = "gzip"
        data == Data(response.body)
    IN  [hints |-> response.hints, status |-> response.status,
         type |-> response.header.type,
         encoding |-> IF zipped THEN "none" ELSE response.header.encoding,
         complete |-> zipped => HasEnd(response.body),
         body |-> [i \in DOMAIN data |-> data[i][2]]]
-----------------------------------------------------------------------------
(***************************************************************************)
(* Faults: a plausible mistake in the code each.  They are no part of the  *)
(* specification; they show what the properties below detect.              *)
(***************************************************************************)
\* finish leaves the stream to the garbage collector.
FinishedUnclosed(response) ==
    IF ~sent /\ code # 0 THEN HeadSent(response, code, header) ELSE response

\* start keeps the Content-Length of the uncompressed body.
GzipHeaderLong == [header EXCEPT !.encoding = "gzip"]
-----------------------------------------------------------------------------
Init ==
    /\ pc = "running"
    /\ calls = 0
    /\ header = NoHeader
    /\ code = 0
    /\ sent = FALSE
    /\ gz = "none"
    /\ wire = [hints |-> 0, status |-> 0, header |-> NoHeader, body |-> <<>>]
    /\ plain = [hints |-> 0, status |-> 0, header |-> NoHeader, body |-> <<>>]
    /\ orderly = TRUE

Called == pc = "running" /\ calls < MaxCalls /\ calls' = calls + 1 /\ UNCHANGED pc

\* A plain writer has sent the head of the response, and this one has not.
Lagging == plain.status # 0 /\ ~sent

\* The handler changes the header map.
SetHeader(h) ==
    /\ Called
    /\ header' = h
    /\ orderly' = (orderly /\ ~Lagging)
    /\ UNCHANGED <<code, sent, gz, wire, plain>>

\* What WriteHeader keeps back: informational codes are passed on at once.
KeptCode(c) == IF c = Informational THEN 0 ELSE c

WriteHeader(c) ==
    /\ Called
    /\ IF sent \/ code # 0
       THEN UNCHANGED <<code, wire>>
       ELSE /\ code' = KeptCode(c)
            /\ wire' = IF c = Informational THEN HeadSent(wire, c, header) ELSE wire
    /\ plain' = HeadSent(plain, c, header)
    /\ orderly' = (orderly /\ ~(Lagging /\ code = 0))
    /\ UNCHANGED <<header, sent, gz>>

\* start: the head of the response is sent, and compression decided.
StatusToSend == IF code = 0 THEN OK ELSE code

Compressible ==
    /\ StatusToSend \notin Bodyless
    /\ header.encoding = "none"
    /\ header.type = "text"

GzipHeader == [header EXCEPT !.encoding = "gzip", !.length = FALSE]

Start ==
    /\ sent' = TRUE
    /\ code' = StatusToSend
    /\ header' = IF Compressible THEN GzipHeader ELSE header
    /\ gz' = IF Compressible THEN "open" ELSE "none"

Write(chunk) ==
    LET parts(open) ==
            IF chunk = Empty THEN <<>> ELSE IF open THEN <<Zipped(chunk)>> ELSE <<Raw(chunk)>>
    IN
    /\ Called
    /\ IF sent
       THEN /\ wire' = Written(wire, parts(gz = "open"), header)
            /\ UNCHANGED <<header, code, sent, gz>>
       ELSE IF chunk = Empty
       THEN UNCHANGED <<header, code, sent, gz, wire>>
       ELSE /\ Start
            /\ wire' = Written(HeadSent(wire, StatusToSend, header'), parts(Compressible), header')
    /\ plain' = Written(plain, IF chunk = Empty THEN <<>> ELSE <<Raw(chunk)>>, header)
    /\ UNCHANGED orderly

\* finish: a kept code is sent, the stream closed.
Finished(response) ==
    LET headed == IF ~sent /\ code # 0 THEN HeadSent(response, code, header) ELSE response
    IN  IF gz = "open" THEN Written(headed, <<End>>, header) ELSE headed

\* The handler returns; net/http sends 200 if nothing was sent.
Return ==
    /\ pc = "running"
    /\ pc' = "returned"
    /\ wire' = HeadSent(Finished(wire), OK, header)
    /\ plain' = HeadSent(plain, OK, header)
    /\ sent' = (sent \/ code # 0)
    /\ gz' = IF gz = "open" THEN "closed" ELSE gz
    /\ UNCHANGED <<calls, header, code, orderly>>

\* The handler panics; finish is deferred, and the connection is cut.
Panic ==
    /\ pc = "running"
    /\ pc' = "panicked"
    /\ wire' = Finished(wire)
    /\ sent' = (sent \/ code # 0)
    /\ gz' = IF gz = "open" THEN "closed" ELSE gz
    /\ UNCHANGED <<calls, header, code, plain, orderly>>

Next ==
    \/ \E type \in Types, encoding \in {"none", "br"}, length \in BOOLEAN :
          SetHeader([type |-> type, encoding |-> encoding, length |-> length])
    \/ \E c \in FinalCodes \cup {Informational} : WriteHeader(c)
    \/ \E chunk \in Chunks \cup {Empty} : Write(chunk)
    \/ Return
    \/ Panic

Spec == Init /\ [][Next]_vars
-----------------------------------------------------------------------------
\* A client can always tell what it gets: compressed data is announced by the
\* header, never mixed with plain data, never with the Content-Length of the
\* uncompressed body, and nothing follows the end of the stream
\* (compress_middleware.go:119-126, 135).
StreamWellFormed ==
    LET zipped == wire.header.encoding = "gzip" IN
    /\ \A i \in DOMAIN wire.body :
          /\ wire.body[i][1] = "raw" <=> ~zipped
          /\ wire.body[i] = End => i = Len(wire.body)
    /\ zipped => ~wire.header.length

\* The middleware is transparent: a client that decodes the response sees the
\* status, content type and data it would see without it -- for every handler
\* that leaves the head of the response alone once a plain writer would have
\* sent it, as all handlers here do.
Transparent == pc = "returned" /\ orderly => Decoded(wire) = Decoded(plain)
=============================================================================
