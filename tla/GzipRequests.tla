---------------------------- MODULE GzipRequests ----------------------------
(***************************************************************************)
(* The request side of the Compress middleware: what it makes of the       *)
(* Accept-Encoding and Content-Encoding headers, and the reader that the   *)
(* handler gets for a compressed body.                                     *)
(*                                                                         *)
(* A body is a sequence of pieces: data, the heads and the ends of gzip's  *)
(* members, and bytes that are none of them.  RFC 1952 makes a series of   *)
(* members one body, whose content is the data of all of them.             *)
(***************************************************************************)
EXTENDS Integers, Sequences, SequencesExt

CONSTANTS
    Requests,       \* what clients send, the codings they say it has, line after line,
                    \* and the items of their Accept-Encoding
    MaxReads        \* bound: how often a handler reads

VARIABLES
    request,        \* method, codings, accept, and the pieces that are sent
    pc,             \* "arrived", "handled" or "refused"
    zips,           \* whether the response goes through a gzipResponseWriter
    body,           \* what has not been read from the connection
    wrapped,        \* whether the handler's body is a lazyGzipReader
    gz, err,        \* its fields: "none" or "open"; "none", "end" or "error"
    given,          \* what the handler has read
    last,           \* how its last read ended: "data", "end", "error"
    reads

vars == <<request, pc, zips, body, wrapped, gz, err, given, last, reads>>
-----------------------------------------------------------------------------
StreamHead == <<"gzip", "head">>
StreamEnd == <<"gzip", "end">>
Junk == <<"junk", "bytes">>
Data == {"data"} \X STRING
Pieces == Data \cup {StreamHead, StreamEnd, Junk}

\* An item of Accept-Encoding: a coding and its quality in tenths, as parseQuality
\* gives it: no parameter q counts as 1, a bad or negative one as 0.
Item == [coding : {"gzip", "*", "br"}, q : Int, found : BOOLEAN, bad : BOOLEAN]

Quality(item) ==
    CASE ~item.found -> 10
      [] item.found /\ (item.bad \/ item.q < 0) -> 0
      [] OTHER -> item.q

\* Nothing is assumed of a body: what is said to be gzip may be anything.
RequestsAssumption ==
    \A r \in Requests :
        /\ r.method \in {"HEAD", "POST"}
        /\ r.accept \in Seq(Item) /\ r.codings \in Seq(STRING)
        /\ r.sent \in Seq(Pieces)
-----------------------------------------------------------------------------
(***************************************************************************)
(* Faults: a plausible mistake in the code each.  They are no part of the  *)
(* specification; they show what the properties below detect.              *)
(***************************************************************************)
\* A quality of zero for gzip counts as none at all.
DecidedByAnyPositive(gzipQ, starQ) == gzipQ > 0 \/ starQ > 0

\* The error of a bad head is returned and forgotten.
KeptNever(e) == "none"
-----------------------------------------------------------------------------
\* acceptsGzip: the last item of each kind counts, and gzip before the star.
Named(accept, coding) == {k \in DOMAIN accept : accept[k].coding = coding}

LastQuality(accept, coding) ==
    LET named == Named(accept, coding)
    IN  IF named = {} THEN -1 ELSE Quality(accept[Max(named)])

Decided(gzipQ, starQ) == IF gzipQ >= 0 THEN gzipQ > 0 ELSE starQ > 0

AcceptsGzip(accept) == Decided(LastQuality(accept, "gzip"), LastQuality(accept, "*"))

\* Empty lines are left out, several codings are joined to something unknown.
SingleContentEncoding(codings) ==
    LET lines == {k \in DOMAIN codings : codings[k] # ""}
    IN  IF lines = {} THEN ""
        ELSE IF \E k \in lines : lines = {k} THEN codings[Max(lines)]
        ELSE "several"

Init ==
    /\ request \in Requests
    /\ body = request.sent
    /\ pc = "arrived"
    /\ zips = FALSE
    /\ wrapped = FALSE
    /\ gz = "none"
    /\ err = "none"
    /\ given = <<>>
    /\ last = "none"
    /\ reads = 0

\* Compress up to the handler's call; 415 for a coding it does not know.
Compress ==
    /\ pc = "arrived"
    /\ zips' = (request.method # "HEAD" /\ AcceptsGzip(request.accept))
    /\ LET encoding == SingleContentEncoding(request.codings)
       IN  /\ wrapped' = (encoding = "gzip")
           /\ pc' = IF encoding \in {"", "identity", "gzip"} THEN "handled" ELSE "refused"
    /\ UNCHANGED <<request, body, gz, err, given, last, reads>>
-----------------------------------------------------------------------------
\* Reading the connection itself.
ReadPlain ==
    /\ IF body = <<>>
       THEN last' = "end" /\ UNCHANGED <<given, body>>
       ELSE last' = "data" /\ given' = Append(given, body[1]) /\ body' = Tail(body)
    /\ UNCHANGED <<gz, err>>

Kept(e) == e

\* lazyGzipReader.Read before there is a gzip.Reader: it reads the head.  For a
\* body that is empty NewReader's error is io.EOF.
ReadFirst ==
    /\ gz = "none" /\ err = "none"
    /\ IF body # <<>> /\ body[1] = StreamHead
       THEN gz' = "open" /\ last' = "none" /\ UNCHANGED err
       ELSE /\ last' = IF body = <<>> THEN "end" ELSE "error"
            /\ err' = Kept(last')
            /\ UNCHANGED gz
    /\ body' = IF body = <<>> THEN body ELSE Tail(body)
    /\ UNCHANGED given

ReadFailed ==
    /\ err # "none"
    /\ last' = err
    /\ UNCHANGED <<given, body, gz, err>>

\* gzip.Reader.Read (external), piece by piece.  The middleware leaves the reader in
\* its multistream mode: after the end of a member it goes on with the next one, and
\* only where nothing follows is the body over.  Errors and the end stay.
ReadZipped ==
    /\ gz = "open"
    /\ CASE last \in {"error", "end"} -> UNCHANGED <<last, given, body>>
         [] last \notin {"error", "end"} /\ body = <<StreamEnd>> ->
               last' = "end" /\ body' = <<>> /\ UNCHANGED given
         [] /\ last \notin {"error", "end"}
            /\ Len(body) > 1 /\ body[1] = StreamEnd /\ body[2] = StreamHead ->
               last' = "none" /\ body' = Tail(Tail(body)) /\ UNCHANGED given
         [] last \notin {"error", "end"} /\ body # <<>> /\ body[1] \in Data ->
               last' = "data" /\ given' = Append(given, body[1]) /\ body' = Tail(body)
         [] OTHER -> last' = "error" /\ UNCHANGED <<given, body>>
    /\ UNCHANGED <<gz, err>>

\* The handler reads.
ReadBody ==
    /\ pc = "handled"
    /\ reads < MaxReads
    /\ reads' = reads + 1
    /\ IF wrapped THEN ReadFirst \/ ReadFailed \/ ReadZipped ELSE ReadPlain
    /\ UNCHANGED <<request, pc, zips, wrapped>>

Next == Compress \/ ReadBody

Spec == Init /\ [][Next]_vars
-----------------------------------------------------------------------------
\* The codings that change a body.
Codings == {k \in DOMAIN request.codings : request.codings[k] \notin {"", "identity"}}

\* The k-th piece stands where RFC 1952 has it: a head begins each member, data and
\* at last an end follow it.
Fits(pieces, k) ==
    IF k = 1 \/ pieces[k - 1] = StreamEnd
    THEN pieces[k] = StreamHead
    ELSE pieces[k] \in Data \cup {StreamEnd}

\* The data among the first n pieces, for each n.
DataOf(pieces) ==
    LET data[n \in 0..Len(pieces)] ==
            IF n = 0 THEN << >>
            ELSE IF pieces[n] \in Data THEN Append(data[n - 1], pieces[n])
            ELSE data[n - 1]
    IN  data

\* However often the handler reads, it gets what the client means.  A body without a
\* coding is given as it is.  Of one that was compressed once, with gzip, the handler
\* gets the data of its members up to the first piece that has no place there, nothing
\* behind it, and an end without an error only after the end of the last member (or of
\* nothing at all).  No other body is given to a handler.
ContentAsMeant ==
    LET sent == request.sent
    IN  CASE Codings = {} ->
                IsPrefix(given, sent) /\ (last = "end" => given = sent)
          [] \E c \in Codings : Codings = {c} /\ request.codings[c] = "gzip" ->
                \E n \in 0..Len(sent) :
                    /\ \A k \in 1..n : Fits(sent, k)
                    /\ given = DataOf(sent)[n]
                    /\ last = "end" => n = Len(sent) /\ (n = 0 \/ sent[n] = StreamEnd)
          [] OTHER -> given = <<>> /\ last = "none"

\* The response is compressed exactly for the clients that take gzip: by the items that
\* name it, or by those that name any coding if there are none.  Only a client that both
\* takes and refuses what decides may be answered either way; HEAD has no body.
NegotiatedAsMeant ==
    LET gzip == Named(request.accept, "gzip")
        deciding == IF gzip # {} THEN gzip ELSE Named(request.accept, "*")
        q(k) == Quality(request.accept[k])
    IN  pc # "arrived" =>
          /\ (\A k \in deciding : q(k) = 0) \/ request.method = "HEAD" => ~zips
          /\ deciding # {} /\ (\A k \in deciding : q(k) > 0) /\ request.method # "HEAD" => zips
=============================================================================
