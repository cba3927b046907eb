-------------------------- MODULE GzipWriterProofs --------------------------
(***************************************************************************)
(* Proofs about GzipWriter.tla for every set of chunks and every number of *)
(* calls a handler makes: the response stays well typed, its stream is     *)
(* well formed however the handler goes about it, a panic included, and a  *)
(* client that decodes it gets what it would get without the middleware.   *)
(***************************************************************************)
EXTENDS GzipWriter, TLAPS

\* Until start nothing but informational codes has gone out, and no handler
\* announces gzip itself.
Unstarted ==
    pc = "running" /\ ~sent =>
        /\ wire.status = 0
        /\ wire.header.encoding # "gzip"
        /\ wire.body = <<>>
        /\ gz = "none"
        /\ header.encoding # "gzip"

\* From start on the header announces gzip exactly if there is a stream, which
\* is open and has no end while the handler runs.
Started ==
    pc = "running" /\ sent =>
        /\ wire.status # 0
        /\ gz = "open" <=> wire.header.encoding = "gzip"
        /\ gz # "closed"
        /\ gz = "open" => ~wire.header.length /\ wire.status \notin Bodyless
        /\ \A i \in DOMAIN wire.body :
              wire.body[i][1] = IF gz = "open" THEN "zip" ELSE "raw"

\* In between the two make StreamWellFormed; it remains when the handler has ended.
Ended == pc # "running" => StreamWellFormed

Inv == TypeOK /\ Unstarted /\ Started /\ Ended
-----------------------------------------------------------------------------
Codes == FinalCodes \cup {Informational}

LEMMA PartsTyped ==
    ASSUME NEW chunk \in Chunks
    PROVE  /\ Raw(chunk) \in Parts /\ Raw(chunk)[1] = "raw" /\ Raw(chunk) # End
           /\ Zipped(chunk) \in Parts /\ Zipped(chunk)[1] = "zip" /\ Zipped(chunk) # End
           /\ End \in Parts /\ End[1] = "end"
BY DEF Parts, Raw, Zipped, End

LEMMA HeadSentTyped ==
    ASSUME NEW r \in Response, NEW c \in Codes, NEW h \in Header
    PROVE  /\ HeadSent(r, c, h) \in Response
           /\ HeadSent(r, c, h).body = r.body
           /\ r.status # 0 => HeadSent(r, c, h) = r
           /\ r.status = 0 /\ c # Informational =>
                 HeadSent(r, c, h).status = c /\ HeadSent(r, c, h).header = h
           /\ r.status = 0 /\ c = Informational =>
                 HeadSent(r, c, h).status = 0 /\ HeadSent(r, c, h).header = r.header
<1>1. CASE r.status # 0
  BY <1>1 DEF HeadSent
<1>2. CASE r.status = 0 /\ c = Informational
  <2>1. HeadSent(r, c, h) = [r EXCEPT !.hints = r.hints + 1]
    BY <1>2 DEF HeadSent
  <2> QED BY <1>2, <2>1 DEF Response
<1>3. CASE r.status = 0 /\ c # Informational
  <2>1. HeadSent(r, c, h) = [r EXCEPT !.status = c, !.header = h]
    BY <1>3 DEF HeadSent
  <2>2. c \in FinalCodes
    BY <1>3 DEF Codes
  <2> QED BY <1>3, <2>1, <2>2 DEF Response
<1> QED BY <1>1, <1>2, <1>3

LEMMA WrittenTyped ==
    ASSUME NEW r \in Response, NEW parts \in Seq(Parts), NEW h \in Header
    PROVE  Written(r, parts, h) \in Response
<1>1. HeadSent(r, OK, h) \in Response
  BY HeadSentTyped DEF Codes, FinalCodes
<1>2. HeadSent(r, OK, h).body \o parts \in Seq(Parts)
  BY <1>1 DEF Response
<1> QED BY <1>1, <1>2 DEF Written, Response

LEMMA WrittenAfterHead ==
    ASSUME NEW r \in Response, NEW parts \in Seq(Parts), NEW h \in Header, r.status # 0
    PROVE  /\ Written(r, parts, h).status = r.status
           /\ Written(r, parts, h).header = r.header
           /\ Written(r, parts, h).body =
                 IF r.status \in Bodyless THEN r.body ELSE r.body \o parts
<1>1. HeadSent(r, OK, h) = r
  BY DEF HeadSent
<1> QED BY <1>1 DEF Written, Response
-----------------------------------------------------------------------------
\* A handler writes: what goes out has the kind of what is out already.
LEMMA KindKept ==
    ASSUME NEW body \in Seq(Parts), NEW parts \in Seq(Parts), NEW kind,
           \A i \in DOMAIN body : body[i][1] = kind,
           \A i \in DOMAIN parts : parts[i][1] = kind
    PROVE  \A i \in DOMAIN (body \o parts) : (body \o parts)[i][1] = kind
<1> TAKE i \in DOMAIN (body \o parts)
<1>1. i \in 1..(Len(body) + Len(parts))
  OBVIOUS
<1>2. CASE i <= Len(body)
  BY <1>1, <1>2
<1>3. CASE i > Len(body)
  <2>1. i - Len(body) \in DOMAIN parts /\ (body \o parts)[i] = parts[i - Len(body)]
    BY <1>1, <1>3
  <2> QED BY <2>1
<1> QED BY <1>1, <1>2, <1>3

\* The stream ends: there is one end, after all data.
LEMMA EndLast ==
    ASSUME NEW body \in Seq(Parts),
           \A i \in DOMAIN body : body[i][1] = "zip"
    PROVE  \A i \in DOMAIN (body \o <<End>>) :
              /\ (body \o <<End>>)[i][1] # "raw"
              /\ (body \o <<End>>)[i] = End => i = Len(body \o <<End>>)
<1> TAKE i \in DOMAIN (body \o <<End>>)
<1>1. i \in 1..(Len(body) + 1) /\ Len(body \o <<End>>) = Len(body) + 1
  BY DEF End
<1>2. CASE i <= Len(body)
  <2>1. (body \o <<End>>)[i] = body[i] /\ body[i][1] = "zip"
    BY <1>1, <1>2
  <2> QED BY <2>1 DEF End
<1>3. CASE i = Len(body) + 1
  <2>1. (body \o <<End>>)[i] = End
    BY <1>3
  <2> QED BY <1>1, <1>3, <2>1 DEF End
<1> QED BY <1>1, <1>2, <1>3

\* All data of one kind and no end: well formed, if the header says so.
LEMMA RunningWellFormed == TypeOK /\ Unstarted /\ Started /\ pc = "running" => StreamWellFormed
<1> SUFFICES ASSUME TypeOK, Unstarted, Started, pc = "running"
             PROVE  StreamWellFormed
  OBVIOUS
<1>1. sent \in BOOLEAN
  BY DEF TypeOK
<1>2. CASE ~sent
  BY <1>2 DEF Unstarted, StreamWellFormed
<1>3. CASE sent
  BY <1>3 DEF Started, StreamWellFormed, End
<1> QED BY <1>1, <1>2, <1>3
-----------------------------------------------------------------------------
WellFormed(r) ==
    /\ \A i \in DOMAIN r.body :
          /\ r.body[i][1] = "raw" <=> r.header.encoding # "gzip"
          /\ r.body[i] = End => i = Len(r.body)
    /\ r.header.encoding = "gzip" => ~r.header.length

\* Whatever the handler has done, finish leaves a well formed response.
LEMMA FinishedWellFormed ==
    ASSUME TypeOK, Unstarted, Started, pc = "running"
    PROVE  /\ Finished(wire) \in Response
           /\ WellFormed(Finished(wire))
           /\ Finished(wire).status = 0 =>
                 Finished(wire).body = <<>> /\ header.encoding # "gzip"
<1> USE DEF TypeOK
<1>1. CASE ~sent /\ code # 0
  <2>1. gz = "none" /\ wire.status = 0 /\ wire.body = <<>> /\ header.encoding # "gzip"
    BY <1>1 DEF Unstarted
  <2>2. Finished(wire) = HeadSent(wire, code, header)
    BY <1>1, <2>1 DEF Finished
  <2>3. code \in Codes /\ code # Informational
    BY <1>1 DEF Codes, FinalCodes, Bodyless, OK, NotFound, Informational
  <2>4. /\ Finished(wire) \in Response
        /\ Finished(wire).body = <<>>
        /\ Finished(wire).header = header
    BY <2>1, <2>2, <2>3, HeadSentTyped
  <2> QED BY <2>1, <2>4 DEF WellFormed
<1>2. CASE ~sent /\ code = 0
  <2>1. /\ gz = "none" /\ wire.body = <<>>
        /\ header.encoding # "gzip" /\ wire.header.encoding # "gzip"
    BY <1>2 DEF Unstarted
  <2>2. Finished(wire) = wire
    BY <1>2, <2>1 DEF Finished
  <2> QED BY <2>1, <2>2 DEF WellFormed
<1>3. CASE sent /\ gz = "open"
  <2>1. /\ wire.status # 0 /\ wire.header.encoding = "gzip" /\ ~wire.header.length
        /\ wire.status \notin Bodyless
        /\ \A i \in DOMAIN wire.body : wire.body[i][1] = "zip"
    BY <1>3 DEF Started
  <2>2. wire.body \in Seq(Parts) /\ <<End>> \in Seq(Parts)
    BY DEF Response, Parts
  <2>3. Finished(wire) = Written(wire, <<End>>, header)
    BY <1>3 DEF Finished
  <2>4. Finished(wire) \in Response
    BY <2>2, <2>3, WrittenTyped
  <2>5. /\ Finished(wire).status # 0
        /\ Finished(wire).header = wire.header
        /\ Finished(wire).body = wire.body \o <<End>>
    <3> HIDE DEF TypeOK
    <3>1. wire \in Response /\ header \in Header /\ wire.status # 0 /\ wire.status \notin Bodyless
      BY <2>1 DEF TypeOK
    <3>2. /\ Written(wire, <<End>>, header).status = wire.status
          /\ Written(wire, <<End>>, header).header = wire.header
          /\ Written(wire, <<End>>, header).body = wire.body \o <<End>>
      BY <2>2, <3>1, WrittenAfterHead
    <3> QED BY <2>3, <3>1, <3>2
  <2> QED BY <2>1, <2>2, <2>4, <2>5, EndLast DEF WellFormed
<1>4. CASE sent /\ gz # "open"
  <2>1. wire.status # 0 /\ Finished(wire) = wire
    BY <1>4 DEF Started, Finished
  <2>2. WellFormed(wire)
    BY RunningWellFormed DEF StreamWellFormed, WellFormed
  <2> QED BY <2>1, <2>2
<1> QED BY <1>1, <1>2, <1>3, <1>4
-----------------------------------------------------------------------------
LEMMA InitInv == Init => Inv
<1> SUFFICES ASSUME Init PROVE Inv
  OBVIOUS
<1>1. TypeOK
  <2>1. NoHeader \in Header
    BY DEF NoHeader, Header, Types, Encodings
  <2>2. <<>> \in Seq(Parts)
    OBVIOUS
  <2>3. wire \in Response /\ plain \in Response
    BY <2>1, <2>2 DEF Init, Response
  <2>4. header \in Header /\ calls \in 0..MaxCalls
    BY <2>1, BoundAssumption DEF Init
  <2>5. /\ pc = "running" /\ code = 0 /\ sent = FALSE /\ gz = "none" /\ orderly = TRUE
    BY DEF Init
  <2> QED BY <2>3, <2>4, <2>5 DEF TypeOK
<1>2. Unstarted /\ Started
  BY DEF Init, Unstarted, Started, NoHeader
<1> QED BY <1>1, <1>2 DEF Inv, Ended, Init

LEMMA SetHeaderInv ==
    ASSUME Inv, NEW h \in Header, h.encoding # "gzip", SetHeader(h)
    PROVE  Inv'
<1> USE DEF SetHeader, Called
<1>1. TypeOK'
  BY BoundAssumption DEF Inv, TypeOK
<1>2. Unstarted' /\ Started' /\ Ended'
  BY DEF Inv, Unstarted, Started, Ended
<1> QED BY <1>1, <1>2 DEF Inv

LEMMA WriteHeaderInv ==
    ASSUME Inv, NEW c \in Codes, WriteHeader(c)
    PROVE  Inv'
<1> USE DEF WriteHeader, Called
<1>1. wire \in Response /\ plain \in Response /\ header \in Header /\ sent \in BOOLEAN
  BY DEF Inv, TypeOK
<1>2. plain' \in Response
  BY <1>1, HeadSentTyped
<1>3. CASE sent \/ code # 0
  <2>1. TypeOK'
    BY <1>2, <1>3, BoundAssumption DEF Inv, TypeOK
  <2> QED BY <1>3, <2>1 DEF Inv, Unstarted, Started, Ended
<1>4. CASE ~sent /\ code = 0
  <2>1. KeptCode(c) \in FinalCodes \cup {0}
    BY DEF KeptCode, Codes
  <2>2. wire.status = 0 /\ wire.body = <<>> /\ wire.header.encoding # "gzip"
    BY <1>4 DEF Inv, Unstarted
  <2>3. /\ wire' \in Response
        /\ wire'.status = 0 /\ wire'.body = <<>> /\ wire'.header = wire.header
    <3>1. CASE c = Informational
      BY <1>1, <1>4, <2>2, <3>1, HeadSentTyped
    <3>2. CASE c # Informational
      BY <1>1, <1>4, <2>2, <3>2
    <3> QED BY <3>1, <3>2
  <2>4. TypeOK'
    BY <1>2, <1>4, <2>1, <2>3, BoundAssumption DEF Inv, TypeOK
  <2>5. Unstarted' /\ Started'
    BY <1>4, <2>2, <2>3 DEF Inv, Unstarted, Started
  <2> QED BY <2>4, <2>5 DEF Inv, Ended
<1> QED BY <1>1, <1>3, <1>4

LEMMA ReturnInv == Inv /\ Return => Inv'
<1> SUFFICES ASSUME Inv, Return PROVE Inv'
  OBVIOUS
<1> USE DEF Return
<1>1. /\ Finished(wire) \in Response /\ WellFormed(Finished(wire))
      /\ Finished(wire).status = 0 => Finished(wire).body = <<>> /\ header.encoding # "gzip"
  BY FinishedWellFormed DEF Inv
<1>2. header \in Header /\ plain \in Response /\ OK \in Codes /\ OK # Informational
  BY DEF Inv, TypeOK, Codes, FinalCodes, OK, Informational
<1>3. wire' \in Response /\ plain' \in Response
  BY <1>1, <1>2, HeadSentTyped
<1>4. TypeOK'
  BY <1>3 DEF Inv, TypeOK
<1>5. WellFormed(wire')
  <2>1. CASE Finished(wire).status # 0
    BY <1>1, <1>2, <2>1, HeadSentTyped
  <2>2. CASE Finished(wire).status = 0
    <3>1. wire'.header = header /\ wire'.body = <<>>
      BY <1>1, <1>2, <2>2, HeadSentTyped
    <3> QED BY <1>1, <2>2, <3>1 DEF WellFormed
  <2> QED BY <2>1, <2>2
<1> QED BY <1>4, <1>5 DEF Inv, Unstarted, Started, Ended, StreamWellFormed, WellFormed

LEMMA PanicInv == Inv /\ Panic => Inv'
<1> SUFFICES ASSUME Inv, Panic PROVE Inv'
  OBVIOUS
<1> USE DEF Panic
<1>1. Finished(wire) \in Response /\ WellFormed(Finished(wire))
  BY FinishedWellFormed DEF Inv
<1>2. TypeOK'
  BY <1>1 DEF Inv, TypeOK
<1> QED BY <1>1, <1>2 DEF Inv, Unstarted, Started, Ended, StreamWellFormed, WellFormed

\* The parts a write adds, and the head that start sends before them.
LEMMA WriteInv ==
    ASSUME Inv, NEW chunk \in Chunks \cup {Empty}, Write(chunk)
    PROVE  Inv'
<1> DEFINE parts(open) ==
             IF chunk = Empty THEN <<>> ELSE IF open THEN <<Zipped(chunk)>> ELSE <<Raw(chunk)>>
           raw == IF chunk = Empty THEN <<>> ELSE <<Raw(chunk)>>
<1>1. /\ wire \in Response /\ plain \in Response /\ header \in Header
      /\ code \in FinalCodes \cup {0} /\ sent \in BOOLEAN
      /\ pc = "running" /\ pc' = "running" /\ calls' \in 0..MaxCalls
      /\ orderly' = orderly /\ orderly \in BOOLEAN /\ gz \in {"none", "open", "closed"}
  BY BoundAssumption DEF Inv, TypeOK, Write, Called
<1>2. ASSUME NEW open \in BOOLEAN
      PROVE  /\ parts(open) \in Seq(Parts)
             /\ \A i \in DOMAIN parts(open) :
                   parts(open)[i][1] = IF open THEN "zip" ELSE "raw"
  <2>1. CASE chunk = Empty
    BY <2>1
  <2>2. CASE chunk # Empty
    <3>1. chunk \in Chunks
      BY <2>2
    <3>2. parts(open) = IF open THEN <<Zipped(chunk)>> ELSE <<Raw(chunk)>>
      BY <2>2
    <3> HIDE DEF parts
    <3> QED BY <3>1, <3>2, PartsTyped
  <2> QED BY <2>1, <2>2
<1>3. plain' \in Response
  <2>1. raw \in Seq(Parts)
    BY PartsTyped
  <2>2. plain' = Written(plain, raw, header)
    BY DEF Write
  <2> HIDE DEF raw
  <2> QED BY <1>1, <2>1, <2>2, WrittenTyped
<1>4. CASE sent
  <2> DEFINE new == parts(gz = "open")
  <2>1. /\ wire.status # 0
        /\ gz = "open" <=> wire.header.encoding = "gzip"
        /\ gz # "closed"
        /\ gz = "open" => ~wire.header.length /\ wire.status \notin Bodyless
        /\ \A i \in DOMAIN wire.body :
              wire.body[i][1] = IF gz = "open" THEN "zip" ELSE "raw"
    BY <1>1, <1>4 DEF Inv, Started
  <2>2. wire' = Written(wire, new, header) /\ UNCHANGED <<header, code, sent, gz>>
    BY <1>4 DEF Write
  <2>3. /\ new \in Seq(Parts)
        /\ \A i \in DOMAIN new : new[i][1] = IF gz = "open" THEN "zip" ELSE "raw"
    BY <1>2
  <2> HIDE DEF new
  <2>4. /\ wire' \in Response
        /\ wire'.status = wire.status
        /\ wire'.header = wire.header
        /\ wire'.body = IF wire.status \in Bodyless THEN wire.body ELSE wire.body \o new
    BY <1>1, <2>1, <2>2, <2>3, WrittenTyped, WrittenAfterHead
  <2>5. \A i \in DOMAIN wire'.body :
           wire'.body[i][1] = IF gz = "open" THEN "zip" ELSE "raw"
    <3>1. wire.body \in Seq(Parts)
      BY <1>1 DEF Response
    <3>2. \A i \in DOMAIN (wire.body \o new) :
             (wire.body \o new)[i][1] = IF gz = "open" THEN "zip" ELSE "raw"
      BY <2>1, <2>3, <3>1, KindKept
    <3> QED BY <2>1, <2>4, <3>2
  <2>6. TypeOK'
    BY <1>1, <1>3, <2>2, <2>4 DEF TypeOK
  <2>7. Unstarted' /\ Started'
    BY <1>4, <2>1, <2>2, <2>4, <2>5 DEF Unstarted, Started
  <2> QED BY <1>1, <2>6, <2>7 DEF Inv, Ended
<1>5. CASE ~sent /\ chunk = Empty
  <2>1. UNCHANGED <<header, code, sent, gz, wire>>
    BY <1>5 DEF Write
  <2>2. TypeOK'
    BY <1>1, <1>3, <2>1 DEF Inv, TypeOK
  <2> QED BY <1>1, <2>1, <2>2 DEF Inv, Unstarted, Started, Ended
<1>6. CASE ~sent /\ chunk # Empty
  <2> DEFINE new == parts(Compressible)
             headed == HeadSent(wire, StatusToSend, header')
  <2>1. wire.status = 0 /\ wire.body = <<>> /\ header.encoding # "gzip"
    BY <1>1, <1>6 DEF Inv, Unstarted
  <2>2. Start /\ wire' = Written(headed, new, header')
    BY <1>6 DEF Write
  <2>3. /\ StatusToSend \in Codes /\ StatusToSend # Informational /\ StatusToSend # 0
        /\ StatusToSend \in FinalCodes
    BY <1>1 DEF StatusToSend, Codes, FinalCodes, Bodyless, OK, NotFound, Informational
  <2>4. Compressible \in BOOLEAN /\ (Compressible => StatusToSend \notin Bodyless)
    BY DEF Compressible
  <2>5. /\ header' \in Header
        /\ header'.encoding = "gzip" <=> Compressible
        /\ Compressible => ~header'.length
    BY <1>1, <2>1, <2>2, <2>4 DEF Start, GzipHeader, Header, Encodings
  <2>6. /\ new \in Seq(Parts)
        /\ \A i \in DOMAIN new : new[i][1] = IF Compressible THEN "zip" ELSE "raw"
    BY <1>2, <2>4
  <2>7. /\ headed \in Response /\ headed.status = StatusToSend
        /\ headed.header = header' /\ headed.body = <<>>
    BY <1>1, <2>1, <2>3, <2>5, HeadSentTyped
  <2> HIDE DEF new, headed
  <2>8. /\ wire' \in Response /\ wire'.status = StatusToSend /\ wire'.header = header'
        /\ wire'.body = IF StatusToSend \in Bodyless THEN <<>> ELSE new
    <3>1. /\ wire' \in Response /\ wire'.status = headed.status /\ wire'.header = headed.header
          /\ wire'.body = IF headed.status \in Bodyless THEN headed.body ELSE headed.body \o new
      <4>1. headed.status # 0
        BY <2>3, <2>7
      <4> QED BY <2>2, <2>5, <2>6, <2>7, <4>1, WrittenTyped, WrittenAfterHead
    <3>2. <<>> \o new = new
      BY <2>6
    <3> QED BY <2>7, <3>1, <3>2
  <2>9. sent' = TRUE /\ code' = StatusToSend /\ gz' = IF Compressible THEN "open" ELSE "none"
    BY <2>2 DEF Start
  <2>10. TypeOK'
    BY <1>1, <1>3, <2>3, <2>5, <2>8, <2>9 DEF TypeOK
  <2>11. \A i \in DOMAIN wire'.body :
            wire'.body[i][1] = IF gz' = "open" THEN "zip" ELSE "raw"
    BY <2>4, <2>6, <2>8, <2>9
  <2>12. Unstarted' /\ Started'
    BY <1>1, <2>3, <2>4, <2>5, <2>8, <2>9, <2>11 DEF Unstarted, Started
  <2> QED BY <1>1, <2>10, <2>12 DEF Inv, Ended
<1> QED BY <1>1, <1>4, <1>5, <1>6

LEMMA StepInv == Inv /\ [Next]_vars => Inv'
<1> SUFFICES ASSUME Inv, [Next]_vars PROVE Inv'
  OBVIOUS
<1>1. ASSUME NEW type \in Types, NEW encoding \in {"none", "br"}, NEW length \in BOOLEAN,
             SetHeader([type |-> type, encoding |-> encoding, length |-> length])
      PROVE  Inv'
  <2> DEFINE h == [type |-> type, encoding |-> encoding, length |-> length]
  <2>1. h \in Header /\ h.encoding # "gzip" /\ SetHeader(h)
    BY <1>1 DEF Header, Encodings
  <2> HIDE DEF h
  <2> QED BY <2>1, SetHeaderInv
<1>2. ASSUME NEW c \in FinalCodes \cup {Informational}, WriteHeader(c)
      PROVE  Inv'
  BY <1>2, WriteHeaderInv DEF Codes
<1>3. ASSUME NEW chunk \in Chunks \cup {Empty}, Write(chunk)
      PROVE  Inv'
  BY <1>3, WriteInv
<1>4. CASE Return
  BY <1>4, ReturnInv
<1>5. CASE Panic
  BY <1>5, PanicInv
<1>6. CASE UNCHANGED vars
  BY <1>6 DEF vars, Inv, TypeOK, Unstarted, Started, Ended, StreamWellFormed
<1> QED BY <1>1, <1>2, <1>3, <1>4, <1>5, <1>6 DEF Next

LEMMA Invariance == Spec => []Inv
BY InitInv, StepInv, PTL DEF Spec
-----------------------------------------------------------------------------
\* Every reachable state of the response writer is well typed
\* (compress_middleware.go:76-88).
THEOREM TypeCorrect == Spec => []TypeOK
<1>1. Inv => TypeOK
  BY DEF Inv
<1> QED BY <1>1, Invariance, PTL

\* Whatever a handler calls in whatever order, however often and however it
\* ends, the client can tell what it gets: compressed data is announced, not
\* mixed with plain data nor given its length, and nothing follows the end of
\* the stream (compress_middleware.go:90-138).
THEOREM StreamsAreWellFormed == Spec => []StreamWellFormed
<1>1. Inv => StreamWellFormed
  BY RunningWellFormed DEF Inv, Ended
<1> QED BY <1>1, Invariance, PTL
-----------------------------------------------------------------------------
(***************************************************************************)
(* Transparency: beside the response that is compressed runs the one that  *)
(* is not, and the two agree in what a client makes of them.               *)
(***************************************************************************)
SameData(b, c) == DOMAIN b = DOMAIN c /\ \A i \in DOMAIN b : b[i][2] = c[i][2]

AllRaw(b) == \A i \in DOMAIN b : b[i][1] = "raw"

\* While the head of the response is left alone, what is kept back is what a
\* plain writer has sent already.
AlikeBeforeStart ==
    pc = "running" /\ orderly /\ ~sent =>
        /\ wire.hints = plain.hints
        /\ plain.body = <<>>
        /\ plain.status = code \/ (code = 0 /\ plain.status = OK)
        /\ plain.status # 0 => plain.header = header

\* From start on both have the same status, type and data.
AlikeAfterStart ==
    pc = "running" /\ orderly /\ sent =>
        /\ wire.hints = plain.hints
        /\ wire.status = plain.status
        /\ wire.header.type = plain.header.type
        /\ plain.header.encoding = IF gz = "open" THEN "none" ELSE wire.header.encoding
        /\ SameData(wire.body, plain.body)
        /\ AllRaw(plain.body)

Alike == AlikeBeforeStart /\ AlikeAfterStart

LEMMA HeadSentHints ==
    ASSUME NEW r \in Response, NEW c \in Codes, NEW h \in Header, r.status = 0
    PROVE  HeadSent(r, c, h).hints = IF c = Informational THEN r.hints + 1 ELSE r.hints
BY DEF HeadSent, Response

\* The first write sends 200 and the header.
LEMMA WrittenFirst ==
    ASSUME NEW r \in Response, NEW parts \in Seq(Parts), NEW h \in Header, r.status = 0
    PROVE  /\ Written(r, parts, h).status = OK
           /\ Written(r, parts, h).header = h
           /\ Written(r, parts, h).hints = r.hints
           /\ Written(r, parts, h).body = r.body \o parts
<1> DEFINE headed == HeadSent(r, OK, h)
<1>1. /\ headed \in Response /\ headed.status = OK /\ headed.header = h
      /\ headed.body = r.body /\ headed.hints = r.hints
  BY HeadSentTyped, HeadSentHints DEF Codes, FinalCodes, OK, Informational
<1>2. Written(r, parts, h) = [headed EXCEPT !.body = headed.body \o parts]
  BY <1>1 DEF Written, OK, Bodyless
<1> HIDE DEF headed
<1> QED BY <1>1, <1>2 DEF Response

LEMMA WrittenHints ==
    ASSUME NEW r \in Response, NEW parts \in Seq(Parts), NEW h \in Header, r.status # 0
    PROVE  Written(r, parts, h).hints = r.hints
<1>1. HeadSent(r, OK, h) = r
  BY DEF HeadSent
<1> QED BY <1>1 DEF Written, Response

\* Data that is written to both keeps them the same.
LEMMA SameDataWritten ==
    ASSUME NEW b \in Seq(Parts), NEW c \in Seq(Parts), SameData(b, c),
           NEW x \in Parts, NEW y \in Parts, x[2] = y[2]
    PROVE  SameData(b \o <<x>>, c \o <<y>>)
<1>1. Len(b) = Len(c) /\ Len(b) \in Nat
  BY DEF SameData
<1>2. DOMAIN (b \o <<x>>) = 1..(Len(b) + 1) /\ DOMAIN (c \o <<y>>) = 1..(Len(b) + 1)
  BY <1>1
<1>3. ASSUME NEW i \in 1..(Len(b) + 1)
      PROVE  (b \o <<x>>)[i][2] = (c \o <<y>>)[i][2]
  <2>1. CASE i <= Len(b)
    <3>1. (b \o <<x>>)[i] = b[i] /\ (c \o <<y>>)[i] = c[i]
      BY <1>1, <2>1
    <3> QED BY <2>1, <3>1 DEF SameData
  <2>2. CASE i = Len(b) + 1
    <3>1. (b \o <<x>>)[i] = x /\ (c \o <<y>>)[i] = y
      BY <1>1, <2>2
    <3> QED BY <3>1
  <2> QED BY <1>1, <2>1, <2>2
<1> QED BY <1>2, <1>3 DEF SameData

LEMMA RawHasNoEnd ==
    ASSUME NEW b \in Seq(Parts), AllRaw(b)
    PROVE  ~HasEnd(b) /\ Data(b) = b
<1>1. b # <<>> => b[Len(b)][1] = "raw"
  BY DEF AllRaw
<1> QED BY <1>1 DEF HasEnd, Data, End

LEMMA DataBeforeEnd ==
    ASSUME NEW b \in Seq(Parts)
    PROVE  HasEnd(b \o <<End>>) /\ Data(b \o <<End>>) = b
<1>1. End \in Parts
  BY DEF Parts
<1>2. (b \o <<End>>)[Len(b \o <<End>>)] = End /\ b \o <<End>> # <<>>
  BY <1>1
<1>3. SubSeq(b \o <<End>>, 1, Len(b \o <<End>>) - 1) = b
  BY <1>1
<1> HIDE DEF End
<1> QED BY <1>2, <1>3 DEF HasEnd, Data

\* Two responses with the same data, one of them compressed or neither, are the
\* same to a client.
LEMMA DecodedSame ==
    ASSUME NEW w \in Response, NEW p \in Response,
           w.hints = p.hints, w.status = p.status, w.header.type = p.header.type,
           AllRaw(p.body), p.header.encoding # "gzip",
           \/ /\ w.header.encoding = "gzip" /\ p.header.encoding = "none"
              /\ \E b \in Seq(Parts) : w.body = b \o <<End>> /\ SameData(b, p.body)
           \/ /\ w.header.encoding = p.header.encoding
              /\ AllRaw(w.body) /\ SameData(w.body, p.body)
    PROVE  Decoded(w) = Decoded(p)
<1>1. w.body \in Seq(Parts) /\ p.body \in Seq(Parts)
  BY DEF Response
<1>2. Data(p.body) = p.body
  BY <1>1, RawHasNoEnd
<1>3. CASE w.header.encoding = "gzip"
  <2>1. PICK b \in Seq(Parts) : w.body = b \o <<End>> /\ SameData(b, p.body)
    BY <1>3
  <2>2. HasEnd(w.body) /\ Data(w.body) = b
    BY <2>1, DataBeforeEnd
  <2>3. [i \in DOMAIN b |-> b[i][2]] = [i \in DOMAIN p.body |-> p.body[i][2]]
    BY <2>1 DEF SameData
  <2>4. p.header.encoding = "none"
    BY <1>3
  <2> HIDE DEF HasEnd, Data
  <2> QED BY <1>2, <1>3, <2>2, <2>3, <2>4 DEF Decoded
<1>4. CASE w.header.encoding # "gzip"
  <2>1. Data(w.body) = w.body
    BY <1>1, <1>4, RawHasNoEnd
  <2>2. [i \in DOMAIN w.body |-> w.body[i][2]] = [i \in DOMAIN p.body |-> p.body[i][2]]
    BY <1>4 DEF SameData
  <2> HIDE DEF HasEnd, Data
  <2> QED BY <1>2, <1>4, <2>1, <2>2 DEF Decoded
<1> QED BY <1>3, <1>4
-----------------------------------------------------------------------------
LEMMA SetHeaderAlike ==
    ASSUME Inv, Alike, NEW h \in Header, SetHeader(h)
    PROVE  Alike'
BY DEF Inv, TypeOK, Alike, AlikeBeforeStart, AlikeAfterStart, SetHeader, Called, Lagging

LEMMA WriteHeaderAlike ==
    ASSUME Inv, Alike, NEW c \in Codes, WriteHeader(c)
    PROVE  Alike'
<1> USE DEF WriteHeader, Called
<1>1. /\ wire \in Response /\ plain \in Response /\ header \in Header
      /\ sent \in BOOLEAN /\ orderly \in BOOLEAN
      /\ pc = "running" /\ pc' = "running" /\ UNCHANGED <<header, sent, gz>>
      /\ orderly' => orderly
      /\ plain' = HeadSent(plain, c, header)
  BY DEF Inv, TypeOK
<1>2. CASE orderly' /\ sent
  <2>1. wire' = wire /\ plain.status # 0
    BY <1>1, <1>2 DEF Alike, AlikeAfterStart, Inv, Started
  <2>2. plain' = plain
    BY <1>1, <2>1, HeadSentTyped
  <2> QED BY <1>1, <1>2, <2>1, <2>2 DEF Alike, AlikeBeforeStart, AlikeAfterStart
<1>3. CASE orderly' /\ ~sent /\ code # 0
  <2>1. UNCHANGED <<wire, code>> /\ plain.status # 0
    BY <1>1, <1>3 DEF Alike, AlikeBeforeStart, OK
  <2>2. plain' = plain
    BY <1>1, <2>1, HeadSentTyped
  <2> QED BY <1>1, <1>3, <2>1, <2>2 DEF Alike, AlikeBeforeStart, AlikeAfterStart
<1>4. CASE orderly' /\ ~sent /\ code = 0
  <2>1. plain.status = 0 /\ plain.body = <<>> /\ wire.hints = plain.hints /\ wire.status = 0
    BY <1>1, <1>4 DEF Alike, AlikeBeforeStart, Lagging, Inv, Unstarted
  <2>2. code' = KeptCode(c) /\ plain'.body = <<>>
    BY <1>1, <1>4, <2>1, HeadSentTyped
  <2>3. CASE c = Informational
    <3>1. wire'.hints = wire.hints + 1 /\ plain'.hints = plain.hints + 1 /\ plain'.status = 0
      BY <1>1, <1>4, <2>1, <2>3, HeadSentTyped, HeadSentHints
    <3> QED BY <1>1, <1>4, <2>1, <2>2, <2>3, <3>1
            DEF Alike, AlikeBeforeStart, AlikeAfterStart, KeptCode
  <2>4. CASE c # Informational
    <3>1. wire' = wire /\ plain'.hints = plain.hints /\ plain'.status = c
          /\ plain'.header = header
      BY <1>1, <1>4, <2>1, <2>4, HeadSentTyped, HeadSentHints
    <3> QED BY <1>1, <1>4, <2>1, <2>2, <2>4, <3>1
            DEF Alike, AlikeBeforeStart, AlikeAfterStart, KeptCode
  <2> QED BY <2>3, <2>4
<1>5. CASE ~orderly'
  BY <1>5 DEF Alike, AlikeBeforeStart, AlikeAfterStart
<1> QED BY <1>1, <1>2, <1>3, <1>4, <1>5

\* What a handler writes, as it goes out and as it would without the middleware.
LEMMA WriteAlike ==
    ASSUME Inv, Alike, NEW chunk \in Chunks \cup {Empty}, Write(chunk)
    PROVE  Alike'
<1> DEFINE parts(open) ==
             IF chunk = Empty THEN <<>> ELSE IF open THEN <<Zipped(chunk)>> ELSE <<Raw(chunk)>>
           raw == IF chunk = Empty THEN <<>> ELSE <<Raw(chunk)>>
<1>1. /\ wire \in Response /\ plain \in Response /\ header \in Header
      /\ wire.body \in Seq(Parts) /\ plain.body \in Seq(Parts)
      /\ code \in FinalCodes \cup {0} /\ sent \in BOOLEAN /\ orderly \in BOOLEAN
      /\ pc = "running" /\ pc' = "running" /\ orderly' = orderly
      /\ gz \in {"none", "open", "closed"}
  BY DEF Inv, TypeOK, Write, Called, Response
<1>2. /\ raw \in Seq(Parts)
      /\ \A open \in BOOLEAN : parts(open) \in Seq(Parts)
  BY PartsTyped
<1>3. plain' = Written(plain, raw, header)
  BY DEF Write
<1>4. CASE ~orderly
  BY <1>1, <1>4 DEF Alike, AlikeBeforeStart, AlikeAfterStart
<1>5. CASE orderly /\ sent
  <2> DEFINE new == parts(gz = "open")
  <2>1. /\ wire' = Written(wire, new, header) /\ UNCHANGED <<header, code, sent, gz>>
        /\ new \in Seq(Parts)
    BY <1>2, <1>5 DEF Write
  <2>2. /\ wire.hints = plain.hints /\ wire.status = plain.status /\ wire.status # 0
        /\ wire.header.type = plain.header.type
        /\ plain.header.encoding = IF gz = "open" THEN "none" ELSE wire.header.encoding
        /\ SameData(wire.body, plain.body) /\ AllRaw(plain.body)
    BY <1>1, <1>5 DEF Alike, AlikeAfterStart, Inv, Started
  <2>3. \/ new = <<>> /\ raw = <<>>
        \/ \E x, y \in Parts : new = <<x>> /\ raw = <<y>> /\ x[2] = y[2] /\ y[1] = "raw"
    <3>1. CASE chunk = Empty
      BY <3>1
    <3>2. CASE chunk # Empty
      <4>1. /\ Raw(chunk) \in Parts /\ Zipped(chunk) \in Parts /\ Raw(chunk)[1] = "raw"
            /\ Raw(chunk)[2] = chunk /\ Zipped(chunk)[2] = chunk
        BY <3>2, PartsTyped DEF Raw, Zipped
      <4>2. raw = <<Raw(chunk)>> /\ (new = <<Zipped(chunk)>> \/ new = <<Raw(chunk)>>)
        BY <3>2
      <4> HIDE DEF new, raw
      <4> QED BY <4>1, <4>2
    <3> QED BY <3>1, <3>2
  <2> HIDE DEF new, raw
  <2>4. /\ wire'.status = wire.status /\ plain'.status = plain.status
        /\ wire'.header = wire.header /\ plain'.header = plain.header
        /\ wire'.hints = wire.hints /\ plain'.hints = plain.hints
    BY <1>1, <1>2, <1>3, <2>1, <2>2, WrittenAfterHead, WrittenHints
  <2>5. /\ wire'.body = IF wire.status \in Bodyless THEN wire.body ELSE wire.body \o new
        /\ plain'.body = IF wire.status \in Bodyless THEN plain.body ELSE plain.body \o raw
    BY <1>1, <1>2, <1>3, <2>1, <2>2, WrittenAfterHead
  <2>6. SameData(wire.body \o new, plain.body \o raw) /\ AllRaw(plain.body \o raw)
    <3>1. CASE new = <<>> /\ raw = <<>>
      <4>1. wire.body \o new = wire.body /\ plain.body \o raw = plain.body
        BY <1>1, <3>1
      <4> QED BY <2>2, <4>1
    <3>2. CASE \E x, y \in Parts : new = <<x>> /\ raw = <<y>> /\ x[2] = y[2] /\ y[1] = "raw"
      <4>1. PICK x, y \in Parts : new = <<x>> /\ raw = <<y>> /\ x[2] = y[2] /\ y[1] = "raw"
        BY <3>2
      <4>2. SameData(wire.body \o new, plain.body \o raw)
        BY <1>1, <2>2, <4>1, SameDataWritten
      <4>3. \A i \in DOMAIN raw : raw[i][1] = "raw"
        BY <4>1
      <4>4. AllRaw(plain.body \o raw)
        BY <1>1, <1>2, <2>2, <4>3, KindKept DEF AllRaw
      <4> QED BY <4>2, <4>4
    <3> QED BY <2>3, <3>1, <3>2
  <2>7. SameData(wire'.body, plain'.body) /\ AllRaw(plain'.body)
    BY <2>2, <2>5, <2>6
  <2> QED BY <1>1, <1>5, <2>1, <2>2, <2>4, <2>7
          DEF Alike, AlikeBeforeStart, AlikeAfterStart
<1>6. CASE orderly /\ ~sent /\ chunk = Empty
  <2>1. UNCHANGED <<header, code, sent, gz, wire>> /\ raw = <<>>
    BY <1>6 DEF Write
  <2>2. /\ wire.hints = plain.hints /\ plain.body = <<>>
        /\ plain.status = code \/ (code = 0 /\ plain.status = OK)
        /\ plain.status # 0 => plain.header = header
    BY <1>1, <1>6 DEF Alike, AlikeBeforeStart
  <2> HIDE DEF raw
  <2>3. plain.body \o raw = <<>>
    BY <2>1, <2>2
  <2>4. CASE plain.status = 0
    <3>1. plain'.status = OK /\ plain'.header = header /\ plain'.hints = plain.hints
          /\ plain'.body = <<>>
      BY <1>1, <1>2, <1>3, <2>3, <2>4, WrittenFirst
    <3> QED BY <1>1, <1>6, <2>1, <2>2, <2>4, <3>1
            DEF Alike, AlikeBeforeStart, AlikeAfterStart
  <2>5. CASE plain.status # 0
    <3>1. /\ plain'.status = plain.status /\ plain'.header = plain.header
          /\ plain'.hints = plain.hints /\ plain'.body = <<>>
      BY <1>1, <1>2, <1>3, <2>2, <2>3, <2>5, WrittenAfterHead, WrittenHints
    <3> QED BY <1>1, <1>6, <2>1, <2>2, <3>1
            DEF Alike, AlikeBeforeStart, AlikeAfterStart
  <2> QED BY <2>4, <2>5
<1>7. CASE orderly /\ ~sent /\ chunk # Empty
  <2> DEFINE new == parts(Compressible)
             headed == HeadSent(wire, StatusToSend, header')
  <2>1. Start /\ wire' = Written(headed, new, header')
    BY <1>7 DEF Write
  <2>2. /\ wire.hints = plain.hints /\ plain.body = <<>>
        /\ plain.status = code \/ (code = 0 /\ plain.status = OK)
        /\ plain.status # 0 => plain.header = header
        /\ wire.status = 0 /\ wire.body = <<>> /\ header.encoding # "gzip"
    BY <1>1, <1>7 DEF Alike, AlikeBeforeStart, Inv, Unstarted
  <2>3. /\ StatusToSend \in Codes /\ StatusToSend # Informational /\ StatusToSend # 0
    BY <1>1 DEF StatusToSend, Codes, FinalCodes, Bodyless, OK, NotFound, Informational
  <2>4. Compressible \in BOOLEAN /\ (Compressible => StatusToSend \notin Bodyless)
        /\ (Compressible => header.encoding = "none")
    BY DEF Compressible
  <2>5. /\ header' \in Header /\ header'.type = header.type
        /\ ~Compressible => header' = header
    BY <1>1, <2>1 DEF Start, GzipHeader, Header, Encodings
  <2>6. sent' = TRUE /\ gz' = IF Compressible THEN "open" ELSE "none"
    BY <2>1 DEF Start
  <2>7. /\ headed \in Response /\ headed.status = StatusToSend /\ headed.header = header'
        /\ headed.body = <<>> /\ headed.hints = wire.hints
    BY <1>1, <2>2, <2>3, <2>5, HeadSentTyped, HeadSentHints
  <2>8. /\ new = IF Compressible THEN <<Zipped(chunk)>> ELSE <<Raw(chunk)>>
        /\ raw = <<Raw(chunk)>> /\ new \in Seq(Parts)
    BY <1>2, <1>7, <2>4
  <2> HIDE DEF new, headed, raw
  <2>9. <<>> \o new = new /\ <<>> \o raw = raw
    BY <1>2, <2>8
  <2>10. /\ wire'.status = StatusToSend /\ wire'.header = header' /\ wire'.hints = wire.hints
         /\ wire'.body = IF StatusToSend \in Bodyless THEN <<>> ELSE new
    <3>1. headed.status # 0 /\ headed \in Response /\ header' \in Header /\ new \in Seq(Parts)
      BY <2>3, <2>5, <2>7, <2>8
    <3>2. /\ Written(headed, new, header').status = headed.status
          /\ Written(headed, new, header').header = headed.header
          /\ Written(headed, new, header').hints = headed.hints
          /\ Written(headed, new, header').body =
                IF headed.status \in Bodyless THEN headed.body ELSE headed.body \o new
      BY <3>1, WrittenAfterHead, WrittenHints
    <3> QED BY <2>1, <2>7, <2>9, <3>2
  <2>11. /\ plain'.status = StatusToSend /\ plain'.header = header
         /\ plain'.hints = plain.hints
         /\ plain'.body = IF StatusToSend \in Bodyless THEN <<>> ELSE raw
    <3>1. CASE plain.status = 0
      <4>1. code = 0 /\ StatusToSend = OK /\ OK \notin Bodyless
        BY <2>2, <3>1 DEF StatusToSend, OK, Bodyless
      <4>2. /\ plain'.status = OK /\ plain'.header = header /\ plain'.hints = plain.hints
            /\ plain'.body = plain.body \o raw
        BY <1>1, <1>2, <1>3, <3>1, WrittenFirst
      <4> QED BY <2>2, <2>9, <4>1, <4>2
    <3>2. CASE plain.status # 0
      <4>1. plain.status = StatusToSend
        BY <2>2, <3>2 DEF StatusToSend, OK
      <4>2. /\ plain'.status = plain.status /\ plain'.header = plain.header
            /\ plain'.hints = plain.hints
            /\ plain'.body =
                  IF plain.status \in Bodyless THEN plain.body ELSE plain.body \o raw
        BY <1>1, <1>2, <1>3, <3>2, WrittenAfterHead, WrittenHints
      <4> QED BY <2>2, <2>9, <3>2, <4>1, <4>2
    <3> QED BY <3>1, <3>2
  <2>12. SameData(wire'.body, plain'.body) /\ AllRaw(plain'.body)
    <3>1. SameData(<<>>, <<>>) /\ AllRaw(<<>>)
      BY DEF SameData, AllRaw
    <3>2. SameData(new, raw) /\ AllRaw(raw)
      BY <2>4, <2>8 DEF SameData, AllRaw, Raw, Zipped
    <3> QED BY <2>10, <2>11, <3>1, <3>2
  <2>13. plain'.header.encoding = IF gz' = "open" THEN "none" ELSE wire'.header.encoding
    BY <2>4, <2>5, <2>6, <2>10, <2>11
  <2> QED BY <1>1, <2>2, <2>5, <2>6, <2>10, <2>11, <2>12, <2>13
          DEF Alike, AlikeBeforeStart, AlikeAfterStart
<1> QED BY <1>1, <1>4, <1>5, <1>6, <1>7

\* The handler returns: both responses end, and the same is left of them.
LEMMA ReturnTransparent ==
    ASSUME Inv, Alike, Return
    PROVE  Transparent'
<1> SUFFICES ASSUME orderly PROVE Decoded(wire') = Decoded(plain')
  BY DEF Return, Transparent
<1>1. /\ wire \in Response /\ plain \in Response /\ header \in Header
      /\ wire.body \in Seq(Parts) /\ plain.body \in Seq(Parts)
      /\ code \in FinalCodes \cup {0} /\ sent \in BOOLEAN /\ pc = "running"
      /\ gz \in {"none", "open", "closed"}
      /\ OK \in Codes /\ OK # Informational
  BY DEF Inv, TypeOK, Return, Response, Codes, FinalCodes, OK, Informational
<1>2. wire' \in Response /\ plain' \in Response
  BY ReturnInv DEF Inv, TypeOK
<1>3. wire' = HeadSent(Finished(wire), OK, header) /\ plain' = HeadSent(plain, OK, header)
  BY DEF Return
<1>4. Finished(wire) \in Response
  BY <1>1, FinishedWellFormed DEF Inv
<1>5. CASE sent
  <2>1. /\ wire.hints = plain.hints /\ wire.status = plain.status /\ wire.status # 0
        /\ wire.header.type = plain.header.type
        /\ plain.header.encoding = IF gz = "open" THEN "none" ELSE wire.header.encoding
        /\ SameData(wire.body, plain.body) /\ AllRaw(plain.body)
    BY <1>1, <1>5 DEF Alike, AlikeAfterStart, Inv, Started
  <2>2. /\ gz # "closed"
        /\ gz = "open" <=> wire.header.encoding = "gzip"
        /\ gz = "open" => wire.status \notin Bodyless
        /\ gz # "open" => AllRaw(wire.body)
    BY <1>1, <1>5 DEF Inv, Started, AllRaw
  <2>3. plain' = plain
    BY <1>1, <1>3, <2>1, HeadSentTyped
  <2>4. CASE gz = "open"
    <3>1. Finished(wire) = Written(wire, <<End>>, header) /\ <<End>> \in Seq(Parts)
      BY <1>5, <2>4 DEF Finished, Parts
    <3>2. /\ Finished(wire).status = wire.status /\ Finished(wire).header = wire.header
          /\ Finished(wire).hints = wire.hints
          /\ Finished(wire).body = wire.body \o <<End>>
      <4>1. /\ Written(wire, <<End>>, header).status = wire.status
            /\ Written(wire, <<End>>, header).header = wire.header
            /\ Written(wire, <<End>>, header).hints = wire.hints
            /\ Written(wire, <<End>>, header).body =
                  IF wire.status \in Bodyless THEN wire.body ELSE wire.body \o <<End>>
        BY <1>1, <2>1, <3>1, WrittenAfterHead, WrittenHints
      <4> QED BY <2>2, <2>4, <3>1, <4>1
    <3>3. wire' = Finished(wire)
      BY <1>1, <1>3, <1>4, <2>1, <3>2, HeadSentTyped
    <3> QED BY <1>1, <1>2, <2>1, <2>2, <2>3, <2>4, <3>2, <3>3, DecodedSame
  <2>5. CASE gz # "open"
    <3>1. Finished(wire) = wire
      BY <1>5, <2>5 DEF Finished
    <3>2. wire' = wire
      BY <1>1, <1>3, <2>1, <3>1, HeadSentTyped
    <3> QED BY <1>1, <2>1, <2>2, <2>3, <2>5, <3>2, DecodedSame
  <2> QED BY <2>4, <2>5
<1>6. CASE ~sent
  <2>1. /\ wire.hints = plain.hints /\ plain.body = <<>>
        /\ plain.status = code \/ (code = 0 /\ plain.status = OK)
        /\ plain.status # 0 => plain.header = header
        /\ wire.status = 0 /\ wire.body = <<>> /\ header.encoding # "gzip" /\ gz = "none"
    BY <1>1, <1>6 DEF Alike, AlikeBeforeStart, Inv, Unstarted
  <2> DEFINE status == IF code = 0 THEN OK ELSE code
  <2>2. status \in Codes /\ status # Informational /\ status # 0
    BY <1>1 DEF Codes, FinalCodes, OK, NotFound, Bodyless, Informational
  <2>3. /\ wire'.status = status /\ wire'.header = header
        /\ wire'.hints = wire.hints /\ wire'.body = <<>>
    <3>1. CASE code = 0
      <4>1. Finished(wire) = wire
        BY <1>6, <2>1, <3>1 DEF Finished
      <4> QED BY <1>1, <1>3, <2>1, <3>1, <4>1, HeadSentTyped, HeadSentHints
    <3>2. CASE code # 0
      <4>1. Finished(wire) = HeadSent(wire, code, header)
        BY <1>6, <2>1, <3>2 DEF Finished
      <4>2. /\ Finished(wire).status = code /\ Finished(wire).header = header
            /\ Finished(wire).hints = wire.hints /\ Finished(wire).body = <<>>
        BY <1>1, <2>1, <2>2, <3>2, <4>1, HeadSentTyped, HeadSentHints
      <4>3. wire' = Finished(wire)
        BY <1>1, <1>3, <1>4, <3>2, <4>2, HeadSentTyped
      <4> QED BY <3>2, <4>2, <4>3
    <3> QED BY <3>1, <3>2
  <2>4. /\ plain'.status = status /\ plain'.header = header
        /\ plain'.hints = plain.hints /\ plain'.body = <<>>
    <3>1. CASE plain.status = 0
      BY <1>1, <1>3, <2>1, <3>1, HeadSentTyped, HeadSentHints DEF OK
    <3>2. CASE plain.status # 0
      <4>1. plain' = plain
        BY <1>1, <1>3, <3>2, HeadSentTyped
      <4> QED BY <2>1, <3>2, <4>1
    <3> QED BY <3>1, <3>2
  <2>5. AllRaw(<<>>) /\ SameData(<<>>, <<>>)
    BY DEF AllRaw, SameData
  <2> HIDE DEF status
  <2> QED BY <1>2, <2>1, <2>3, <2>4, <2>5, DecodedSame
<1> QED BY <1>1, <1>5, <1>6

Transparency == Inv /\ Alike /\ Transparent

LEMMA TransparencyStep == Transparency /\ [Next]_vars => Transparency'
<1> SUFFICES ASSUME Transparency, [Next]_vars PROVE Transparency'
  OBVIOUS
<1> USE DEF Transparency
<1>0. Inv'
  BY StepInv
<1>1. ASSUME NEW type \in Types, NEW encoding \in {"none", "br"}, NEW length \in BOOLEAN,
             SetHeader([type |-> type, encoding |-> encoding, length |-> length])
      PROVE  Alike' /\ Transparent'
  <2> DEFINE h == [type |-> type, encoding |-> encoding, length |-> length]
  <2>1. h \in Header /\ SetHeader(h)
    BY <1>1 DEF Header, Encodings
  <2> HIDE DEF h
  <2> QED BY <2>1, SetHeaderAlike DEF SetHeader, Called, Transparent
<1>2. ASSUME NEW c \in FinalCodes \cup {Informational}, WriteHeader(c)
      PROVE  Alike' /\ Transparent'
  BY <1>2, WriteHeaderAlike DEF Codes, WriteHeader, Called, Transparent
<1>3. ASSUME NEW chunk \in Chunks \cup {Empty}, Write(chunk)
      PROVE  Alike' /\ Transparent'
  BY <1>3, WriteAlike DEF Write, Called, Transparent
<1>4. CASE Return
  <2>1. Alike'
    BY <1>4 DEF Return, Alike, AlikeBeforeStart, AlikeAfterStart
  <2> QED BY <1>0, <1>4, <2>1, ReturnTransparent
<1>5. CASE Panic
  BY <1>0, <1>5 DEF Panic, Alike, AlikeBeforeStart, AlikeAfterStart, Transparent
<1>6. CASE UNCHANGED vars
  BY <1>0, <1>6 DEF vars, Alike, AlikeBeforeStart, AlikeAfterStart, Transparent
<1> QED BY <1>0, <1>1, <1>2, <1>3, <1>4, <1>5, <1>6 DEF Next

\* A client that decodes the response gets the status, content type and data it
\* would get without the middleware, for every handler that leaves the head of
\* the response alone once it would be out (compress_middleware.go:90-138).
THEOREM MiddlewareIsTransparent == Spec => []Transparent
<1>1. Init => Transparency
  <2> SUFFICES ASSUME Init PROVE Transparency
    OBVIOUS
  <2>1. Inv /\ Transparent
    BY InitInv DEF Init, Transparent
  <2>2. Alike
    BY DEF Init, Alike, AlikeBeforeStart, AlikeAfterStart
  <2> QED BY <2>1, <2>2 DEF Transparency
<1>2. Transparency => Transparent
  BY DEF Transparency
<1> QED BY <1>1, <1>2, TransparencyStep, PTL DEF Spec
=============================================================================
