------------------------------ MODULE MCInputs ------------------------------
(***************************************************************************)
(* The inputs that TLC tries.  Order numbers have up to three digits; what *)
(* is sent may be one longer.                                              *)
(***************************************************************************)
EXTENDS Inputs, SequencesExt

CONSTANTS Alice, Bob

\* All JSON numbers of the digits 0 and 5 with up to three integer digits, three
\* decimal places and some exponents, below and beyond the limit of two digits.
Digits == {0, 5}
IntegerParts == {<<0>>} \cup {s \in BoundedSeq(Digits, 3) : s # <<>> /\ s[1] # 0}
Exponents == {<<0>>, <<1>>, <<2>>, <<3>>, <<0, 0, 2>>, <<1, 2>>, <<1, 0, 0>>}

MCTexts ==
    [negative : {FALSE}, integer : IntegerParts, fraction : BoundedSeq(Digits, 3),
     sign : {-1, 1}, exponent : Exponents]
    \cup [negative : BOOLEAN, integer : IntegerParts, fraction : BoundedSeq(Digits, 3),
          sign : {1}, exponent : {<<>>}]
-----------------------------------------------------------------------------
\* Bodies of up to three pieces more than the value, around a limit of two; eight-bit
\* integers with seconds of four nanoseconds and headers around every limit.
MCNumbers == {"mine", Other}
MCStatuses == {"REGISTERED", "PROCESSED"}

Answers ==
    {None} \cup [order : MCNumbers, status : MCStatuses \cup {Other},
                 accrual : {-1, 0, 2, 3, None}]
MCBodies == [object : Answers, length : 1..3, trailing : BoundedSeq({"space", "data"}, 3)]

MCRetries ==
    [kind : {"absent", "garbage"}]
        \cup [kind : {"seconds"}, seconds : {-1, 0, 1, 5, 15, 16, 17, 31, 32, 33, 64, 127, 128}]
        \cup [kind : {"date"}, at : {0, 3, 9, 60, 200}]
-----------------------------------------------------------------------------
\* Every body of up to five pieces, and bodies of two members, whole, cut off or with
\* something behind them; up to two codings, and up to three items of Accept-Encoding.
Items == [coding : {"gzip", "*"}, q : {-1, 0, 5}, found : {TRUE}, bad : {FALSE}]
            \cup [coding : {"gzip", "*", "br"}, q : {0}, found : {FALSE}, bad : {FALSE}]
            \cup [coding : {"gzip", "*"}, q : {5}, found : {TRUE}, bad : {TRUE}]

Chars == {<<"data", "a">>, <<"data", "b">>}
Opening == <<"gzip", "head">>
Closing == <<"gzip", "end">>
Marks == {Opening, Closing, <<"junk", "bytes">>}

TwoMembers ==
    LET whole == <<Opening, <<"data", "a">>, Closing, Opening, <<"data", "b">>, Closing>>
    IN  {whole} \cup {SubSeq(whole, 1, 5)} \cup {Append(whole, p) : p \in Chars \cup Marks}

MCEncodedRequests ==
    [method : {"POST"}, sent : BoundedSeq(Chars \cup Marks, 5) \cup TwoMembers,
     codings : {<<"gzip">>}, accept : {<<>>}]
    \cup [method : {"POST"}, sent : BoundedSeq(Chars, 2) \cup {<<Opening, Closing>>},
          codings : BoundedSeq({"", "identity", "gzip", "br"}, 2), accept : {<<>>}]
    \cup [method : {"HEAD", "POST"}, sent : {<<>>}, codings : {<<>>, <<"br">>},
          accept : BoundedSeq(Items, 3)]
-----------------------------------------------------------------------------
\* One setting varies in all its sources while the others are in order, with a
\* file and without; every file and command line is tried too.
Settings == {"run", "database", "accrual"}
Nowhere == [s \in Settings |-> Absent]
Everywhere == [s \in Settings |-> "good"]

OneVaries(s) ==
    [line : {"ok"}, path : BOOLEAN, file : {"ok", "missing"},
     flags : {[Nowhere EXCEPT ![s] = v] : v \in {Absent, "", "good", "bad"}},
     env : {[Everywhere EXCEPT ![s] = v] : v \in {Absent, "", "better", "bad"}},
     yaml : {[Everywhere EXCEPT ![s] = v] : v \in {Absent, "", "better", "bad"}}]

FilesAndLines ==
    [line : {"ok", "unknown flag", "help", "positional"}, path : BOOLEAN,
     file : {"missing", "unreadable", "empty", "malformed", "unknown key", "two documents", "ok"},
     env : {Nowhere, Everywhere}, flags : {Nowhere, Everywhere}, yaml : {Nowhere, Everywhere}]

MCStarts == FilesAndLines \cup UNION {OneVaries(s) : s \in Settings}
-----------------------------------------------------------------------------
\* Two users' tokens, one that is expired and one whose session cannot be read; up
\* to two Authorization headers; bodies around a limit of two.
MCOwner == [alice |-> Alice, bob |-> Bob, expired |-> None, failing |-> Failing]
Whole == [document |-> "fields", length |-> 1, trailing |-> <<>>, cut |-> FALSE]

MCApiRequests ==
    [path : {"register", "login", "orders", "balance", "withdraw", "withdrawals", "health",
             "unknown"},
     method : {"GET", "POST"}, known : BOOLEAN,
     authorization : BoundedSeq(DOMAIN MCOwner \cup {None}, 2), cookie : {None, "bob"},
     body : {Whole}]
    \cup
    [path : {"register", "login", "orders", "withdraw"}, method : {"POST"}, known : {TRUE},
     authorization : {<<>>}, cookie : {"alice"},
     body : [document : {"malformed", "fields", "no fields"}, length : 1..3,
             trailing : BoundedSeq({"space", "data"}, 2), cut : BOOLEAN]
            \cup [document : {"empty"}, length : {0}, trailing : BoundedSeq({"space"}, 2),
                  cut : BOOLEAN]]

\* Amounts of money and moments.
MCCredits == {5000, 5555}
MCTimes == {1, 4, 9, 14}
=============================================================================
