------------------------------- MODULE Inputs -------------------------------
(***************************************************************************)
(* An instance of each module that follows one input on its way: a sum, an *)
(* order number, a response of the accrual service, a compressed request,  *)
(* a configuration, a request to the API.  They share nothing, so in a     *)
(* behaviour of this module one of them runs; the variables of the others  *)
(* are None, and a variable that several modules have is that one's.       *)
(***************************************************************************)
EXTENDS Integers, Sequences

CONSTANTS
    None, Other,
    Texts, Credits, MaxDigits, Invalid,                 \* Sums
    MaxNumberLength, MaxLength,                         \* OrderNumbers
    Numbers, Statuses, MaxAccrual, MaxAnswer, MaxInt, Second, DefaultRetry, MaxRetry,
    Bodies, Retries, Times,                             \* AccrualClient
    EncodedRequests, MaxReads,                          \* GzipRequests
    Starts, Absent,                                     \* Configuration
    ApiRequests, Owner, Failing, MaxBody                \* HttpApi

VARIABLES
    unit,                                               \* what runs
    text, stage, amount, credit, numeric, shown,        \* a sum
    value, mistake, i, checksum, double, result,        \* an order number
    now, response, received, until,                     \* a response
    zips, body, wrapped, gz, err, given, last, reads,   \* a compressed request
    start, cfg,                                         \* a configuration
    user, call, status,                                 \* a request
    number, pc, request, outcome                        \* what several of them have

sumVars == <<text, stage, amount, credit, numeric, shown>>
numberVars == <<value, mistake, i, checksum, double, result>>
responseVars == <<now, response, received, until>>
bodyVars == <<zips, body, wrapped, gz, err, given, last, reads>>
startVars == <<start, cfg>>
requestVars == <<user, call, status>>

vars == <<unit, sumVars, numberVars, responseVars, bodyVars, startVars, requestVars,
          number, pc, request, outcome>>
-----------------------------------------------------------------------------
S == INSTANCE Sums
N == INSTANCE OrderNumbers
C == INSTANCE AccrualClient WITH MaxBody <- MaxAnswer
G == INSTANCE GzipRequests WITH Requests <- EncodedRequests
F == INSTANCE Configuration
A == INSTANCE HttpApi WITH Requests <- ApiRequests

ASSUME InputsAssumption ==
    /\ S!ConstantsAssumption
    /\ N!ConstantsAssumption
    /\ C!ConstantsAssumption /\ C!InputsAssumption
    /\ G!RequestsAssumption
    /\ F!StartsAssumption
    /\ A!ConstantsAssumption
-----------------------------------------------------------------------------
NoSum == /\ text = None /\ stage = None /\ amount = None
         /\ credit = None /\ numeric = None /\ shown = None
NoNumber == /\ value = None /\ mistake = None /\ i = None
            /\ checksum = None /\ double = None /\ result = None
NoResponse == now = None /\ response = None /\ received = None /\ until = None
NoBody == /\ zips = None /\ body = None /\ wrapped = None /\ gz = None
          /\ err = None /\ given = None /\ last = None /\ reads = None
NoStart == start = None /\ cfg = None
NoRequest == user = None /\ call = None /\ status = None

Init ==
    \/ /\ unit = "sum" /\ S!Init
       /\ NoNumber /\ NoResponse /\ NoBody /\ NoStart /\ NoRequest
       /\ number = None /\ pc = None /\ request = None /\ outcome = None
    \/ /\ unit = "number" /\ N!Init
       /\ NoSum /\ NoResponse /\ NoBody /\ NoStart /\ NoRequest
       /\ pc = None /\ request = None /\ outcome = None
    \/ /\ unit = "response" /\ C!Init
       /\ NoSum /\ NoNumber /\ NoBody /\ NoStart /\ NoRequest
       /\ request = None
    \/ /\ unit = "body" /\ G!Init
       /\ NoSum /\ NoNumber /\ NoResponse /\ NoStart /\ NoRequest
       /\ number = None /\ outcome = None
    \/ /\ unit = "configuration" /\ F!Init
       /\ NoSum /\ NoNumber /\ NoResponse /\ NoBody /\ NoRequest
       /\ number = None /\ request = None /\ outcome = None
    \/ /\ unit = "request" /\ A!Init
       /\ NoSum /\ NoNumber /\ NoResponse /\ NoBody /\ NoStart
       /\ number = None

Next ==
    /\ UNCHANGED unit
    /\ \/ /\ unit = "sum" /\ S!Next
          /\ UNCHANGED <<numberVars, responseVars, bodyVars, startVars, requestVars,
                         number, pc, request, outcome>>
       \/ /\ unit = "number" /\ N!Next
          /\ UNCHANGED <<sumVars, responseVars, bodyVars, startVars, requestVars,
                         pc, request, outcome>>
       \/ /\ unit = "response" /\ C!Next
          /\ UNCHANGED <<sumVars, numberVars, bodyVars, startVars, requestVars, request>>
       \/ /\ unit = "body" /\ G!Next
          /\ UNCHANGED <<sumVars, numberVars, responseVars, startVars, requestVars,
                         number, outcome>>
       \/ /\ unit = "configuration" /\ F!Next
          /\ UNCHANGED <<sumVars, numberVars, responseVars, bodyVars, requestVars,
                         number, request, outcome>>
       \/ /\ unit = "request" /\ A!Next
          /\ UNCHANGED <<sumVars, numberVars, responseVars, bodyVars, startVars, number>>

Spec == Init /\ [][Next]_vars
-----------------------------------------------------------------------------
\* A sum is parsed as it was written, and refused only if it does not fit.
ParsedExactly == unit = "sum" => S!ParsedExactly

\* A sum is shown as it was written, and never lost on the way.
ShownExactly == unit = "sum" => S!ShownExactly

\* No slip in copying an order number makes another one.
SlipsDetected == unit = "number" => N!SlipsDetected

\* Only a sound response about the order asked for decides it.
OnlySoundVerdicts == unit = "response" => C!OnlySoundVerdicts

\* The silence after a 429 is as long as asked, or the longest there is for its header:
\* only a number of seconds beyond an int64 is cut down to the default pause.
SilentAsAsked == unit = "response" => C!SilentAsAsked

\* A handler reads what the client means and nothing else.
ContentAsMeant == unit = "body" => G!ContentAsMeant

\* The response is compressed if and only if the client takes it, and does not refuse
\* it as well.
NegotiatedAsMeant == unit = "body" => G!NegotiatedAsMeant

\* The program goes on exactly with a configuration in order, by the most
\* important source of each setting.
ConnectedAsConfigured == unit = "configuration" => F!ConnectedAsConfigured

\* A refused request has no effect, and the status tells.
RefusedWithoutEffect == unit = "request" => A!RefusedWithoutEffect
=============================================================================
