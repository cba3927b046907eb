-------------------------- MODULE OrderSubmission --------------------------
(***************************************************************************)
(* Uploads of order numbers by concurrent requests: Service.Submit over    *)
(* OrderRepository.  Each of its three statements is a transaction of its  *)
(* own, and a request may fail between any two of them.                    *)
(*                                                                         *)
(* The orders table is keyed by a hash of the number, so the key is a      *)
(* parameter here: nothing excludes that two numbers share it.             *)
(***************************************************************************)
EXTENDS Naturals, FiniteSets, Sequences

CONSTANTS
    Users,          \* the registered users
    Numbers,        \* valid order numbers
    Hashes,         \* the values of number_hash
    Hash,           \* the hash of each number
    Requests,       \* the requests the HTTP server handles at once
    None,           \* no row, no request
    NotifyBuffer    \* the capacity of the worker's notify channel

ASSUME ConstantsAssumption ==
    /\ Hash \in [Numbers -> Hashes]
    /\ NotifyBuffer \in Nat
    /\ None \notin Users
    /\ None \notin [user : Users, number : Numbers]

VARIABLES
    orders,     \* the orders table by number_hash
    notify,     \* the numbers in the worker's notify channel
    pc,         \* where each request is
    req,        \* the upload each request asks for
    resp,       \* the answer each request got
    accepted    \* history: whom an upload of each number was answered with 202, in order

vars == <<orders, notify, pc, req, resp, accepted>>
-----------------------------------------------------------------------------
\* A row and an upload have the same fields.
Order == [user : Users, number : Numbers]

PCs == {"idle", "insert", "read conflict", "get", "notify"}
Responses == {"none", "accepted", "already uploaded", "conflict", "error"}

Stored(n) == orders[Hash[n]] # None /\ orders[Hash[n]].number = n

TypeOK ==
    /\ orders \in [Hashes -> Order \cup {None}]
    /\ notify \subseteq Numbers
    /\ pc \in [Requests -> PCs]
    /\ req \in [Requests -> Order \cup {None}]
    /\ resp \in [Requests -> Responses]
    /\ accepted \in [Numbers -> Seq(Users)]
    /\ Cardinality(notify) <= NotifyBuffer

Goto(r, label) ==
    /\ pc' = [pc EXCEPT ![r] = label]
    /\ UNCHANGED <<req, resp>>

Answer(r, response) ==
    /\ pc' = [pc EXCEPT ![r] = "idle"]
    /\ resp' = [resp EXCEPT ![r] = response]
    /\ UNCHANGED req
-----------------------------------------------------------------------------
(***************************************************************************)
(* Faults: a plausible mistake in the code each.  They are no part of the  *)
(* specification; they show what the properties below detect.              *)
(***************************************************************************)
\* ON CONFLICT DO UPDATE: an insert that meets the user's own row counts as the first.
AddRepeating(r) ==
    LET h == Hash[req[r].number] IN
    /\ pc[r] = "insert"
    /\ IF orders[h] \in {None, req[r]}
       THEN /\ orders' = [orders EXCEPT ![h] = req[r]]
            /\ Goto(r, "notify")
       ELSE /\ Goto(r, "read conflict")
            /\ UNCHANGED orders
    /\ UNCHANGED <<notify, accepted>>

\* Any row of the same hash counts as an upload of the same number.
ReadConflictTrusting(r) ==
    /\ pc[r] = "read conflict"
    /\ Answer(r, IF orders[Hash[req[r].number]].user = req[r].user
                 THEN "already uploaded" ELSE "conflict")
    /\ UNCHANGED <<orders, notify, accepted>>

\* The worker is notified first.
ReceiveNotifying(r, upload) ==
    /\ pc[r] = "idle"
    /\ pc' = [pc EXCEPT ![r] = "insert"]
    /\ req' = [req EXCEPT ![r] = upload]
    /\ resp' = [resp EXCEPT ![r] = "none"]
    /\ notify' = IF Cardinality(notify) < NotifyBuffer
                 THEN notify \cup {upload.number} ELSE notify
    /\ UNCHANGED <<orders, accepted>>
-----------------------------------------------------------------------------
Init ==
    /\ orders = [h \in Hashes |-> None]
    /\ notify = {}
    /\ pc = [r \in Requests |-> "idle"]
    /\ req = [r \in Requests |-> None]
    /\ resp = [r \in Requests |-> "none"]
    /\ accepted = [n \in Numbers |-> << >>]

\* The handler and the service accept the number for processing.
Receive(r, upload) ==
    /\ pc[r] = "idle"
    /\ pc' = [pc EXCEPT ![r] = "insert"]
    /\ req' = [req EXCEPT ![r] = upload]
    /\ resp' = [resp EXCEPT ![r] = "none"]
    /\ UNCHANGED <<orders, notify, accepted>>

\* INSERT ... ON CONFLICT (number_hash) DO NOTHING.  The answer of the database
\* may get lost after the row was stored.
Add(r) ==
    LET h == Hash[req[r].number] IN
    /\ pc[r] = "insert"
    /\ \/ /\ orders[h] = None
          /\ orders' = [orders EXCEPT ![h] = req[r]]
          /\ Goto(r, "notify") \/ Answer(r, "error")
       \/ /\ orders[h] # None
          /\ Goto(r, "read conflict")
          /\ UNCHANGED orders
    /\ UNCHANGED <<notify, accepted>>

\* A row of another number with the same hash is an internal error.
ReadConflict(r) ==
    /\ pc[r] = "read conflict"
    /\ IF Stored(req[r].number) THEN Goto(r, "get") ELSE Answer(r, "error")
    /\ UNCHANGED <<orders, notify, accepted>>

\* GetByNumber finds the owner.
GetExisting(r) ==
    /\ pc[r] = "get"
    /\ Answer(r, IF ~Stored(req[r].number) THEN "error"
                 ELSE IF orders[Hash[req[r].number]].user = req[r].user
                 THEN "already uploaded" ELSE "conflict")
    /\ UNCHANGED <<orders, notify, accepted>>

\* Notify drops the number when the channel is full; the upload is accepted.
Notify(r) ==
    /\ pc[r] = "notify"
    /\ notify' = IF Cardinality(notify) < NotifyBuffer
                 THEN notify \cup {req[r].number} ELSE notify
    /\ accepted' = [accepted EXCEPT ![req[r].number] = Append(@, req[r].user)]
    /\ Answer(r, "accepted")
    /\ UNCHANGED orders

\* The worker takes a number from the channel.
TakeNotification(n) ==
    /\ n \in notify
    /\ notify' = notify \ {n}
    /\ UNCHANGED <<orders, pc, req, resp, accepted>>

\* A statement fails, or the process stops.
Fail(r) ==
    /\ pc[r] # "idle"
    /\ Answer(r, "error")
    /\ UNCHANGED <<orders, notify, accepted>>

Next ==
    \/ \E r \in Requests :
          \/ \E upload \in Order : Receive(r, upload)
          \/ Add(r)
          \/ ReadConflict(r)
          \/ GetExisting(r)
          \/ Notify(r)
          \/ Fail(r)
    \/ \E n \in Numbers : TakeNotification(n)

Spec == Init /\ [][Next]_vars
-----------------------------------------------------------------------------
\* The answers 202, 200 and 409 agree with the table for ever after, whoever
\* uploads the same number at the same time, again after an error, or another
\* number with the same hash (service.go:62-78, order_repository.go:53-65).
AnswersAreTrue ==
    \A r \in Requests :
        LET row == orders[Hash[req[r].number]] IN
        /\ resp[r] \in {"accepted", "already uploaded"} => row = req[r]
        /\ resp[r] = "conflict" =>
              /\ Stored(req[r].number)
              /\ row.user # req[r].user

\* The worker hears only of numbers that it can claim: a notification that came
\* before its row would be dropped (service.go:75).
NotifiedOrdersAreStored == \A n \in notify : Stored(n)

\* The uploads implement the ownership of numbers: one owner for ever, and one 202 at
\* most, to the owner: a repeated upload gets 200, also when the first one's answer was
\* lost on the way (order_repository.go:40-52, service.go:62-78).
Promise == INSTANCE Ownership WITH
    Nobody <- None,
    owner <- [n \in Numbers |-> IF Stored(n) THEN orders[Hash[n]].user ELSE None]

OwnershipSpec == Promise!Spec
=============================================================================
