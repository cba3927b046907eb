--------------------------- MODULE OrderLifecycle ---------------------------
(***************************************************************************)
(* What polling the accrual service promises about an order, without       *)
(* workers, leases, channels or time: an uploaded order is NEW; it may     *)
(* become PROCESSING once the service knows it, and takes the service's    *)
(* final verdict exactly once.  AccrualWorker.tla implements this          *)
(* specification.                                                          *)
(***************************************************************************)
CONSTANTS
    Orders,     \* the order numbers
    Absent      \* the status of a number that was not uploaded

VARIABLES
    status,     \* what the orders table says of each number
    verdict     \* what the accrual service says of each number

vars == <<status, verdict>>

Final == {"INVALID", "PROCESSED"}

Init ==
    /\ status = [o \in Orders |-> Absent]
    /\ verdict = [o \in Orders |-> "unregistered"]

Upload(o) ==
    /\ status[o] = Absent
    /\ status' = [status EXCEPT ![o] = "NEW"]
    /\ UNCHANGED verdict

Register(o) ==
    /\ verdict[o] = "unregistered"
    /\ verdict' = [verdict EXCEPT ![o] = "PROCESSING"]
    /\ UNCHANGED status

Conclude(o, final) ==
    /\ verdict[o] = "PROCESSING"
    /\ verdict' = [verdict EXCEPT ![o] = final]
    /\ UNCHANGED status

\* The verdict may have moved on since the service was asked.
StartProcessing(o) ==
    /\ status[o] = "NEW"
    /\ verdict[o] # "unregistered"
    /\ status' = [status EXCEPT ![o] = "PROCESSING"]
    /\ UNCHANGED verdict

Finish(o) ==
    /\ status[o] \in {"NEW", "PROCESSING"}
    /\ verdict[o] \in Final
    /\ status' = [status EXCEPT ![o] = verdict[o]]
    /\ UNCHANGED verdict

Next ==
    \E o \in Orders :
        \/ Upload(o)
        \/ Register(o)
        \/ \E final \in Final : Conclude(o, final)
        \/ StartProcessing(o)
        \/ Finish(o)

Spec == Init /\ [][Next]_vars
=============================================================================
