--------------------------- MODULE AccrualPolling ---------------------------
(***************************************************************************)
(* The progress of polling: the same goroutines and the same table as in   *)
(* AccrualWorker, for ever.  Times are relative to the present: an order   *)
(* has so long to wait, a pause so long to run.  Of an order that is       *)
(* overdue only its place in ORDER BY next_check_at matters, so times in   *)
(* the past are ranks.  The counters of the backoff are left out: a retry  *)
(* comes after any of its delays.  Requests may fail and be refused again  *)
(* and again; the faults of the database and of the process are bounded.   *)
(***************************************************************************)
EXTENDS Integers, Sequences, FiniteSets, Functions, SequencesExt

CONSTANTS
    Orders,         \* the order numbers
    Instances,      \* the running copies of the service
    Workers,        \* the worker goroutines of an instance
    None,           \* no row, nothing received
    BatchSize,      \* the capacity of the jobs channel
    NotifyBuffer,   \* the capacity of the notify channel
    Lease,          \* for how long a claim hides an order
    Retries,        \* the Retry-After times of the accrual service
    Delays,         \* the delays of both backoffs
    Verdicts,       \* bound: how the accrual service concludes
    MaxFaults       \* bound: restarts, lost claims and failed saves

ASSUME ConstantsAssumption ==
    /\ BatchSize \in Nat \ {0}
    /\ NotifyBuffer \in Nat
    /\ Lease \in Nat \ {0}
    /\ Retries \subseteq Nat
    /\ Delays \subseteq Nat \ {0}
    /\ Verdicts \subseteq {"INVALID", "PROCESSED"}
    /\ MaxFaults \in Nat

VARIABLES
    orders,         \* the orders table
    service,        \* what the accrual service knows of each order
    jobs,           \* the jobs channel of each instance
    notify,         \* the notify channel of each instance
    pause,          \* for how long each instance sends no requests
    worker,         \* the worker goroutines of each instance
    faults          \* how many faults there have been

vars == <<orders, service, jobs, notify, pause, worker, faults>>
-----------------------------------------------------------------------------
Unfinished == {"NEW", "PROCESSING"}
Final == {"INVALID", "PROCESSED"}

Idle == [pc |-> "idle", job |-> None, update |-> None]

IsUnfinished(o) == orders[o] # None /\ orders[o].status \in Unfinished
Paused(i) == pause[i] > 0

\* How many orders there is room for in the jobs channel.
Free(i) == BatchSize - Len(jobs[i])

\* The row of o is locked while a worker's UPDATE of it is being executed.
MayBeLocked(o) ==
    \E i \in Instances, w \in Workers :
        worker[i][w].pc = "save" /\ worker[i][w].job.order = o
-----------------------------------------------------------------------------
(***************************************************************************)
(* Faults: a plausible mistake in the code each.  They are no part of the  *)
(* specification; they show what the properties below detect.              *)
(***************************************************************************)
\* The query that claims asks for NEW orders only.
DueNew(o) == orders[o] # None /\ orders[o].status = "NEW" /\ orders[o].next <= 0

\* An order that can be claimed.
Due(o) == IsUnfinished(o) /\ orders[o].next <= 0

\* The query that claims has LIMIT, and no ORDER BY.
BatchUnordered(i, q) ==
    /\ q # <<>> /\ IsInjective(q)
    /\ \A k \in DOMAIN q : Due(q[k])
    /\ Len(q) = Free(i) \/ \A o \in Orders : Due(o) => MayBeLocked(o) \/ o \in Range(q)
-----------------------------------------------------------------------------
\* What ORDER BY next_check_at LIMIT free FOR UPDATE SKIP LOCKED may return.
Batch(i, q) ==
    /\ q # <<>> /\ IsInjective(q)
    /\ \A k \in DOMAIN q : Due(q[k])
    /\ \A k \in 2..Len(q) : orders[q[k-1]].next <= orders[q[k]].next
    /\ \A o \in Orders \ Range(q) : Due(o) =>
          \/ MayBeLocked(o)
          \/ Len(q) = Free(i) /\ orders[Last(q)].next <= orders[o].next

\* The row of a claimed order is due again when the lease ends.
Leased(o) == [orders[o] EXCEPT !.next = Lease]

\* The WHERE clause of Save.
Saveable(o, status) ==
    IsUnfinished(o) /\ ~(orders[o].status = "PROCESSING" /\ status = "NEW")

\* Where and when decide puts the order, by the service's answer.
Decisions(status) ==
    IF status \in Final THEN [status : {status}, next : {0}]
    ELSE [status : {"PROCESSING"}, next : Delays]

\* longRetry.
LongRetries(job) == [status : {job.status}, next : Delays]

\* extendPause: the pause never gets shorter.
Extended(i, retryAfter) == IF retryAfter > pause[i] THEN retryAfter ELSE pause[i]
-----------------------------------------------------------------------------
Init ==
    /\ orders = [o \in Orders |-> None]
    /\ service = [o \in Orders |-> "PROCESSING"]
    /\ jobs = [i \in Instances |-> <<>>]
    /\ notify = [i \in Instances |-> {}]
    /\ pause = [i \in Instances |-> 0]
    /\ worker = [i \in Instances |-> [w \in Workers |-> Idle]]
    /\ faults = 0

\* Submit adds the order and notifies the worker of it, if the channel has room.
Upload(i, o) ==
    /\ orders[o] = None
    /\ orders' = [orders EXCEPT ![o] = [status |-> "NEW", next |-> 0]]
    /\ IF Cardinality(notify[i]) < NotifyBuffer
       THEN notify' = [notify EXCEPT ![i] = @ \cup {o}]
       ELSE UNCHANGED notify
    /\ UNCHANGED <<service, jobs, pause, worker, faults>>

ServiceConcludes(o) ==
    /\ service[o] = "PROCESSING"
    /\ \E verdict \in Verdicts : service' = [service EXCEPT ![o] = verdict]
    /\ UNCHANGED <<orders, jobs, notify, pause, worker, faults>>

\* The rows of q are leased, and q goes to the workers -- or the answer of the
\* database is lost.
ClaimBatch(i, q) ==
    /\ orders' = [o \in Orders |-> IF o \in Range(q) THEN Leased(o) ELSE orders[o]]
    /\ \/ /\ jobs' = [jobs EXCEPT ![i] = @ \o [k \in DOMAIN q |->
                        [order |-> q[k], status |-> orders[q[k]].status]]]
          /\ UNCHANGED faults
       \/ faults < MaxFaults /\ faults' = faults + 1 /\ UNCHANGED jobs
    /\ UNCHANGED <<service, pause, worker>>

\* The ticker, or the start of the worker.
ClaimDue(i) ==
    /\ ~Paused(i)
    /\ Free(i) > 0
    /\ \E q \in SeqOf(Orders, Free(i)) : Batch(i, q) /\ ClaimBatch(i, q)
    /\ UNCHANGED notify

\* A notification is received: claim, which drops it when the jobs channel is
\* full or the order is not due.
ClaimNotified(i, o) ==
    /\ o \in notify[i]
    /\ ~Paused(i)
    /\ notify' = [notify EXCEPT ![i] = @ \ {o}]
    /\ IF Free(i) > 0 /\ Due(o)
       THEN ClaimBatch(i, <<o>>)
       ELSE UNCHANGED <<orders, service, jobs, pause, worker, faults>>

WorkerGoes(i, w, pc, job, update) ==
    worker' = [worker EXCEPT ![i][w] = [pc |-> pc, job |-> job, update |-> update]]

Receive(i, w) ==
    /\ worker[i][w].pc = "idle"
    /\ jobs[i] # <<>>
    /\ WorkerGoes(i, w, "gate", Head(jobs[i]), None)
    /\ jobs' = [jobs EXCEPT ![i] = Tail(@)]
    /\ UNCHANGED <<orders, service, notify, pause, faults>>

\* process puts the order off while requests are paused.
PassGate(i, w) ==
    LET job == worker[i][w].job IN
    /\ worker[i][w].pc = "gate"
    /\ IF Paused(i)
       THEN WorkerGoes(i, w, "save", job, [status |-> job.status, next |-> pause[i]])
       ELSE WorkerGoes(i, w, "fetch", job, None)
    /\ UNCHANGED <<orders, service, jobs, notify, pause, faults>>

\* The service says what it knows of the order, and decide what to save.
Answered(i, w) ==
    LET job == worker[i][w].job IN
    /\ worker[i][w].pc = "fetch"
    /\ \E update \in Decisions(service[job.order]) : WorkerGoes(i, w, "save", job, update)
    /\ UNCHANGED <<orders, service, jobs, notify, pause, faults>>

\* The request fails or times out, or the service does not know the order yet.
Unanswered(i, w) ==
    LET job == worker[i][w].job IN
    /\ worker[i][w].pc = "fetch"
    /\ \E update \in LongRetries(job) : WorkerGoes(i, w, "save", job, update)
    /\ UNCHANGED <<orders, service, jobs, notify, pause, faults>>

\* The service refuses with 429.
Refused(i, w) ==
    LET job == worker[i][w].job IN
    /\ worker[i][w].pc = "fetch"
    /\ \E r \in Retries :
          /\ pause' = [pause EXCEPT ![i] = Extended(i, r)]
          /\ WorkerGoes(i, w, "save", job, [status |-> job.status, next |-> Extended(i, r)])
    /\ UNCHANGED <<orders, service, jobs, notify, faults>>

\* The row is updated if the WHERE clause admits it, or the statement fails.
Save(i, w) ==
    LET o == worker[i][w].job.order
        update == worker[i][w].update
    IN
    /\ worker[i][w].pc = "save"
    /\ \/ /\ orders' = [orders EXCEPT ![o] = IF Saveable(o, update.status) THEN update ELSE @]
          /\ UNCHANGED faults
       \/ faults < MaxFaults /\ faults' = faults + 1 /\ UNCHANGED orders
    /\ WorkerGoes(i, w, "idle", None, None)
    /\ UNCHANGED <<service, jobs, notify, pause>>

\* An instance stops and starts again.
Restart(i) ==
    /\ faults < MaxFaults
    /\ faults' = faults + 1
    /\ jobs' = [jobs EXCEPT ![i] = <<>>]
    /\ notify' = [notify EXCEPT ![i] = {}]
    /\ pause' = [pause EXCEPT ![i] = 0]
    /\ worker' = [worker EXCEPT ![i] = [w \in Workers |-> Idle]]
    /\ UNCHANGED <<orders, service>>

\* The times that matter: those of unfinished orders and of coming updates.
Times ==
    {orders[o].next : o \in {p \in Orders : IsUnfinished(p)}}
        \cup UNION {{worker[i][w].update.next : w \in {v \in Workers : worker[i][v].pc = "save"}}
                    : i \in Instances}

\* What becomes of a time when time passes; times in the past keep their order.
Sooner(t) == IF t > 0 THEN t - 1 ELSE -1 - Cardinality({s \in Times : t < s /\ s <= 0})

Tick ==
    /\ orders' = [o \in Orders |-> IF IsUnfinished(o)
                                   THEN [orders[o] EXCEPT !.next = Sooner(@)] ELSE orders[o]]
    /\ worker' = [i \in Instances |-> [w \in Workers |->
                    IF worker[i][w].pc = "save"
                    THEN [worker[i][w] EXCEPT !.update.next = Sooner(@)] ELSE worker[i][w]]]
    /\ pause' = [i \in Instances |-> IF Paused(i) THEN pause[i] - 1 ELSE 0]
    /\ UNCHANGED <<service, jobs, notify, faults>>

WorkerStep(i, w) ==
    \/ Receive(i, w)
    \/ PassGate(i, w)
    \/ Answered(i, w)
    \/ Unanswered(i, w)
    \/ Refused(i, w)
    \/ Save(i, w)

Next ==
    \/ Tick
    \/ \E o \in Orders : ServiceConcludes(o)
    \/ \E i \in Instances :
          \/ ClaimDue(i)
          \/ \E o \in Orders : Upload(i, o) \/ ClaimNotified(i, o)
          \/ \E w \in Workers : WorkerStep(i, w)
          \/ Restart(i)

\* An order that is asked about again and again is answered at last.
AnsweredAbout(o) ==
    \E i \in Instances, w \in Workers :
        worker[i][w].pc = "fetch" /\ worker[i][w].job.order = o /\ Answered(i, w)

Fairness ==
    /\ WF_vars(Tick)
    /\ \A i \in Instances :
          /\ WF_vars(ClaimDue(i))
          /\ \A w \in Workers : WF_vars(WorkerStep(i, w))
    /\ \A o \in Orders : SF_vars(AnsweredAbout(o))

Spec == Init /\ [][Next]_vars /\ Fairness
-----------------------------------------------------------------------------
\* An order that was uploaded and that the accrual service has concluded is
\* concluded in the table at last: whatever notifications are dropped, however
\* short the batches are, and though claims get lost with a restart or with the
\* database's answer, saves fail, and 429s put every order off (worker.go:102).
VerdictsArrive ==
    \A o \in Orders :
        (orders[o] # None /\ service[o] \in Final)
            ~> (orders[o] # None /\ orders[o].status = service[o])

\* No order starves behind the others: while it is unfinished the service is
\* asked about it again and again, since claiming takes the longest overdue.
NoOrderStarves ==
    \A o \in Orders :
        IsUnfinished(o) ~>
            (~IsUnfinished(o) \/ \E i \in Instances, w \in Workers :
                worker[i][w].pc = "fetch" /\ worker[i][w].job.order = o)
=============================================================================
